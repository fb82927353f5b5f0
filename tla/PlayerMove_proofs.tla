--------------------------- MODULE PlayerMove_proofs ---------------------------
(***************************************************************************)
(* Proofs about PlayerMove, for any floors, speeds, windows, offsets and   *)
(* step lengths: the controller and the frame loop agree on the player,    *)
(* and a jump that is owed was asked for within the window.                *)
(***************************************************************************)
EXTENDS PlayerMove, TLAPS

Placed == [y : Int, vy : Int, grounded : BOOLEAN]
Runtimes == [y : Int, vy : Int, grounded : BOOLEAN, before : Int, vyBefore : Int]
Cameras == [y : Int, vy : Int, ground : BOOLEAN]
Cvars == [want : {"arena", "rpg"}, fixed : Nat, substeps : Nat \ {0}]
Frames == [running : BOOLEAN, ran : BOOLEAN, jump : BOOLEAN, way : -1..1,
           ticks : Seq(Nat), fixed : BOOLEAN]

PlayerTypes ==
    /\ motor \in {"arena", "rpg"}
    /\ buffer \in Int
    /\ state \in Placed
    /\ runtime \in Runtimes
    /\ floor \in Int
    /\ camera \in Cameras
    /\ held = <<>> \/ \E n \in Int : held = <<n>>

FrameTypes ==
    /\ cvars \in Cvars
    /\ flying \in BOOLEAN
    /\ accum \in Int
    /\ frame \in Frames

(* Only the arena motor owes jumps, or a switch would lose or invent one.  *)
RpgOwesNothing == motor = "rpg" => buffer = 0

(* A frame under a fixed step keeps that step.                             *)
StepFixed == frame.fixed => frame.running /\ cvars.fixed > 0

PlayerInv == PlayerTypes /\ RpgOwesNothing /\ Walking
FrameInv == FrameTypes /\ StepFixed
MoveInv == PlayerInv /\ FrameInv

-------------------------------------------------------------------------------
LEMMA InitMoves == MoveInit => MoveInv
<1> SUFFICES ASSUME MoveInit PROVE MoveInv
  OBVIOUS
<1>1. floor \in Int /\ floor + Offset \in Int /\ floor + Eye \in Int
  BY MoveAssumption DEF MoveInit
<1>2. state \in Placed /\ runtime \in Runtimes /\ camera \in Cameras
  BY <1>1 DEF MoveInit, Placed, Runtimes, Cameras
<1>3. motor \in {"arena", "rpg"} /\ held = <<>>
  BY DEF MoveInit
<1>4. buffer \in Int /\ accum \in Int
  BY DEF MoveInit
<1>5. Idle \in Frames
  <2>1. <<>> \in Seq(Nat)
    OBVIOUS
  <2> QED
    BY <2>1 DEF Idle, Frames
<1>6. frame \in Frames /\ flying \in BOOLEAN
  BY <1>5 DEF MoveInit
<1>7. cvars \in Cvars
  BY DEF MoveInit, Cvars
<1>8. StepFixed /\ RpgOwesNothing /\ OwedJump
  BY DEF MoveInit, StepFixed, RpgOwesNothing, OwedJump, Idle
<1>9. Agreed
  BY MoveAssumption DEF MoveInit, Agreed, Feet
<1> QED
  BY <1>1, <1>2, <1>3, <1>4, <1>6, <1>7, <1>8, <1>9
  DEF MoveInv, PlayerInv, FrameInv, PlayerTypes, FrameTypes, Walking

(* Where the collision may put the player.                                 *)
LEMMA MovedTypes ==
    ASSUME NEW y \in Int, NEW dy \in Int, NEW allow \in BOOLEAN, NEW m \in Moves(y, dy, allow)
    PROVE  /\ m.y \in Int /\ m.floor \in Int
           /\ m.grounded \in BOOLEAN /\ m.hitWall \in BOOLEAN /\ m.hitCeiling \in BOOLEAN
           /\ m.grounded => Feet(m.y) - m.floor \in 0..Snap
<1>1. PICK f \in Under(y, allow) :
        \E to \in {Most(f + Offset, Least(Ceiling - Offset, y + dy))} \cup {f + Offset} :
          m = [ y |-> to, floor |-> f, hitCeiling |-> dy > 0 /\ ~allow /\ y + dy > Ceiling - Offset,
                hitWall |-> ~(dy > 0 /\ ~allow) /\ y + dy > Ceiling - Offset,
                grounded |-> ~(dy > 0 /\ ~allow) /\ Feet(to) - f <= Snap ]
  BY DEF Moves
<1>2. f \in Int
  BY MoveAssumption DEF Under
<1>3. PICK to \in {Most(f + Offset, Least(Ceiling - Offset, y + dy))} \cup {f + Offset} :
          m = [ y |-> to, floor |-> f, hitCeiling |-> dy > 0 /\ ~allow /\ y + dy > Ceiling - Offset,
                hitWall |-> ~(dy > 0 /\ ~allow) /\ y + dy > Ceiling - Offset,
                grounded |-> ~(dy > 0 /\ ~allow) /\ Feet(to) - f <= Snap ]
  BY <1>1
<1>4. to \in Int /\ to >= f + Offset
  BY <1>2, <1>3, MoveAssumption DEF Most, Least
<1>5. m.y = to /\ m.floor = f
  BY <1>3
<1>6. m.grounded => Feet(to) - f <= Snap
  BY <1>3
<1>7. m.hitCeiling \in BOOLEAN /\ m.hitWall \in BOOLEAN /\ m.grounded \in BOOLEAN
  BY <1>3
<1>8. Feet(to) - f \in Nat
  BY <1>2, <1>4, MoveAssumption DEF Feet
<1>9. Feet(to) - f <= Snap => Feet(to) - f \in 0..Snap
  BY <1>8, MoveAssumption
<1>10. m.grounded => Feet(m.y) - m.floor \in 0..Snap
  BY <1>5, <1>6, <1>9
<1> QED
  BY <1>2, <1>4, <1>5, <1>7, <1>10

(* What a motor asks for, and what it then owes: a jump made is owed no    *)
(* more, one not made grows older by the step.                             *)
LEMMA MotorTypes ==
    ASSUME PlayerInv, NEW jump \in BOOLEAN, NEW dt \in Nat, NEW s \in MotorSteps(jump, dt)
    PROVE  /\ s.vy \in Int /\ s.buffer \in Int
           /\ motor = "rpg" => s.buffer = 0
           /\ s.buffer > 0 => ~s.jumps /\ (jump => s.buffer <= Window)
                                /\ (~jump => buffer > 0 /\ s.buffer = buffer - dt)
<1> USE DEF PlayerInv
<1>1. state.vy \in Int /\ state.grounded \in BOOLEAN /\ buffer \in Int
  BY DEF PlayerTypes, Placed
<1>2. CASE motor = "arena"
  <2>1. s = ArenaStep(jump, dt)
    BY <1>2 DEF MotorSteps
  <2>2. s.vy \in Int
    BY <2>1, <1>1, MoveAssumption DEF ArenaStep
  <2>3. Buffered(jump, dt) \in Int
    BY <1>1, MoveAssumption DEF Buffered, Most
  <2>4. CASE state.grounded /\ (jump \/ Buffered(jump, dt) > 0)
    <3>1. s.buffer = 0
      BY <2>1, <2>4 DEF ArenaStep
    <3> QED
      BY <1>2, <2>2, <3>1
  <2>5. CASE ~(state.grounded /\ (jump \/ Buffered(jump, dt) > 0))
    <3>1. s.buffer = Buffered(jump, dt) /\ ~s.jumps
      BY <2>1, <2>5 DEF ArenaStep
    <3>2. jump => Buffered(jump, dt) = Window
      BY DEF Buffered
    <3>3. ~jump /\ Buffered(jump, dt) > 0 => buffer > 0 /\ Buffered(jump, dt) = buffer - dt
      BY <1>1 DEF Buffered, Most
    <3> QED
      BY <1>2, <2>2, <2>3, <3>1, <3>2, <3>3, MoveAssumption
  <2> QED
    BY <2>4, <2>5
<1>3. CASE motor = "rpg"
  <2>1. s \in RpgSteps(jump, dt)
    BY <1>3 DEF MotorSteps
  <2>2. PICK v \in (CASE state.grounded /\ jump -> {JumpSpeed}
                      [] state.grounded /\ ~jump -> IF floor \in Slopes THEN {-1, 0, 1} ELSE {0}
                      [] OTHER -> {state.vy - Gravity * dt}) :
          s = [vy |-> v, buffer |-> buffer, jumps |-> state.grounded /\ jump]
    BY <2>1 DEF RpgSteps
  <2>3. v \in Int
    BY <2>2, <1>1, MoveAssumption
  <2>4. s.vy = v /\ s.buffer = buffer
    BY <2>2
  <2> QED
    BY <1>3, <2>3, <2>4 DEF RpgOwesNothing
<1> QED
  BY <1>2, <1>3 DEF PlayerTypes

-------------------------------------------------------------------------------
(* A tick of the player, whatever motor moves it and wherever it ends.     *)
LEMMA TickStep ==
    ASSUME PlayerInv, frame.jump \in BOOLEAN, NEW dt \in Nat, Tick(dt)
    PROVE  PlayerInv'
<1>1. PICK s \in MotorSteps(frame.jump, dt) :
        \E m \in Moves(state.y, s.vy * dt, state.grounded /\ ~frame.jump) :
          /\ buffer' = s.buffer
          /\ floor' = m.floor
          /\ state' = Committed(m, s.vy)
          /\ runtime' = [ y |-> m.y, vy |-> Upward(m, s.vy), grounded |-> m.grounded,
                          before |-> runtime.y, vyBefore |-> runtime.vy ]
          /\ camera' = [y |-> m.y + Eye, vy |-> Upward(m, s.vy), ground |-> m.grounded]
          /\ held' = IF frame.jump THEN <<0>>
                     ELSE IF s.jumps \/ held = <<>> THEN <<>> ELSE <<Least(Window, held[1] + dt)>>
          /\ motor' = motor
  BY DEF Tick
<1>2. PICK m \in Moves(state.y, s.vy * dt, state.grounded /\ ~frame.jump) :
          /\ buffer' = s.buffer
          /\ floor' = m.floor
          /\ state' = Committed(m, s.vy)
          /\ runtime' = [ y |-> m.y, vy |-> Upward(m, s.vy), grounded |-> m.grounded,
                          before |-> runtime.y, vyBefore |-> runtime.vy ]
          /\ camera' = [y |-> m.y + Eye, vy |-> Upward(m, s.vy), ground |-> m.grounded]
          /\ held' = IF frame.jump THEN <<0>>
                     ELSE IF s.jumps \/ held = <<>> THEN <<>> ELSE <<Least(Window, held[1] + dt)>>
          /\ motor' = motor
  BY <1>1
<1>3. /\ s.vy \in Int /\ s.buffer \in Int
      /\ motor = "rpg" => s.buffer = 0
      /\ s.buffer > 0 => ~s.jumps /\ (frame.jump => s.buffer <= Window)
                           /\ (~frame.jump => buffer > 0 /\ s.buffer = buffer - dt)
  BY MotorTypes
<1>4. state.y \in Int /\ state.grounded \in BOOLEAN /\ runtime.y \in Int /\ runtime.vy \in Int
  BY DEF PlayerInv, PlayerTypes, Placed, Runtimes
<1>5. /\ m.y \in Int /\ m.floor \in Int
      /\ m.grounded \in BOOLEAN /\ m.hitWall \in BOOLEAN /\ m.hitCeiling \in BOOLEAN
      /\ m.grounded => Feet(m.y) - m.floor \in 0..Snap
  <2>1. s.vy * dt \in Int /\ (state.grounded /\ ~frame.jump) \in BOOLEAN
    BY <1>3, <1>4
  <2> QED
    BY <2>1, <1>4, MovedTypes
<1>6. Upward(m, s.vy) \in Int
  BY <1>3 DEF Upward
<1>7. state' = [y |-> m.y, vy |-> Upward(m, s.vy), grounded |-> m.grounded]
  BY <1>2 DEF Committed
<1>8. held' = <<>> \/ \E n \in Int : held' = <<n>>
  <2>1. CASE frame.jump
    BY <1>2, <2>1
  <2>2. CASE ~frame.jump /\ (s.jumps \/ held = <<>>)
    BY <1>2, <2>2
  <2>3. CASE ~frame.jump /\ ~s.jumps /\ held # <<>>
    <3>1. held' = <<Least(Window, held[1] + dt)>>
      BY <1>2, <2>3
    <3>2. PICK n \in Int : held = <<n>>
      BY <2>3 DEF PlayerInv, PlayerTypes
    <3>3. Least(Window, held[1] + dt) \in Int
      BY <3>2, MoveAssumption DEF Least
    <3> QED
      BY <3>1, <3>3
  <2> QED
    BY <2>1, <2>2, <2>3
<1>9. PlayerTypes'
  <2>1. state' \in Placed
    BY <1>5, <1>6, <1>7 DEF Placed
  <2>2. runtime' \in Runtimes
    BY <1>2, <1>4, <1>5, <1>6 DEF Runtimes
  <2>3. camera' \in Cameras
    BY <1>2, <1>5, <1>6, MoveAssumption DEF Cameras
  <2>4. motor' \in {"arena", "rpg"} /\ buffer' \in Int /\ floor' \in Int
    BY <1>2, <1>3, <1>5 DEF PlayerInv, PlayerTypes
  <2> QED
    BY <2>1, <2>2, <2>3, <2>4, <1>8 DEF PlayerTypes
<1>10. RpgOwesNothing'
  BY <1>2, <1>3 DEF RpgOwesNothing
<1>11. Agreed'
  <2>1. /\ state'.y = m.y /\ state'.grounded = m.grounded
        /\ runtime'.y = m.y /\ runtime'.vy = Upward(m, s.vy) /\ runtime'.grounded = m.grounded
    BY <1>2, <1>7
  <2>2. state' = [y |-> runtime'.y, vy |-> runtime'.vy, grounded |-> runtime'.grounded]
    BY <1>7, <2>1
  <2>3. state'.grounded => Feet(state'.y) - floor' \in 0..Snap
    BY <1>2, <1>5, <2>1
  <2> QED
    BY <2>2, <2>3 DEF Agreed, Feet
<1>12. OwedJump'
  <2> SUFFICES ASSUME buffer' > 0
               PROVE  held' # <<>> /\ held'[1] + buffer' <= Window
    BY DEF OwedJump
  <2>1. s.buffer > 0 /\ ~s.jumps
    BY <1>2, <1>3
  <2>2. CASE frame.jump
    <3>1. held' = <<0>> /\ buffer' <= Window
      BY <1>2, <1>3, <2>1, <2>2
    <3> QED
      BY <3>1, <1>2, <1>3, MoveAssumption
  <2>3. CASE ~frame.jump
    <3>1. buffer > 0 /\ buffer' = buffer - dt
      BY <1>2, <1>3, <2>1, <2>3
    <3>2. held # <<>> /\ held[1] + buffer <= Window
      BY <3>1 DEF PlayerInv, Walking, OwedJump
    <3>3. PICK n \in Int : held = <<n>>
      BY <3>2 DEF PlayerInv, PlayerTypes
    <3>4. held' = <<Least(Window, held[1] + dt)>>
      BY <1>2, <2>1, <2>3, <3>2
    <3>5. held[1] = n /\ buffer \in Int
      BY <3>3 DEF PlayerInv, PlayerTypes
    <3>6. Least(Window, held[1] + dt) <= held[1] + dt
      BY <3>5, MoveAssumption DEF Least
    <3>7. Least(Window, held[1] + dt) \in Int
      BY <3>5, MoveAssumption DEF Least
    <3>8. Least(Window, held[1] + dt) + buffer' <= Window
      BY <3>1, <3>2, <3>5, <3>6, <3>7, MoveAssumption
    <3> QED
      BY <3>4, <3>8
  <2> QED
    BY <2>2, <2>3
<1> QED
  BY <1>9, <1>10, <1>11, <1>12 DEF PlayerInv, Walking

(* The player put where the camera flew.                                   *)
LEMMA FlyStep ==
    ASSUME PlayerInv, NEW y \in Int, FlyTo(y)
    PROVE  PlayerInv'
<1>1. y - Eye + Offset \in Int
  BY MoveAssumption
<1>2. PlayerTypes'
  <2>1. state' \in Placed /\ runtime' \in Runtimes /\ camera' \in Cameras
    BY <1>1 DEF FlyTo, Placed, Runtimes, Cameras
  <2>2. motor' = motor /\ floor' = floor /\ buffer' = 0 /\ held' = <<>>
    BY DEF FlyTo
  <2> QED
    BY <2>1, <2>2 DEF PlayerInv, PlayerTypes
<1>3. RpgOwesNothing' /\ OwedJump'
  BY DEF FlyTo, RpgOwesNothing, OwedJump
<1>4. Agreed'
  BY DEF FlyTo, Agreed
<1> QED
  BY <1>2, <1>3, <1>4 DEF PlayerInv, Walking

(* A switch of motors keeps the player where it is and forgets the jump    *)
(* that the other motor was asked for.                                     *)
LEMMA SwitchStep ==
    ASSUME PlayerInv, NEW k \in {"arena", "rpg"}, SwitchMotor(k),
           floor' = floor, camera' = camera
    PROVE  PlayerInv'
<1>1. CASE motor = k
  <2>1. motor' = motor /\ buffer' = buffer /\ held' = held /\ runtime' = runtime /\ state' = state
    BY <1>1 DEF SwitchMotor, ResetOnSwitch
  <2> QED
    BY <2>1 DEF PlayerInv, PlayerTypes, RpgOwesNothing, Walking, Agreed, OwedJump
<1>2. CASE motor # k
  <2>1. /\ motor' = k /\ buffer' = 0 /\ held' = <<>>
        /\ runtime' = [runtime EXCEPT !.before = runtime.y]
        /\ state' = [y |-> runtime.y, vy |-> runtime.vy, grounded |-> runtime.grounded]
    BY <1>2 DEF SwitchMotor, ResetOnSwitch
  <2>2. state' = state
    BY <2>1 DEF PlayerInv, Walking, Agreed
  <2>3. runtime' \in Runtimes
    BY <2>1 DEF PlayerInv, PlayerTypes, Runtimes
  <2>4. runtime'.y = runtime.y /\ runtime'.vy = runtime.vy /\ runtime'.grounded = runtime.grounded
    BY <2>1 DEF PlayerInv, PlayerTypes, Runtimes
  <2>5. PlayerTypes'
    BY <2>1, <2>2, <2>3 DEF PlayerInv, PlayerTypes
  <2>6. RpgOwesNothing' /\ OwedJump'
    BY <2>1 DEF RpgOwesNothing, OwedJump
  <2>7. Agreed'
    BY <2>2, <2>4 DEF PlayerInv, Walking, Agreed, Feet
  <2> QED
    BY <2>5, <2>6, <2>7 DEF PlayerInv, Walking
<1> QED
  BY <1>1, <1>2

(* What leaves the player alone, but perhaps its camera.                   *)
LEMMA PlayerKept ==
    ASSUME PlayerInv, camera' \in Cameras,
           UNCHANGED <<motor, buffer, state, runtime, floor, held>>
    PROVE  PlayerInv'
BY DEF PlayerInv, PlayerTypes, RpgOwesNothing, Walking, Agreed, OwedJump

-------------------------------------------------------------------------------
(* The frame.                                                              *)
LEMMA RepeatTypes ==
    ASSUME NEW n \in Int, NEW x \in Nat
    PROVE  Repeat(n, x) \in Seq(Nat)
<1>1. CASE n >= 0
  BY <1>1 DEF Repeat
<1>2. CASE n < 0
  <2>1. 1..n = 1..0
    BY <1>2
  <2>2. Repeat(n, x) = [i \in 1..0 |-> x]
    BY <2>1 DEF Repeat
  <2> QED
    BY <2>2
<1> QED
  BY <1>1, <1>2

LEMMA BeginFrameStep ==
    ASSUME MoveInv, NEW dt \in Nat, NEW jump \in BOOLEAN, NEW way \in -1..1,
           BeginFrame(dt, jump, way)
    PROVE  MoveInv'
<1> DEFINE fixed == cvars.fixed > 0
           steps == IF fixed THEN FixedSteps(dt) ELSE 1
           sub == cvars.fixed \div cvars.substeps
           ticks == IF ~fixed THEN <<dt>>
                    ELSE IF flying /\ steps = 0 THEN <<dt>>
                    ELSE Repeat(steps * cvars.substeps, sub)
<1>1. /\ SwitchMotor(cvars.want)
      /\ frame' = [ running |-> TRUE, ran |-> FALSE, jump |-> jump, way |-> way,
                    fixed |-> fixed, ticks |-> ticks ]
      /\ accum' = IF fixed THEN Least(MaxAccum, accum + dt) - steps * cvars.fixed ELSE 0
      /\ cvars' = cvars /\ floor' = floor /\ camera' = camera /\ flying' = flying
  BY DEF BeginFrame
<1>2. /\ cvars.want \in {"arena", "rpg"} /\ cvars.fixed \in Nat /\ cvars.substeps \in Nat \ {0}
      /\ accum \in Int
  BY DEF MoveInv, FrameInv, FrameTypes, Cvars
<1>3. PlayerInv'
  BY <1>1, <1>2, SwitchStep DEF MoveInv
<1>4. steps \in Int
  <2>1. fixed => Least(MaxAccum, accum + dt) \div cvars.fixed \in Int
    BY <1>2, MoveAssumption DEF Least
  <2> QED
    BY <2>1, MoveAssumption DEF FixedSteps, Least
<1>5. steps * cvars.substeps \in Int /\ steps * cvars.fixed \in Int
  BY <1>2, <1>4
<1>6. sub \in Nat
  BY <1>2
<1>7. ticks \in Seq(Nat)
  <2>1. <<dt>> \in Seq(Nat)
    OBVIOUS
  <2>2. Repeat(steps * cvars.substeps, sub) \in Seq(Nat)
    BY <1>5, <1>6, RepeatTypes
  <2> QED
    BY <2>1, <2>2
<1>8. frame' \in Frames
  <2> HIDE DEF ticks, fixed
  <2>1. fixed \in BOOLEAN
    BY DEF fixed
  <2> QED
    BY <1>1, <1>7, <2>1 DEF Frames
<1>9. accum' \in Int
  BY <1>1, <1>2, <1>5, MoveAssumption DEF Least
<1>10. FrameTypes'
  BY <1>1, <1>8, <1>9 DEF MoveInv, FrameInv, FrameTypes
<1>11. StepFixed'
  <2>1. frame'.fixed = fixed /\ frame'.running
    BY <1>1
  <2> QED
    BY <1>1, <2>1 DEF StepFixed
<1> QED
  BY <1>3, <1>10, <1>11 DEF MoveInv, FrameInv

LEMMA MoveStepStep ==
    ASSUME MoveInv, MoveStep
    PROVE  MoveInv'
<1>1. /\ frame.ticks # <<>>
      /\ IF flying THEN FlyTick(Head(frame.ticks)) ELSE Tick(Head(frame.ticks))
      /\ frame' = [frame EXCEPT !.ticks = Tail(@), !.ran = TRUE]
  BY DEF MoveStep
<1>2. frame \in Frames
  BY DEF MoveInv, FrameInv, FrameTypes
<1>3. /\ frame.ticks \in Seq(Nat) /\ frame.jump \in BOOLEAN /\ frame.way \in Int
      /\ frame.fixed \in BOOLEAN
  BY <1>2 DEF Frames
<1>4. Head(frame.ticks) \in Nat /\ Tail(frame.ticks) \in Seq(Nat)
  BY <1>1, <1>3
<1>5. PlayerInv' /\ cvars' = cvars /\ flying' = flying /\ accum' = accum
  <2>1. CASE flying
    <3>1. FlyTo(camera.y + frame.way * Head(frame.ticks))
      BY <1>1, <2>1 DEF FlyTick
    <3>2. camera.y + frame.way * Head(frame.ticks) \in Int
      <4>1. camera.y \in Int
        BY DEF MoveInv, PlayerInv, PlayerTypes, Cameras
      <4> QED
        BY <4>1, <1>3, <1>4
    <3> QED
      BY <3>1, <3>2, FlyStep DEF MoveInv, FlyTo
  <2>2. CASE ~flying
    <3>1. Tick(Head(frame.ticks))
      BY <1>1, <2>2
    <3>2. PlayerInv'
      BY <1>3, <1>4, <3>1, TickStep DEF MoveInv
    <3> QED
      BY <3>1, <3>2 DEF Tick
  <2> QED
    BY <2>1, <2>2
<1>6. frame' \in Frames /\ frame'.fixed = frame.fixed /\ frame'.running = frame.running
  BY <1>1, <1>2, <1>4 DEF Frames
<1> QED
  BY <1>5, <1>6 DEF MoveInv, FrameInv, FrameTypes, StepFixed

LEMMA EndFrameStep ==
    ASSUME MoveInv, EndFrame
    PROVE  MoveInv'
<1> DEFINE between(a, b) == a + ((b - a) * accum) \div cvars.fixed
<1>1. /\ frame' = Idle
      /\ camera' = IF frame.fixed /\ frame.ran /\ ~flying
                   THEN [ y |-> Feet(between(runtime.before, runtime.y)) + Eye,
                          vy |-> between(runtime.vyBefore, runtime.vy), ground |-> runtime.grounded ]
                   ELSE camera
      /\ UNCHANGED <<cvars, motor, buffer, state, runtime, floor, flying, accum, held>>
  BY DEF EndFrame
<1>2. /\ runtime \in Runtimes /\ camera \in Cameras
      /\ cvars.fixed \in Nat /\ accum \in Int
  BY DEF MoveInv, PlayerInv, PlayerTypes, FrameInv, FrameTypes, Cvars
<1>3. /\ runtime.y \in Int /\ runtime.before \in Int
      /\ runtime.vy \in Int /\ runtime.vyBefore \in Int /\ runtime.grounded \in BOOLEAN
  BY <1>2 DEF Runtimes
<1>4. camera' \in Cameras
  <2>1. CASE frame.fixed /\ frame.ran /\ ~flying
    <3>1. cvars.fixed > 0
      BY <2>1 DEF MoveInv, FrameInv, StepFixed
    <3>2. ASSUME NEW a \in Int, NEW b \in Int PROVE between(a, b) \in Int
      <4>1. (b - a) * accum \in Int
        BY <1>2
      <4> QED
        BY <4>1, <3>1, <1>2
    <3> HIDE DEF between
    <3>3. between(runtime.before, runtime.y) \in Int /\ between(runtime.vyBefore, runtime.vy) \in Int
      BY <3>2, <1>3
    <3>4. Feet(between(runtime.before, runtime.y)) + Eye \in Int
      BY <3>3, MoveAssumption DEF Feet
    <3> QED
      BY <1>1, <1>3, <2>1, <3>3, <3>4 DEF Cameras
  <2>2. CASE ~(frame.fixed /\ frame.ran /\ ~flying)
    BY <1>1, <1>2, <2>2
  <2> QED
    BY <2>1, <2>2
<1>5. PlayerInv'
  BY <1>1, <1>4, PlayerKept DEF MoveInv
<1>6. frame' \in Frames /\ ~frame'.fixed
  <2>1. <<>> \in Seq(Nat)
    OBVIOUS
  <2> QED
    BY <1>1, <2>1 DEF Idle, Frames
<1> QED
  BY <1>1, <1>5, <1>6 DEF MoveInv, FrameInv, FrameTypes, StepFixed

(* Between frames no frame has a step to keep.                             *)
LEMMA BetweenFrames ==
    ASSUME MoveInv, ToggleFlight \/ SetCvars
           \/ \E k \in {"arena", "rpg"} : SetMotor(k) \/ PlayerSetProfile(k)
    PROVE  MoveInv'
<1>1. CASE ToggleFlight
  <2>1. /\ flying' = ~flying
        /\ camera' = IF flying THEN camera ELSE [camera EXCEPT !.vy = 0, !.ground = FALSE]
        /\ UNCHANGED <<cvars, motor, buffer, state, runtime, floor, accum, frame, held>>
    BY <1>1 DEF ToggleFlight
  <2>2. camera' \in Cameras
    <3>1. camera \in Cameras
      BY DEF MoveInv, PlayerInv, PlayerTypes
    <3>2. [camera EXCEPT !.vy = 0] \in Cameras
      BY <3>1 DEF Cameras
    <3>3. [[camera EXCEPT !.vy = 0] EXCEPT !.ground = FALSE] \in Cameras
      BY <3>2 DEF Cameras
    <3> QED
      BY <2>1, <3>1, <3>3
  <2>3. PlayerInv'
    BY <2>1, <2>2, PlayerKept DEF MoveInv
  <2> QED
    BY <2>1, <2>3 DEF MoveInv, FrameInv, FrameTypes, StepFixed
<1>2. CASE SetCvars
  <2>1. PICK f \in FixedTimes, n \in Substeps : cvars' = [cvars EXCEPT !.fixed = f, !.substeps = n]
    BY <1>2 DEF SetCvars
  <2>2. /\ ~frame.running
        /\ UNCHANGED <<motor, buffer, state, runtime, floor, camera, flying, accum, frame, held>>
    BY <1>2 DEF SetCvars
  <2>3. cvars' \in Cvars
    <3>1. f \in Nat /\ n \in Nat \ {0}
      BY <2>1, MoveAssumption
    <3> QED
      BY <2>1, <3>1 DEF MoveInv, FrameInv, FrameTypes, Cvars
  <2>4. PlayerInv'
    BY <2>2, PlayerKept DEF MoveInv, PlayerInv, PlayerTypes
  <2> QED
    BY <2>2, <2>3, <2>4 DEF MoveInv, FrameInv, FrameTypes, StepFixed
<1>3. ASSUME NEW k \in {"arena", "rpg"}, SetMotor(k) PROVE MoveInv'
  <2>1. /\ cvars' = [cvars EXCEPT !.want = k]
        /\ UNCHANGED <<motor, buffer, state, runtime, floor, camera, flying, accum, frame, held>>
    BY <1>3 DEF SetMotor
  <2>2. cvars' \in Cvars /\ cvars'.fixed = cvars.fixed
    BY <2>1 DEF MoveInv, FrameInv, FrameTypes, Cvars
  <2>3. PlayerInv'
    BY <2>1, PlayerKept DEF MoveInv, PlayerInv, PlayerTypes
  <2> QED
    BY <2>1, <2>2, <2>3 DEF MoveInv, FrameInv, FrameTypes, StepFixed
<1>4. ASSUME NEW k \in {"arena", "rpg"}, PlayerSetProfile(k) PROVE MoveInv'
  <2>1. /\ cvars' = [cvars EXCEPT !.want = k]
        /\ SwitchMotor(k)
        /\ UNCHANGED <<floor, camera, flying, accum, frame>>
    BY <1>4 DEF PlayerSetProfile
  <2>2. cvars' \in Cvars /\ cvars'.fixed = cvars.fixed
    BY <2>1 DEF MoveInv, FrameInv, FrameTypes, Cvars
  <2>3. PlayerInv'
    BY <2>1, SwitchStep DEF MoveInv
  <2> QED
    BY <2>1, <2>2, <2>3 DEF MoveInv, FrameInv, FrameTypes, StepFixed
<1> QED
  BY <1>1, <1>2, <1>3, <1>4

LEMMA StepMoves == MoveInv /\ [MoveNext]_movevars => MoveInv'
<1> SUFFICES ASSUME MoveInv, [MoveNext]_movevars PROVE MoveInv'
  OBVIOUS
<1>1. ASSUME NEW dt \in FrameTimes, NEW jump \in BOOLEAN,
             NEW way \in (IF flying THEN -1..1 ELSE {0}), BeginFrame(dt, jump, way)
      PROVE  MoveInv'
  <2>1. dt \in Nat /\ way \in -1..1
    BY MoveAssumption
  <2> QED
    BY <1>1, <2>1, BeginFrameStep
<1>2. CASE MoveStep
  BY <1>2, MoveStepStep
<1>3. CASE EndFrame
  BY <1>3, EndFrameStep
<1>4. CASE ToggleFlight \/ SetCvars
           \/ \E k \in {"arena", "rpg"} : SetMotor(k) \/ PlayerSetProfile(k)
  BY <1>4, BetweenFrames
<1>5. CASE UNCHANGED movevars
  BY <1>5 DEF movevars, MoveInv, PlayerInv, PlayerTypes, FrameInv, FrameTypes, StepFixed,
              RpgOwesNothing, Walking, Agreed, OwedJump
<1> QED
  BY <1>1, <1>2, <1>3, <1>4, <1>5 DEF MoveNext

(* Whatever frames, ticks, flights, switches of the motor and changes of   *)
(* the step come together, the controller and the frame loop agree on the  *)
(* player, one that stands has the floor within reach of a snap, and a     *)
(* jump that is owed was asked of this motor no longer ago than the window *)
(* (update_test_map_runtime, switch_test_map_motor, ArenaMotor::step).     *)
THEOREM PlayerCopiesAgree == MoveSpec => []Walking
<1>1. MoveInv => Walking
  BY DEF MoveInv, PlayerInv
<1> QED
  BY <1>1, InitMoves, StepMoves, PTL DEF MoveSpec
================================================================================
