------------------------------ MODULE PlayerMove ------------------------------
(***************************************************************************)
(* The player of a test map, as far as it moves up and down: the two       *)
(* motors with their jump, the collision that carries out a tick, the      *)
(* controller, and the runtime and camera the frame loop keeps beside it   *)
(* (src/character_motor_arena, src/character_motor_rpg,                    *)
(* src/character_collision, src/player_controller, src/player_camera,      *)
(* src/pallet/src/main.rs).                                                *)
(*                                                                         *)
(* Heights, velocities and times are integers.  Where the player walks to  *)
(* is not modelled: every tick it may find itself over another floor.      *)
(***************************************************************************)
EXTENDS Integers, Sequences, FiniteSets

CONSTANTS
    Floors,         \* the heights of the floors
    Slopes,         \* those that are slopes
    Ceiling,
    JumpSpeed, Gravity,
    Window,         \* jump_buffer_window
    Snap, StepUp,   \* ground_snap_distance with the offsets, step_height
    Offset,         \* capsule_offset: from the feet to the capsule's centre
    Eye,            \* TEST_MAP_EYE_HEIGHT
    FrameTimes, FixedTimes, Substeps,
    MaxAccum, MaxSteps,
    Fastest         \* bound: the speed of a fall

ASSUME MoveAssumption ==
    /\ Floors \subseteq Int /\ Ceiling \in Int /\ Eye \in Int
    /\ JumpSpeed \in Int /\ Gravity \in Int /\ Fastest \in Int
    /\ Window \in Nat /\ Snap \in Nat /\ StepUp \in Nat /\ Offset \in Nat
    /\ FrameTimes \subseteq Nat /\ FixedTimes \subseteq Nat /\ Substeps \subseteq Nat \ {0}
    /\ 1 \in Substeps /\ 0 \in FixedTimes
    /\ MaxAccum \in Nat /\ MaxSteps \in Nat

VARIABLES
    cvars,          \* dev_motor, dev_fixed_dt (0: none) and dev_substeps
    motor,          \* the motor in use
    buffer,         \* jump_buffer_time of the arena motor
    state,          \* the controller's: height of the centre, speed, grounded
    runtime,        \* the frame loop's copy, and the one before it
    floor,          \* the floor below, as the last tick found it
    camera,
    flying,
    accum,          \* fixed_dt_accum
    frame,          \* the frame in progress: its input and the ticks left
    held            \* history: the age of the request to jump, until it is met,
                    \* no longer counted past the window

movevars == <<cvars, motor, buffer, state, runtime, floor, camera, flying, accum, frame, held>>

Least(a, b) == IF a < b THEN a ELSE b
Most(a, b) == IF a < b THEN b ELSE a
Idle == [running |-> FALSE, ran |-> FALSE, jump |-> FALSE, way |-> 0, ticks |-> <<>>, fixed |-> FALSE]
Feet(y) == y - Offset

-------------------------------------------------------------------------------
(* The motors.                                                             *)

(* What is left of the buffer when a step begins: a held jump fills it.    *)
Buffered(jump, dt) == IF jump THEN Window ELSE Most(0, buffer - dt)

(* ArenaMotor::step: a grounded player that wants to jump does, and spends *)
(* the buffer; the others stand or fall.                                   *)
ArenaStep(jump, dt) ==
    LET jumps == state.grounded /\ (jump \/ Buffered(jump, dt) > 0)
    IN [ vy |-> CASE jumps -> JumpSpeed
                  [] state.grounded /\ ~jumps -> 0
                  [] OTHER -> state.vy - Gravity * dt,
         buffer |-> IF jumps THEN 0 ELSE Buffered(jump, dt),
         jumps |-> jumps ]

(* RpgMotor::step: no buffer, and on a slope the velocity follows it.      *)
RpgSteps(jump, dt) ==
    { [vy |-> vy, buffer |-> buffer, jumps |-> state.grounded /\ jump] :
        vy \in CASE state.grounded /\ jump -> {JumpSpeed}
                 [] state.grounded /\ ~jump -> IF floor \in Slopes THEN {-1, 0, 1} ELSE {0}
                 [] OTHER -> {state.vy - Gravity * dt} }

MotorSteps(jump, dt) == IF motor = "arena" THEN {ArenaStep(jump, dt)} ELSE RpgSteps(jump, dt)

-------------------------------------------------------------------------------
(* The collision.                                                          *)

(* The floors the player can be over after a tick: those below its feet,   *)
(* and a step higher when it may step.                                     *)
Under(y, allowStep) == {f \in Floors : f <= Feet(y) + (IF allowStep THEN StepUp ELSE 0)}

(* move_character.  The shape is stopped by the floor and the ceiling, and *)
(* a fall that ends just above a floor may be snapped to it.  A ceiling is *)
(* told from a wall only by a player that moves up without stepping; that  *)
(* player is never grounded.  Grounded is what the probe finds: sliding    *)
(* down a slope, which counts as grounded too, is part of the horizontal   *)
(* half that is left out.                                                  *)
Moves(y, dy, allowStep) ==
    LET movingUp == dy > 0 /\ ~allowStep
    IN UNION { LET landed == Most(f + Offset, Least(Ceiling - Offset, y + dy))
                   snaps == dy < 0 /\ landed - Offset - f <= Snap
                   blocked == y + dy > Ceiling - Offset
               IN { [ y |-> to, floor |-> f, hitCeiling |-> movingUp /\ blocked,
                      hitWall |-> ~movingUp /\ blocked,
                      grounded |-> ~movingUp /\ Feet(to) - f <= Snap ] :
                    to \in {landed} \cup (IF snaps THEN {f + Offset} ELSE {}) } :
               f \in Under(y, allowStep) }

-------------------------------------------------------------------------------
(* The controller's tick, and what update_test_map_runtime makes of it.    *)

Upward(m, v) ==
    CASE m.hitWall /\ v > 0 -> 0
      [] m.hitCeiling /\ v > 0 -> 0
      [] m.grounded /\ v < 0 /\ m.floor \notin Slopes -> 0
      [] OTHER -> v

\* Mutant: the corrected velocity is kept in the runtime alone.
ForgottenVelocity(m, v) == [y |-> m.y, vy |-> v, grounded |-> m.grounded]

Committed(m, v) == [y |-> m.y, vy |-> Upward(m, v), grounded |-> m.grounded]

Tick(dt) ==
    \E s \in MotorSteps(frame.jump, dt) :
        \E m \in Moves(state.y, s.vy * dt, state.grounded /\ ~frame.jump) :
            /\ s.vy >= -Fastest
            /\ buffer' = s.buffer
            /\ floor' = m.floor
            /\ state' = Committed(m, s.vy)
            /\ runtime' = [ y |-> m.y, vy |-> Upward(m, s.vy), grounded |-> m.grounded,
                            before |-> runtime.y, vyBefore |-> runtime.vy ]
            /\ camera' = [y |-> m.y + Eye, vy |-> Upward(m, s.vy), ground |-> m.grounded]
            /\ held' = IF frame.jump THEN <<0>>
                       ELSE IF s.jumps \/ held = <<>> THEN <<>> ELSE <<Least(Window, held[1] + dt)>>
            /\ UNCHANGED <<cvars, motor, flying, accum>>

(* CameraState::update_fly and sync_test_map_runtime_to_camera: the player *)
(* is put where the camera flew.                                           *)
FlyTo(y) ==
    LET centre == y - Eye + Offset
    IN /\ Feet(centre) >= 0 /\ centre + Offset <= Ceiling
       /\ camera' = [y |-> y, vy |-> 0, ground |-> FALSE]
       /\ runtime' = [y |-> centre, vy |-> 0, grounded |-> FALSE, before |-> centre, vyBefore |-> 0]
       /\ state' = [y |-> centre, vy |-> 0, grounded |-> FALSE]
       /\ buffer' = 0
       /\ held' = <<>>
       /\ UNCHANGED <<cvars, motor, floor, flying, accum>>
FlyTick(dt) == FlyTo(camera.y + frame.way * dt)

-------------------------------------------------------------------------------
(* A frame.                                                                *)

\* Mutant: the arena motor keeps its buffer while the other one runs.
KeptBuffer(k) == buffer

ResetOnSwitch(k) == IF motor = k THEN buffer ELSE 0

(* switch_test_map_motor: the profiles give both motors the same offset,   *)
(* so the feet stay; the controller takes the runtime's velocity back.     *)
SwitchMotor(k) ==
    /\ motor' = k
    /\ buffer' = ResetOnSwitch(k)
    /\ held' = (IF motor = k THEN held ELSE <<>>)
    /\ runtime' = (IF motor = k THEN runtime ELSE [runtime EXCEPT !.before = runtime.y])
    /\ state' = (IF motor = k THEN state
                 ELSE [y |-> runtime.y, vy |-> runtime.vy, grounded |-> runtime.grounded])

(* The ticks of a frame under a fixed step: as many whole steps as the     *)
(* accumulated time holds, up to MaxSteps, each in its substeps.           *)
Repeat(n, x) == [i \in 1..n |-> x]
FixedSteps(dt) == Least(MaxSteps, Least(MaxAccum, accum + dt) \div cvars.fixed)

BeginFrame(dt, jump, way) ==
    LET fixed == cvars.fixed > 0
        steps == IF fixed THEN FixedSteps(dt) ELSE 1
        sub == cvars.fixed \div cvars.substeps
    IN /\ ~frame.running
       /\ SwitchMotor(cvars.want)
       /\ frame' = [ running |-> TRUE, ran |-> FALSE, jump |-> jump, way |-> way, fixed |-> fixed,
                     ticks |-> IF ~fixed THEN <<dt>>
                               ELSE IF flying /\ steps = 0 THEN <<dt>>
                               ELSE Repeat(steps * cvars.substeps, sub) ]
       /\ accum' = IF fixed THEN Least(MaxAccum, accum + dt) - steps * cvars.fixed ELSE 0
       /\ UNCHANGED <<cvars, floor, camera, flying>>

MoveStep ==
    /\ frame.running /\ frame.ticks # <<>>
    /\ IF flying THEN FlyTick(Head(frame.ticks)) ELSE Tick(Head(frame.ticks))
    /\ frame' = [frame EXCEPT !.ticks = Tail(@), !.ran = TRUE]

(* Under a fixed step that ran, the camera is put between the last two     *)
(* places of the player, over its feet.                                    *)
EndFrame ==
    LET between(a, b) == a + ((b - a) * accum) \div cvars.fixed
    IN /\ frame.running /\ frame.ticks = <<>>
       /\ frame' = Idle
       /\ camera' = IF frame.fixed /\ frame.ran /\ ~flying
                    THEN [ y |-> Feet(between(runtime.before, runtime.y)) + Eye,
                           vy |-> between(runtime.vyBefore, runtime.vy), ground |-> runtime.grounded ]
                    ELSE camera
       /\ UNCHANGED <<cvars, motor, buffer, state, runtime, floor, flying, accum, held>>

-------------------------------------------------------------------------------
(* Between frames: KeyF, the console's cvars, and player_set_profile, which *)
(* switches at once.                                                        *)

ToggleFlight ==
    /\ ~frame.running
    /\ flying' = ~flying
    /\ camera' = IF flying THEN camera ELSE [camera EXCEPT !.vy = 0, !.ground = FALSE]
    /\ UNCHANGED <<cvars, motor, buffer, state, runtime, floor, accum, frame, held>>

SetCvars ==
    /\ ~frame.running
    /\ \E f \in FixedTimes, n \in Substeps : cvars' = [cvars EXCEPT !.fixed = f, !.substeps = n]
    /\ UNCHANGED <<motor, buffer, state, runtime, floor, camera, flying, accum, frame, held>>

SetMotor(k) ==
    /\ ~frame.running
    /\ cvars' = [cvars EXCEPT !.want = k]
    /\ UNCHANGED <<motor, buffer, state, runtime, floor, camera, flying, accum, frame, held>>

PlayerSetProfile(k) ==
    /\ ~frame.running
    /\ cvars' = [cvars EXCEPT !.want = k]
    /\ SwitchMotor(k)
    /\ UNCHANGED <<floor, camera, flying, accum, frame>>

(* enter_map_scene: the player is dropped onto the map and stands there.   *)
MoveInit ==
    /\ cvars = [want |-> "arena", fixed |-> 0, substeps |-> 1]
    /\ motor = "arena" /\ buffer = 0 /\ flying = FALSE /\ accum = 0
    /\ floor \in Floors
    /\ state = [y |-> floor + Offset, vy |-> 0, grounded |-> TRUE]
    /\ runtime = [y |-> floor + Offset, vy |-> 0, grounded |-> TRUE, before |-> floor + Offset, vyBefore |-> 0]
    /\ camera = [y |-> floor + Eye, vy |-> 0, ground |-> TRUE]
    /\ frame = Idle
    /\ held = <<>>

MoveNext ==
    \/ \E dt \in FrameTimes, jump \in BOOLEAN : \E way \in (IF flying THEN -1..1 ELSE {0}) :
        BeginFrame(dt, jump, way)
    \/ MoveStep
    \/ EndFrame
    \/ ToggleFlight
    \/ SetCvars
    \/ \E k \in {"arena", "rpg"} : SetMotor(k) \/ PlayerSetProfile(k)

MoveSpec == MoveInit /\ [][MoveNext]_movevars

-------------------------------------------------------------------------------
(* The controller and the frame loop agree on where the player is, how     *)
(* fast it moves and whether it stands; a player that stands has the floor *)
(* within reach of a snap (update_test_map_runtime, switch_test_map_motor, *)
(* sync_test_map_runtime_to_camera).                                       *)
Agreed ==
    /\ state = [y |-> runtime.y, vy |-> runtime.vy, grounded |-> runtime.grounded]
    /\ state.grounded => Feet(state.y) - floor \in 0..Snap

(* A jump the arena motor still owes was asked of that motor, within the   *)
(* buffer's window, and has not been made (ArenaMotor::step,               *)
(* DualMotor::set_kind).                                                   *)
OwedJump == buffer > 0 => held # <<>> /\ held[1] + buffer <= Window

Walking == Agreed /\ OwedJump
================================================================================
