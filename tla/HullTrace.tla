------------------------------- MODULE HullTrace -------------------------------
(***************************************************************************)
(* How the player walks a Quake level: the scene build_scene_mesh makes of *)
(* a BSP, the trace of a point through its clip hull, the slide and the    *)
(* step built on it, the search that frees a stuck player, and the frames  *)
(* of CameraState that use them (src/pallet/src/main.rs).                  *)
(*                                                                         *)
(* Positions are integers, planes are axial and velocities are the signs   *)
(* of their components, so that every point a trace computes is exact: a   *)
(* move of n steps along v ends at start + n * v, and Eps is the number of *)
(* steps before a plane where DIST_EPSILON stops it.                       *)
(***************************************************************************)
EXTENDS MapCook

CONSTANTS
    Levels,         \* the BSPs that can be loaded
    Eps, EyeHeight, StepHeight, MaxDrop, Probe,
    MaxDown,        \* how far below try_unstuck looks first
    UnstuckDy, UnstuckRadii,
    Wishes,         \* the horizontal directions the keys can ask for
    Strides,        \* the steps a frame may last
    Reach           \* bound: how far from the origin the player goes

VARIABLES
    collision,      \* the scene of the loaded BSP
    position,       \* of the camera: EyeHeight above the origin the hull moves
    velocity,       \* signs; the second is that of vertical_velocity
    onGround,
    fly

hullvars == <<collision, position, velocity, onGround, fly>>

Empty == -1
SolidContents == -2
Zero == <<0, 0, 0>>
Up == <<0, 1, 0>>
Signs == [Axes -> {-1, 0, 1}]
Dot(u, v) == u[1] * v[1] + u[2] * v[2] + u[3] * v[3]
Along(p, v, n) == [a \in Axes |-> p[a] + n * v[a]]

-------------------------------------------------------------------------------
(* The scene of a BSP.                                                     *)

NormalOf(t) ==
    LET n == Cross(Minus(t[2], t[1]), Minus(t[3], t[1]))
    IN IF n[2] < 0 THEN Minus(Zero, n) ELSE n
(* FLOOR_NORMAL_MIN is 0.7 of the normal's length.                         *)
IsFloor(t) ==
    LET n == NormalOf(t) IN Whole(t) /\ n[2] >= 0 /\ 100 * n[2] * n[2] >= 49 * Dot(n, n)
Middle(t) == [a \in Axes |-> (t[1][a] + t[2][a] + t[3][a]) \div 3]

(* The bounds are those of every triangle, but a floor has an area.  The   *)
(* planes are turned as the vertices are, the clip nodes are as they are,  *)
(* and the head node is that of the world's second hull.                   *)
Scene(bsp) ==
    LET tris == WorldTriangles(bsp, 1)
    IN IF ~tris.ok THEN Failed
       ELSE Made([ bounds |-> BoundsOf(tris.of),
                   spawn |-> bsp.spawn,
                   floors |-> SelectSeq(tris.of, IsFloor),
                   planes |-> [i \in DOMAIN bsp.planes |->
                                [normal |-> QuakeToWorld(bsp.planes[i].normal, 1),
                                 dist |-> bsp.planes[i].dist]],
                   nodes |-> bsp.clipnodes,
                   head |-> IF bsp.clipnodes = <<>> THEN Empty ELSE bsp.head ])

(* The node and its plane, when both indices are within their arrays.      *)
Sound(h, n) == Within(h.nodes, n) /\ Within(h.planes, At(h.nodes, n).plane)
Distance(h, n, p) ==
    LET plane == At(h.planes, At(h.nodes, n).plane) IN Dot(plane.normal, p) - plane.dist
Child(h, n, side) == At(At(h.nodes, n).children, side)
Facing(h, n, side) ==
    LET normal == At(h.planes, At(h.nodes, n).plane).normal
    IN IF side = 0 THEN normal ELSE Minus(Zero, normal)

RECURSIVE PointContents(_, _, _)
PointContents(h, n, p) ==
    IF n < 0 THEN n
    ELSE IF ~Sound(h, n) THEN SolidContents
    ELSE PointContents(h, Child(h, n, IF Distance(h, n, p) >= 0 THEN 0 ELSE 1), p)
IsSolid(h, p) == PointContents(h, h.head, p) = SolidContents

-------------------------------------------------------------------------------
(* The trace.  m is the move: its start, its direction and its steps.  A   *)
(* result says whether the walk of the tree goes on, where the move is     *)
(* stopped (<<>>: nowhere), by which normal, and the two solid flags.      *)

Free == [go |-> TRUE, hit |-> <<>>, normal |-> Zero, startSolid |-> FALSE, allSolid |-> TRUE]

\* Mutant: the far side is entered without a look at what is there.
UncheckedSide(h, n, p) == FALSE

BlockedBeyond(h, n, p) == PointContents(h, n, p) = SolidContents

(* mid is where Eps before the plane is, side the one the move comes from; *)
(* near is what the walk of that side found.                               *)
RECURSIVE HullCheck(_, _, _, _, _, _), Across(_, _, _, _, _, _, _, _), Beyond(_, _, _, _, _, _, _)
Beyond(h, m, n, side, mid, b, near) ==
    CASE ~near.go -> near
      [] near.go /\ ~BlockedBeyond(h, Child(h, n, 1 - side), Along(m.start, m.dir, mid)) ->
            HullCheck(h, m, Child(h, n, 1 - side), mid, b, near)
      [] OTHER ->
            IF near.allSolid THEN [near EXCEPT !.go = FALSE]
            ELSE [near EXCEPT !.go = FALSE, !.hit = <<mid>>, !.normal = Facing(h, n, side)]
Across(h, m, n, a, b, trace, from, to) ==
    LET side == IF from < 0 THEN 1 ELSE 0
        mid == a + Max({0, Min({b - a, (IF from < 0 THEN -from ELSE from) - Eps})})
    IN IF (from < 0) = (to < 0)
       THEN HullCheck(h, m, Child(h, n, side), a, b, trace)
       ELSE Beyond(h, m, n, side, mid, b, HullCheck(h, m, Child(h, n, side), a, mid, trace))
HullCheck(h, m, n, a, b, trace) ==
    IF n < 0 THEN
        IF n # SolidContents THEN [trace EXCEPT !.go = TRUE, !.allSolid = FALSE]
        ELSE [trace EXCEPT !.go = FALSE, !.startSolid = TRUE]
    ELSE IF ~Sound(h, n) THEN [trace EXCEPT !.go = FALSE]
    ELSE Across(h, m, n, a, b, trace,
               Distance(h, n, Along(m.start, m.dir, a)), Distance(h, n, Along(m.start, m.dir, b)))

(* A trace that begins in solid does not move.                             *)
Stopped(start, dir, steps, r) ==
    LET done == IF r.startSolid THEN 0 ELSE Given(r.hit, steps)
    IN [ done |-> done, full |-> ~r.startSolid /\ r.hit = <<>>, end |-> Along(start, dir, done),
         normal |-> r.normal, startSolid |-> r.startSolid, allSolid |-> r.allSolid ]
Trace(h, start, dir, steps) ==
    Stopped(start, dir, steps, HullCheck(h, [start |-> start, dir |-> dir], h.head, 0, steps, Free))

Lands(t) == ~t.startSolid /\ ~t.full /\ t.normal[2] = 1

-------------------------------------------------------------------------------
(* Moves.                                                                  *)

ClipVelocity(v, n) == Along(v, n, -Dot(v, n))

(* The first of the planes met whose clip of the velocity runs into none   *)
(* of the others.  Each clip clears one axis for good, so that one is      *)
(* always found.                                                           *)
SlideAlong(v, planes) ==
    LET clear(i) == \A j \in DOMAIN planes \ {i} : Dot(ClipVelocity(v, planes[i]), planes[j]) >= 0
    IN ClipVelocity(v, planes[Min({i \in DOMAIN planes : clear(i)})])

(* s: where the slide is, its velocity, the steps left, the planes met.    *)
RECURSIVE Slide(_, _, _), SlideOn(_, _, _, _)
SlideOn(h, s, rounds, trace) ==
    LET planes == Append(s.planes, trace.normal)
    IN CASE trace.allSolid -> [s EXCEPT !.vel = Zero, !.ground = FALSE, !.blocked = TRUE]
         [] trace.full -> [s EXCEPT !.pos = trace.end]
         [] OTHER ->
                Slide(h, [ pos |-> trace.end, vel |-> SlideAlong(s.vel, planes),
                           left |-> s.left - trace.done, planes |-> planes,
                           ground |-> s.ground \/ trace.normal[2] = 1, blocked |-> TRUE ], rounds - 1)
Slide(h, s, rounds) ==
    IF rounds = 0 \/ s.vel = Zero THEN s ELSE SlideOn(h, s, rounds, Trace(h, s.pos, s.vel, s.left))

Settled(v) == [v EXCEPT ![2] = Max({0, v[2]})]
Rested(s) == IF s.ground THEN [s EXCEPT !.vel = Settled(s.vel)] ELSE s
SlideMove(h, start, v, steps) ==
    Rested(Slide(h, [ pos |-> start, vel |-> v, left |-> steps, planes |-> <<>>,
                      ground |-> FALSE, blocked |-> FALSE ], 4))

Clear(t) == ~t.startSolid /\ t.full
HasHeadroom(h, p) == Clear(Trace(h, p, Up, StepHeight))

Horizontal(p, q) == LET d == Minus(q, p) IN d[1] * d[1] + d[3] * d[3]

(* Blocked on the ground, the player tries the move from a step higher and *)
(* takes it when it leads farther and comes down on a floor.               *)
Climb(h, start, low, high, down) ==
    IF /\ HasHeadroom(h, start)
       /\ Horizontal(start, down.end) > Horizontal(start, low.pos)
       /\ Lands(down)
    THEN [low EXCEPT !.pos = down.end, !.vel = Settled(high.vel), !.ground = TRUE]
    ELSE low
StepOver(h, start, low, high) == Climb(h, start, low, high, Trace(h, high.pos, Minus(Zero, Up), StepHeight))
StepUnless(h, start, v, steps, low) ==
    IF low.ground /\ low.blocked
    THEN StepOver(h, start, low, SlideMove(h, Along(start, Up, StepHeight), v, steps)) ELSE low
MoveWithStep(h, start, v, steps) ==
    StepUnless(h, start, v, steps, SlideMove(h, start, v, steps))

(* The places try_unstuck looks at, in its order: below, then around.      *)
Around9 == << <<-1, -1>>, <<-1, 0>>, <<-1, 1>>, <<0, -1>>, <<0, 0>>, <<0, 1>>, <<1, -1>>, <<1, 0>>, <<1, 1>> >>
Candidates(p) ==
    [i \in 1..MaxDown |-> Along(p, Up, -i)]
        \o FlattenSeq([y \in DOMAIN UnstuckDy |-> FlattenSeq([r \in DOMAIN UnstuckRadii |->
            [i \in 1..9 |-> << p[1] + Around9[i][1] * UnstuckRadii[r], p[2] + UnstuckDy[y],
                               p[3] + Around9[i][2] * UnstuckRadii[r] >>]])])
FirstOpen(h, p, places) ==
    LET open == {i \in DOMAIN places : ~IsSolid(h, places[i])}
    IN IF open = {} THEN p ELSE places[Min(open)]
TryUnstuck(h, p) == IF IsSolid(h, p) THEN FirstOpen(h, p, Candidates(p)) ELSE p

-------------------------------------------------------------------------------
(* The camera.                                                             *)

Origin(camera) == Along(camera, Up, -EyeHeight)
CameraFrom(origin) == Along(origin, Up, EyeHeight)

(* The floor triangle nearest the middle of the level, the first of two as *)
(* near; the point on it is taken for the origin.                          *)
MiddleOf(b) == [a \in Axes |-> Centre(b, a) \div 2]
SpawnPoint(s) ==
    LET far(i) == Horizontal(Middle(s.floors[i]), MiddleOf(s.bounds))
    IN CameraFrom(Middle(s.floors[CHOOSE i \in DOMAIN s.floors : \A j \in DOMAIN s.floors :
                                    far(i) < far(j) \/ (far(i) = far(j) /\ i <= j)]))

Dropped(camera, t) ==
    [floor |-> ~t.startSolid /\ ~t.full,
     camera |-> IF ~t.startSolid /\ ~t.full THEN CameraFrom(t.end) ELSE camera]
SnapToFloor(s, camera) == Dropped(camera, Trace(s, Origin(camera), Minus(Zero, Up), MaxDrop))

(* CameraState::from_bounds, the level's extent taken along its longest    *)
(* axis.  A start entity puts the camera over its place and drops it to    *)
(* the floor, though it keeps what it had learned there of the ground.     *)
FromBounds(s) ==
    LET b == s.bounds
        extent == Max({b.max[a] - b.min[a] : a \in Axes})
        high == Along(CameraFrom(MiddleOf(b)), <<0, 0, 1>>, extent \div 4)
    IN IF s.floors # <<>> THEN [floor |-> TRUE, camera |-> SpawnPoint(s)]
       ELSE SnapToFloor(s, high)
Start(s) ==
    IF s.spawn = <<>> THEN FromBounds(s)
    ELSE LET dropped == SnapToFloor(s, CameraFrom(QuakeToWorld(s.spawn[1], 1)))
         IN [dropped EXCEPT !.floor = @ \/ FromBounds(s).floor]

EnterLevel(bsp) ==
    /\ \E s \in {Scene(bsp)} :
        /\ s.ok
        /\ collision' = s.of
        /\ \E start \in {Start(s.of)} : position' = start.camera /\ onGround' = start.floor
    /\ velocity' = Zero
    /\ UNCHANGED fly

(* Friction and acceleration leave the horizontal velocity as it was, stop *)
(* it or turn it to any wish; gravity takes the rise of a jump away.       *)
Pushed(jump) ==
    LET rise == IF onGround /\ jump THEN {1} ELSE IF velocity[2] = 1 THEN {-1, 0, 1} ELSE {-1}
    IN {<<flat[1], y, flat[3]>> : flat \in {Zero, velocity} \cup Wishes, y \in rise}

(* The walk of a frame: free, move, free again, and stand on a floor just  *)
(* below, which also ends a jump that has not risen past it.               *)
Stand(moved, freed, floor) ==
    LET ground == moved.ground \/ Lands(floor)
    IN [ pos |-> IF Lands(floor) THEN floor.end ELSE freed, ground |-> ground,
         vel |-> IF ground THEN Settled(moved.vel) ELSE moved.vel ]
StandOn(moved, freed) == Stand(moved, freed, Trace(collision, freed, Minus(Zero, Up), Probe))
StandFreed(moved) == StandOn(moved, TryUnstuck(collision, moved.pos))
Walked(v, steps) ==
    StandFreed(MoveWithStep(collision, TryUnstuck(collision, Origin(position)), v, steps))

InReach(p) == \A a \in Axes : p[a] \in -Reach[a]..Reach[a]

Walk(jump, steps) ==
    /\ ~fly
    /\ \E w \in {Walked(v, steps) : v \in Pushed(jump)} :
        /\ InReach(w.pos)
        /\ position' = CameraFrom(w.pos) /\ velocity' = w.vel /\ onGround' = w.ground
    /\ UNCHANGED <<collision, fly>>

Fly(direction, steps) ==
    /\ fly
    /\ position' = Along(position, direction, steps)
    /\ InReach(Origin(position'))
    /\ velocity' = Zero /\ onGround' = FALSE
    /\ UNCHANGED <<collision, fly>>

(* KeyF: the camera floats where it is, or drops to the floor below it.    *)
ToggleFly ==
    /\ fly' = ~fly
    /\ IF fly
       THEN \E s \in {SnapToFloor(collision, position)} :
                position' = s.camera /\ onGround' = s.floor
       ELSE UNCHANGED position /\ onGround' = FALSE
    /\ velocity' = Zero
    /\ UNCHANGED collision

HullInit ==
    /\ collision \in {Scene(l).of : l \in {l \in Levels : Scene(l).ok}}
    /\ \E start \in {Start(collision)} : position = start.camera /\ onGround = start.floor
    /\ velocity = Zero /\ fly = FALSE

HullNext ==
    \/ \E l \in Levels : EnterLevel(l)
    \/ \E jump \in BOOLEAN, steps \in Strides : Walk(jump, steps)
    \/ \E d \in Wishes \cup {Up, Minus(Zero, Up)}, steps \in Strides : Fly(d, steps)
    \/ ToggleFly

-------------------------------------------------------------------------------
(* A place that is not within Eps of the outside of what is solid.         *)
Deep(p) == \A u \in Signs, i \in 0..Eps : IsSolid(collision, Along(p, u, i))

(* The ways a player can be carried: along a wish, rising or falling.      *)
Ways == {v \in Signs : <<v[1], 0, v[3]>> \in Wishes \cup {Zero}} \ {Zero}

(* A trace from a place outside solid never goes deeper into solid than    *)
(* Eps, stops outside it, and stops only where something solid is just     *)
(* beyond Eps (recursive_hull_check).                                      *)
TraceSound(p) ==
    \A v \in Ways, n \in Strides : \A t \in {Trace(collision, p, v, n)} :
        /\ ~t.startSolid
        /\ ~IsSolid(collision, t.end)
        /\ \A i \in 1..(t.done - 1) : ~Deep(Along(p, v, i))
        /\ ~t.full => \E u \in Signs, i \in 1..(Eps + 1) : IsSolid(collision, Along(t.end, u, i))

(* No walking frame that begins outside solid, or that is freed from it,   *)
(* ends inside it, or higher than a step or the frame's own rise           *)
(* (CameraState::update).                                                  *)
FramesSafe(start) ==
    \A jump \in BOOLEAN, steps \in Strides : \A v \in Pushed(jump) : \A w \in {Walked(v, steps)} :
        /\ ~IsSolid(collision, w.pos)
        /\ w.pos[2] <= start[2] + (IF v[2] = 1 THEN steps ELSE StepHeight)

(* A player outside solid, or freed from it, is moved only by traces that  *)
(* do not enter it and is never left inside it.                            *)
HullSafe ==
    \A start \in {TryUnstuck(collision, Origin(position))} :
        ~IsSolid(collision, start) => TraceSound(start) /\ (fly \/ FramesSafe(start))
================================================================================
