------------------------------- MODULE MCMapScene -------------------------------
EXTENDS MapScene, HullTrace, PlayerMove

VARIABLE family

S(id, kind, pos, size, turn) ==
    [id |-> <<id>>, kind |-> kind, pos |-> pos, size |-> size, round |-> <<>>,
     slope |-> <<>>, turn |-> turn]
Round(id, pos, r, h) == [S(id, "cylinder", pos, <<>>, 0) EXCEPT !.round = <<r, h>>]
Slope(id, pos, l, w, tan, turn) == [S(id, "ramp", pos, <<>>, turn) EXCEPT !.slope = <<l, w, tan>>]
Map(scale, solids, generators) ==
    [version |-> 1, scale |-> scale, chunking |-> <<>>, solids |-> solids,
     generators |-> generators]
NoChange == [id |-> <<>>, count |-> <<>>, rise |-> <<>>, run |-> <<>>, width |-> <<>>]
StairsOf(count, variants, turn) ==
    [kind |-> "stairs", id |-> <<"st">>, pos |-> <<0, 0, 0>>, turn |-> turn, count |-> count,
     rise |-> 1, run |-> 2, width |-> 4, gap |-> 2, variants |-> variants]
RampsOf(slopes, align) ==
    [kind |-> "ramps", id |-> <<"rp">>, pos |-> <<0, 0, 8>>, turn |-> 1, width |-> 2,
     length |-> 4, slopes |-> slopes, align |-> align, gap |-> 2]
CorridorsOf(margins) ==
    [kind |-> "corridors", id |-> <<"co">>, pos |-> <<4, 0, 0>>, turn |-> 3, length |-> 6,
     height |-> 4, radius |-> 1, margins |-> margins, thick |-> 1, gap |-> 2]

Floor == S("floor", "box", <<0, -1, 0>>, <<20, 2, 20>>, 0)
Crates == <<S("a", "box", <<-6, 1, 0>>, <<2, 2, 2>>, 0), S("b", "box_rot", <<6, 1, 0>>, <<2, 2, 4>>, 1),
            Round("c", <<0, 2, 6>>, 1, 4), Slope("d", <<0, 1, -6>>, 4, 2, 1, 2)>>
Yard == Map(<<>>, <<Floor>> \o Crates, <<>>)
Moved1 == Map(<<1>>, <<Floor, [Crates[1] EXCEPT !.pos = <<6, 1, 6>>], Crates[2],
                       S("e", "cylinder", <<-6, 1, -6>>, <<2, 2, 6>>, 0)>>, <<>>)
Doubles == Map(<<2>>, <<Floor, Crates[3]>>, <<>>)
Gen == Map(<<>>, <<>>, <<StairsOf(2, <<NoChange, [NoChange EXCEPT !.rise = <<2>>, !.id = <<"w">>]>>, 1)>>)
Gen2 == Map(<<>>, <<Floor>>, <<RampsOf(<<1, 2>>, TRUE), CorridorsOf(<<0>>)>>)
Twins == Map(<<>>, <<>>, <<StairsOf(1, <<[NoChange EXCEPT !.id = <<"base">>]>>, 0)>>)
Bad == Map(<<>>, <<S("x", "box", <<0, 0, 0>>, <<>>, 0)>>, <<>>)
NoSolids == Map(<<1>>, <<>>, <<>>)
MCTestMaps == {Yard, Moved1, Doubles, Gen, Gen2, Twins, Bad, NoSolids}

Vs == <<<<0, 0, 0>>, <<48, 0, 0>>, <<48, 48, 0>>, <<0, 48, 0>>, <<0, 0, 24>>, <<48, 0, 24>>, <<24, 0, 0>> >>
Q1(faces, world) ==
    [vertices |-> Vs, edges |-> << <<0, 0>>, <<0, 1>>, <<1, 2>>, <<2, 3>>, <<3, 0>>, <<1, 5>>, <<4, 5>>, <<0, 4>>, <<0, 6>>, <<6, 1>> >>,
     surfedges |-> <<1, 2, 3, 4, 8, 9, 5, -6, -7, 1>>, faces |-> faces, world |-> world]
F(first, count) == [first |-> first, count |-> count]
Q3(faces, meshverts) == [vertices |-> Vs, faces |-> faces, meshverts |-> meshverts]
F3(kind, first, count, mesh) == [kind |-> kind, first |-> first, count |-> count, mesh |-> mesh]
Side(id, k) == [version |-> 1, id |-> id, scale |-> k, marked |-> TRUE]
Args(id, bsp, scale, sidecar) == [id |-> id, bsp |-> bsp, scale |-> scale, sidecar |-> sidecar]
q1 == <<"quake1", "bsp", "e1m1">>
q3 == <<"quakelive", "bsp", "q">>
MCBspArgs ==
    { Args(q1, Q1(<<F(0, 4), F(4, 5), F(0, 2)>>, <<>>), <<1>>, <<>>),
      Args(q1, Q1(<<F(0, 4), F(4, 5), F(0, 4), F(2, 3)>>, <<0, 4>>), <<>>, <<Side(q1, 2)>>),
      Args(q1, Q1(<<F(0, 4), F(8, 5)>>, <<>>), <<1>>, <<>>),
      Args(q1, Q1(<<F(0, 4)>>, <<0, 2>>), <<1>>, <<>>),
      Args(q1, Q1(<<F(0, 4)>>, <<>>), <<>>, <<>>),
      Args(q1, Q1(<<F(0, 4)>>, <<>>), <<1>>, <<Side(q3, 1)>>),
      Args(q3, Q3(<<F3("polygon", 0, 4, <<0, 0>>), F3("mesh", 0, 7, <<0, 6>>), F3("patch", 0, 3, <<0, 0>>)>>,
                  <<0, 1, 5, 4, 5, 6>>), <<1>>, <<>>),
      Args(q3, Q3(<<F3("mesh", 2, 3, <<0, 3>>)>>, <<0, 1, 5>>), <<1>>, <<>>),
      Args(q3, Q3(<<F3("polygon", 0, 4, <<0, 0>>), F3("patch", -1, 2, <<0, 0>>)>>, <<>>), <<1>>, <<>>),
      Args(<<"other", "m">>, Q1(<<F(0, 4)>>, <<>>), <<1>>, <<>>) }
MCQueries == {Box(<<x, y, z>>, <<x + w, y + 30, z + w>>) : x \in {-14, 10}, y \in {-10}, z \in {-50, -2}, w \in {6, 20}}
(* The tools over every map and BSP, and the game over few.                *)
SceneMaps == {Made(m) : m \in {Yard, Moved1, Doubles, NoSolids}} \cup {Failed}
SceneWorlds ==
    {BuildTestMapWorld(m) : m \in {Yard, Moved1, Doubles}}
        \cup {CookBsp(Args(q1, Q1(<<F(0, 4), F(4, 5), F(0, 2)>>, <<>>), <<1>>, <<>>))}

(* The player in a Quake level: a room with a step it can take and a ledge *)
(* it cannot, over solid ground; and a slab with nothing but water and the *)
(* void below it.                                                          *)
X == <<1, 0, 0>>
Z == <<0, 0, 1>>
Pl(n, d) == [normal |-> n, dist |-> d]
Nd(p, front, back) == [plane |-> p, children |-> <<front, back>>]
Level(planes, nodes, spawn) ==
    [ vertices |-> << <<-9, 0, 0>>, <<0, 0, 0>>, <<0, 3, 0>>, <<-9, 3, 0>>, <<3, 0, 3>>, <<9, 0, 3>>, <<9, 3, 3>> >>,
      edges |-> << <<0, 0>>, <<0, 1>>, <<1, 2>>, <<2, 3>>, <<3, 0>>, <<4, 5>>, <<5, 6>>, <<6, 4>> >>,
      surfedges |-> <<1, 2, 3, 4, 5, 6, 7, 1, -1, 1>>, faces |-> <<F(0, 4), F(4, 3), F(7, 3)>>, world |-> <<>>,
      planes |-> planes, clipnodes |-> nodes, head |-> 0, spawn |-> spawn ]
Room == Level(<<Pl(Z, 0), Pl(Z, 8), Pl(X, -5), Pl(X, 6), Pl(X, 3), Pl(Z, 2), Pl(X, -3), Pl(Z, 6)>>,
              << Nd(0, 1, -2), Nd(1, -2, 2), Nd(2, 3, -2), Nd(3, -2, 4),
                 Nd(4, 5, 6), Nd(5, -1, -2), Nd(6, -1, 7), Nd(7, -1, -2) >>, << <<5, 0, 4>> >>)
Slab == Level(<<Pl(Z, 4), Pl(Z, -2), Pl(X, 2), Pl(Z, -6)>>,
              << Nd(0, 2, 1), Nd(1, -2, 3), Nd(2, -1, -3), Nd(3, -1, -2) >>, <<>>)
MCLevels == {Room, Slab, [Slab EXCEPT !.faces[1].first = 8]}
MCUnstuckDy == <<0, -2, 1, 2>>
MCUnstuckRadii == <<1, 3>>
MCWishes == {X, Minus(Zero, X)}
MCReach == <<7, 7, 1>>
NoLevel == Scene(Level(<<>>, <<>>, <<>>)).of

MapIdle == MapInit /\ mapFile.of = NoSolids
HullIdle == collision = NoLevel /\ position = Zero /\ velocity = Zero /\ onGround = FALSE /\ fly = TRUE
MoveIdle == MoveInit /\ floor = 0
MCInit ==
    \/ family = "cook" /\ MapInit /\ HullIdle /\ MoveIdle
    \/ family = "scene" /\ MapInit /\ mapFile.of \in {Yard, Doubles} /\ HullIdle /\ MoveIdle
    \/ family = "hull" /\ MapIdle /\ HullInit /\ MoveIdle
    \/ family = "walk" /\ MapIdle /\ HullIdle /\ MoveInit
MapPart ==
    /\ family \in {"cook", "scene"}
    /\ UNCHANGED <<family, hullvars, movevars>>
    /\ MapNext
    /\ family = "cook" => assets' = assets /\ ~printed'.of.ok
    /\ family = "scene" =>
        /\ mapFile' \in SceneMaps
        /\ worldFile' \in {worldFile, Failed} \cup SceneWorlds
HullPart == family = "hull" /\ UNCHANGED <<family, mapvars, movevars>> /\ HullNext
MovePart == family = "walk" /\ UNCHANGED <<family, mapvars, hullvars>> /\ MoveNext
MCNext == MapPart \/ HullPart \/ MovePart
MCSpec == MCInit /\ [][MCNext]_<<mapvars, hullvars, movevars, family>>

(* In the family that walks a level, no trace or frame takes a player that *)
(* is outside solid into it (CameraState::update).                         *)
HullSound == family = "hull" => HullSafe
================================================================================
