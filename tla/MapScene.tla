-------------------------------- MODULE MapScene --------------------------------
(***************************************************************************)
(* A test map from its file to the running game: the author edits the map  *)
(* and cooks its collision world (tools test-map, collision-world), the    *)
(* asset manager keeps what it once loaded of both files, and the game     *)
(* makes a scene of the two assets: a mesh of the map's solids, and the    *)
(* colliders of those the collision world lists.                           *)
(***************************************************************************)
EXTENDS MapCook

CONSTANTS
    TestMaps,     \* what the author may make of the map file
    BspArgs,      \* command lines of cook-bsp with the files they name
    Queries,      \* boxes the game may ask a collision world about
    MaxEdits      \* bound: edits of the files

VARIABLES
    mapFile,      \* content/test_maps/<name>.toml, Failed if it does not parse
    worldFile,    \* the collision world beside it, Failed likewise
    origin,       \* history: what worldFile was last cooked from, if untouched
    assets,       \* [map, world -> the asset manager's slot]
    scene,        \* the mesh and the runtime of the game
    printed,      \* by the step just done, if it was a tool or a dump
    edits

mapvars == <<mapFile, worldFile, origin, assets, scene, printed, edits>>

NoOrigin == [of |-> "nothing", map |-> Failed, args |-> <<>>]
Absent == [is |-> "absent", of |-> Failed]
NoScene == [mesh |-> {}, active |-> FALSE, runtime |-> FALSE, world |-> Failed,
            loaded |-> <<>>, colliders |-> {}, torn |-> FALSE]
Nothing == [of |-> Failed, success |-> TRUE, at |-> <<>>, chunks |-> <<>>]
Exit(success) == [Nothing EXCEPT !.success = success]

MapInit ==
    /\ mapFile \in {Made(m) : m \in TestMaps}
    /\ worldFile = Failed
    /\ origin = NoOrigin
    /\ assets = [map |-> Absent, world |-> Absent]
    /\ scene = NoScene
    /\ printed = Nothing
    /\ edits = 0

(***************************************************************************)
(* The author's side: edits and tools.  A tool that fails writes nothing.  *)
(***************************************************************************)
EditMap ==
    /\ edits < MaxEdits
    /\ mapFile' \in {Made(m) : m \in TestMaps} \cup {Failed}
    /\ edits' = edits + 1
    /\ printed' = Nothing
    /\ UNCHANGED <<worldFile, origin, assets, scene>>

TestMapValidate ==
    /\ printed' = Exit(mapFile.ok /\ ExpandedSolids(mapFile.of).ok)
    /\ UNCHANGED <<mapFile, worldFile, origin, assets, scene, edits>>

Written(made, from) ==
    /\ printed' = Exit(made.ok)
    /\ worldFile' = IF made.ok THEN made ELSE worldFile
    /\ origin' = IF made.ok THEN from ELSE origin
    /\ UNCHANGED <<mapFile, assets, scene, edits>>
Cook ==
    Written(IF mapFile.ok THEN BuildTestMapWorld(mapFile.of) ELSE Failed,
            [NoOrigin EXCEPT !.of = "map", !.map = mapFile])
CookBspTool(args) ==
    Written(CookBsp(args), [NoOrigin EXCEPT !.of = "bsp", !.args = <<args>>])

WorldValidate ==
    /\ printed' = Exit(worldFile.ok /\ Validate(worldFile.of))
    /\ UNCHANGED <<mapFile, worldFile, origin, assets, scene, edits>>

(* One change made to a cooked world by hand.  A child that is no child of *)
(* an earlier node is left out: the query of the game would not end.       *)
Tampered(w) ==
    LET nodes == DOMAIN w.bvh.nodes
        ChangedNode(n, node) == [w EXCEPT !.bvh.nodes[n] = node]
        leaf(n) == w.bvh.nodes[n].leaf
    IN {[w EXCEPT !.bvh.root = r] : r \in nodes \cup {Len(w.bvh.nodes) + 1}}
       \cup {[w EXCEPT !.bvh.leaves = Front(w.bvh.leaves)],
             [w EXCEPT !.bvh.leaves = Append(Front(@), 1)],
             [w EXCEPT !.chunks = Front(w.chunks)],
             [w EXCEPT !.chunks[1].payload = <<>>],
             [w EXCEPT !.root = w.chunks[1].box]}
       \cup {ChangedNode(n, [w.bvh.nodes[n] EXCEPT !.bounds = w.root]) : n \in nodes}
       \cup {ChangedNode(n, [w.bvh.nodes[n] EXCEPT !.bounds = w.chunks[1].box]) : n \in nodes}
       \cup {ChangedNode(n, Leaf(w.bvh.nodes[n].bounds, leaf(n)[1], leaf(n)[2] + 1)) :
                n \in {m \in nodes : leaf(m) # <<>>}}
       \cup {ChangedNode(n, Inner(w.bvh.nodes[n].bounds, c, w.bvh.nodes[n].right[1])) :
                <<n, c>> \in {p \in nodes \X nodes : leaf(p[1]) = <<>> /\ p[2] < p[1]}}
TamperWorld ==
    /\ edits < MaxEdits
    /\ worldFile.ok /\ worldFile.of.chunks # <<>>
    /\ worldFile' \in {Made(w) : w \in Tampered(worldFile.of)} \cup {Failed}
    /\ worldFile' # worldFile
    /\ origin' = NoOrigin
    /\ edits' = edits + 1
    /\ printed' = Nothing
    /\ UNCHANGED <<mapFile, assets, scene>>

(***************************************************************************)
(* The assets: a map that does not expand is no map, a collision world is  *)
(* only parsed.  A slot that failed stays failed until it is reloaded or   *)
(* purged; a reload that fails keeps the value there was.                  *)
(***************************************************************************)
FileOf(which) == IF which = "map" THEN mapFile ELSE worldFile
Decoded(which) ==
    IF which = "map" /\ mapFile.ok /\ ~ExpandedSolids(mapFile.of).ok THEN Failed
    ELSE FileOf(which)
Loaded(which) ==
    [is |-> IF Decoded(which).ok THEN "ready" ELSE "failed", of |-> Decoded(which)]
Fetch(slots, which) ==
    IF slots[which].is = "absent" THEN [slots EXCEPT ![which] = Loaded(which)] ELSE slots

DevAssetReload(which) ==
    /\ assets' = [assets EXCEPT ![which] =
                    IF @.is = "ready" /\ ~Decoded(which).ok THEN @ ELSE Loaded(which)]
    /\ printed' = Nothing
    /\ UNCHANGED <<mapFile, worldFile, origin, scene, edits>>
DevAssetPurge(which) ==
    /\ assets[which] # Absent
    /\ assets' = [assets EXCEPT ![which] = Absent]
    /\ printed' = Nothing
    /\ UNCHANGED <<mapFile, worldFile, origin, scene, edits>>

(***************************************************************************)
(* The scene.  What is drawn comes of the map, and so do the colliders;    *)
(* the collision world says which of them there are.                       *)
(***************************************************************************)
Drawn(s) ==
    LET r == Max({s.size[1], s.size[3]})
    IN [id |-> s.id,
        box |-> IF s.kind = "cylinder" THEN Around(s.at, <<r, s.size[2], r>>)
                ELSE Around(s.at, Turned(s.size, s.turn))]
BuildMesh(map) == {Drawn(ScaleSolid(s, ScaleOf(map))) : s \in ToSet(ExpandedSolids(map).of)}

LoadedChunks(world) ==
    SelectIntersecting(world, world.root)
CollidersOf(map, world, selected) ==
    LET listed == {world.chunks[selected[i]] : i \in DOMAIN selected}
        named(c) == IF c.payload = <<>> THEN c.id ELSE c.payload
    IN {k \in BuildColliders(map) : \E c \in listed : named(c) = k.id}

(* What the loading of a scene may end with.  The scales must agree, and   *)
(* there must be something to draw, before anything is changed.  The mesh  *)
(* is replaced before the runtime is made, and stays if that fails.        *)
Mismatch(map, world) == ScaleOf(map) # world.scale
Entered(map, world) ==
    LET selected == LoadedChunks(world)
        colliders == CollidersOf(map, world, selected)
    IN IF BuildMesh(map) = {} \/ Mismatch(map, world) THEN scene
       ELSE IF colliders = {}
       THEN [scene EXCEPT !.mesh = BuildMesh(map), !.torn = TRUE]
       ELSE [mesh |-> BuildMesh(map), active |-> TRUE, runtime |-> TRUE, world |-> Made(world),
             loaded |-> selected, colliders |-> colliders, torn |-> FALSE]

(* At start, by the menu or by dev_test_map_reload: whichever it is, both  *)
(* assets are asked for as they are kept.  The collision world is not      *)
(* asked for if the map failed or draws nothing; a wait may run out.       *)
EnterMapScene ==
    LET withMap == Fetch(assets, "map")
        map == withMap.map.of
        goesOn == withMap.map.is = "ready" /\ BuildMesh(map.of) # {}
        both == IF goesOn THEN Fetch(withMap, "world") ELSE withMap
    IN /\ assets' = both
       /\ \/ scene' = IF goesOn /\ both.world.is = "ready"
                      THEN Entered(map.of, both.world.of.of) ELSE scene
          \/ assets # both /\ scene' = scene
       /\ printed' = Nothing
       /\ UNCHANGED <<mapFile, worldFile, origin, edits>>

(* dev_collision_dump_near_player: the chunks about the player.            *)
DumpNearPlayer(q) ==
    /\ scene.runtime
    /\ printed' = [Nothing EXCEPT !.of = scene.world, !.at = <<q>>,
                   !.chunks = SelectIntersecting(scene.world.of, q)]
    /\ UNCHANGED <<mapFile, worldFile, origin, assets, scene, edits>>

MapNext ==
    \/ EditMap \/ TestMapValidate \/ Cook \/ WorldValidate \/ TamperWorld
    \/ \E args \in BspArgs : CookBspTool(args)
    \/ \E which \in {"map", "world"} : DevAssetReload(which) \/ DevAssetPurge(which)
    \/ EnterMapScene
    \/ \E q \in Queries : DumpNearPlayer(q)

(***************************************************************************)
(* Properties.                                                             *)
(***************************************************************************)
(* Whether each node but the root is the child of just one, which          *)
(* validation does not look at.                                            *)
Children(bvh, n) == ToSet(bvh.nodes[n].left) \cup ToSet(bvh.nodes[n].right)
IsTree(bvh) ==
    LET nodes == DOMAIN bvh.nodes
        parents(n) == {m \in nodes : n \in Children(bvh, m)}
    IN /\ parents(bvh.root) = {}
       /\ \A n \in nodes \ {bvh.root} :
            /\ Cardinality(parents(n)) = 1
            /\ \A m \in parents(n) : bvh.nodes[m].left # bvh.nodes[m].right
SelectionExact(world, q) ==
    LET found == SelectIntersecting(world, q)
    IN /\ IsInjective(found)
       /\ ToSet(found) = {i \in DOMAIN world.chunks : Meet(world.chunks[i].box, q)}

Uneven(s) == s.kind = "cylinder" /\ s.size[1] # s.size[3]
(* What cook writes of a map has a chunk for each solid, which holds its   *)
(* collider unless that is the round one of an uneven cylinder.            *)
MapCooked(map, world) ==
    LET solids == ToSet(ExpandedSolids(map).of)
    IN /\ {c.id : c \in ToSet(world.chunks)} = {s.id : s \in solids}
       /\ \A s \in {t \in solids : ~Uneven(t)} :
            \E c \in ToSet(world.chunks) :
                /\ c.id = s.id
                /\ Holds(c.box, Collider(ScaleSolid(s, ScaleOf(map))))
(* What cook-bsp writes counts each triangle once, within its chunk.       *)
BspCooked(args, world) ==
    LET scale == world.scale
        tris == IF Head(args.id) = "quake1" THEN TrianglesFromQuake1(args.bsp, scale).of
                ELSE TrianglesFromQuake3(args.bsp, scale).of
    IN /\ FoldSeq(LAMBDA c, n : c.count + n, 0, world.chunks) = Len(tris)
       /\ \A i \in DOMAIN tris :
            \E c \in ToSet(world.chunks) : Holds(c.box, TriangleBounds(tris[i]))

(* A world just cooked passes the validation of the tool, and its chunks   *)
(* are what it was cooked from.  A world that passes it, cooked or changed *)
(* by hand, answers each query of the game with just the chunks the box    *)
(* meets, each once, provided its nodes are a tree (collision_world        *)
(* lib.rs 72 and 155, map_cook lib.rs 31, bsp_cook.rs 21, quadtree.rs 38). *)
CookSound ==
    worldFile.ok =>
        LET world == worldFile.of
        IN /\ origin.of # "nothing" => Validate(world) /\ IsTree(world.bvh)
           /\ origin.of = "map" => MapCooked(origin.map.of, world)
           /\ origin.of = "bsp" => BspCooked(origin.args[1], world)
           /\ Validate(world) /\ IsTree(world.bvh) =>
                \A q \in Queries : SelectionExact(world, q)

(* Unless the last attempt to enter the map failed half way, a solid that  *)
(* is drawn and that the collision world lists has a collider just where   *)
(* it is drawn, and nothing else has, whatever was edited, cooked, loaded  *)
(* again or purged in between; and a dump near the player lists the chunks *)
(* around (pallet main.rs 626, 10331, 10674, 8649).                        *)
SceneSolid ==
    /\ scene.runtime /\ ~scene.torn =>
        LET world == scene.world.of
            listed == {c.id : c \in ToSet(world.chunks)}
        IN /\ scene.colliders \subseteq scene.mesh
           /\ Validate(world) /\ IsTree(world.bvh) =>
                \A d \in scene.mesh : d.id \in listed => d \in scene.colliders
    /\ printed.at # <<>> =>
        LET world == printed.of.of
        IN Validate(world) /\ IsTree(world.bvh) =>
            ToSet(printed.chunks) =
                {i \in DOMAIN world.chunks : Meet(world.chunks[i].box, printed.at[1])}
================================================================================
