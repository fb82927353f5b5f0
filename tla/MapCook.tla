-------------------------------- MODULE MapCook --------------------------------
(***************************************************************************)
(* How QuakePallets turns a test map or a BSP into a collision world: the  *)
(* solids a test map expands to, the triangles of a BSP's faces and their  *)
(* quadtree, the chunks with their bounding-volume hierarchy, what the     *)
(* validation of such a world looks at, and the query of the game.         *)
(*                                                                         *)
(* Coordinates are integers.  A solid's centre and bounds are kept in half *)
(* units, angles are quarter turns about y, and a ramp's angle is its      *)
(* tangent.  An id is the sequence of its parts.  What may be left out of  *)
(* a file is a sequence of at most one value.                              *)
(***************************************************************************)
EXTENDS Integers, Sequences, FiniteSets, SequencesExt, FiniteSetsExt

CONSTANTS
    MaxLeaf,        \* chunks in a leaf of the hierarchy
    MaxTris,        \* triangles a quadtree leaf may have
    MinSize,        \* the side a quadtree leaf keeps
    MaxDepth        \* of the quadtree

Axes == 1..3
Failed == [ok |-> FALSE, of |-> <<>>]
Made(x) == [ok |-> TRUE, of |-> x]
Given(opt, default) == IF opt = <<>> THEN default ELSE Head(opt)

(***************************************************************************)
(* Boxes.                                                                  *)
(***************************************************************************)
Box(lo, hi) == [min |-> lo, max |-> hi]
UnionOf(boxes) ==
    Box([a \in Axes |-> Min({b.min[a] : b \in boxes})],
        [a \in Axes |-> Max({b.max[a] : b \in boxes})])
Holds(b, c) == \A a \in Axes : b.min[a] <= c.min[a] /\ c.max[a] <= b.max[a]
Meet(b, c) == \A a \in Axes : b.min[a] <= c.max[a] /\ c.min[a] <= b.max[a]
ValidBox(b) == \A a \in Axes : b.min[a] <= b.max[a]
(* Twice the coordinate of the centre, in the order of the centre.         *)
Centre(b, a) == b.min[a] + b.max[a]

LongestAxis(b) ==
    LET extent(a) == b.max[a] - b.min[a]
    IN CHOOSE a \in Axes :
        /\ \A c \in Axes : extent(c) <= extent(a)
        /\ \A c \in 1..(a - 1) : extent(c) < extent(a)

(***************************************************************************)
(* Test maps: solids given one by one, and by three generators.            *)
(***************************************************************************)
EffectiveSize(s) ==
    IF s.size # <<>> THEN s.size
    ELSE IF s.kind = "cylinder" /\ s.round # <<>>
         THEN <<2 * s.round[1], s.round[2], 2 * s.round[1]>>
    ELSE IF s.kind = "ramp" /\ s.slope # <<>>
         THEN <<s.slope[1], s.slope[3] * s.slope[1], s.slope[2]>>
    ELSE <<>>

SolidOk(s) ==
    /\ s.id # <<>>
    /\ EffectiveSize(s) # <<>>
    /\ \A a \in Axes : EffectiveSize(s)[a] > 0
    /\ s.kind = "ramp" /\ s.slope # <<>> => s.slope[3] > 0

GeneratorOk(g) ==
    /\ g.id # <<>>
    /\ g.kind = "stairs" =>
        g.count > 0 /\ g.rise > 0 /\ g.run > 0 /\ g.width > 0 /\ g.gap >= 0
    /\ g.kind = "ramps" =>
        /\ g.width > 0 /\ g.length > 0
        /\ g.slopes # <<>>
        /\ \A i \in DOMAIN g.slopes : g.slopes[i] > 0
    /\ g.kind = "corridors" =>
        /\ g.length > 0 /\ g.height > 0 /\ g.radius > 0
        /\ g.margins # <<>>
        /\ \A i \in DOMAIN g.margins : g.margins[i] >= 0

MapOk(map) ==
    /\ map.version = 1
    /\ map.scale # <<>> => Head(map.scale) > 0
    /\ map.chunking # <<>> => map.chunking[1] > 0 /\ map.chunking[2] >= 0
    /\ \A i \in DOMAIN map.solids : SolidOk(map.solids[i])
    /\ \A i \in DOMAIN map.generators : GeneratorOk(map.generators[i])

RotateY(v, turn) ==
    CASE turn = 0 -> v
      [] turn = 1 -> <<v[3], v[2], -v[1]>>
      [] turn = 2 -> <<-v[1], v[2], -v[3]>>
      [] turn = 3 -> <<-v[3], v[2], v[1]>>

Moved(v, w) == [a \in Axes |-> v[a] + w[a]]
Doubled(v) == [a \in Axes |-> 2 * v[a]]
Solid(id, kind, at, size, turn) ==
    [id |-> id, kind |-> kind, at |-> at, size |-> size, turn |-> turn]
Resolved(s) == Solid(s.id, s.kind, Doubled(s.pos), EffectiveSize(s), s.turn)

Steps(g, at, label, count, rise, run, width) ==
    [i \in 1..count |->
        Solid(g.id \o <<label, "step" \o ToString(i)>>, "box",
              Moved(at, RotateY(<<run * (2 * i - 1), rise * (2 * i - 1), 0>>, g.turn)),
              <<run, rise, width>>, g.turn)]
StairsVariant(g, i) ==
    LET v == g.variants[i]
        off == RotateY(<<0, 0, 2 * (g.width + g.gap) * i>>, g.turn)
    IN Steps(g, Moved(Doubled(g.pos), off), Given(v.id, "variant" \o ToString(i)),
             Given(v.count, g.count), Given(v.rise, g.rise), Given(v.run, g.run),
             Given(v.width, g.width))
Stairs(g) ==
    Steps(g, Doubled(g.pos), "base", g.count, g.rise, g.run, g.width)
        \o FlattenSeq([i \in DOMAIN g.variants |-> StairsVariant(g, i)])

Ramps(g) ==
    [i \in DOMAIN g.slopes |->
        LET height == g.slopes[i] * g.length
            along == RotateY(<<2 * (g.length + g.gap) * (i - 1), 0, 0>>, g.turn)
            up == <<0, IF g.align THEN height ELSE 0, 0>>
        IN Solid(g.id \o <<"ramp" \o ToString(i)>>, "ramp",
                 Moved(Moved(Doubled(g.pos), along), up),
                 <<g.length, height, g.width>>, g.turn)]

Corridor(g, i) ==
    LET width == 2 * g.radius + 2 * g.margins[i]
        id == g.id \o <<"corridor" \o ToString(i)>>
        centre == Moved(Doubled(g.pos),
                        RotateY(<<2 * (g.length + g.gap) * (i - 1), 0, 0>>, g.turn))
        plate == <<g.length, g.thick, width + 2 * g.thick>>
        wall == <<g.length, g.height, g.thick>>
        beside(z) == Moved(centre, RotateY(<<0, g.height, z>>, g.turn))
        side == width + g.thick
    IN << Solid(id \o <<"floor">>, "box", centre, plate, g.turn),
          Solid(id \o <<"ceiling">>, "box",
                Moved(centre, <<0, 2 * g.height + g.thick, 0>>), plate, g.turn),
          Solid(id \o <<"wall_left">>, "box", beside(-side), wall, g.turn),
          Solid(id \o <<"wall_right">>, "box", beside(side), wall, g.turn) >>
Corridors(g) == FlattenSeq([i \in DOMAIN g.margins |-> Corridor(g, i)])

Generated(g) ==
    CASE g.kind = "stairs" -> Stairs(g)
      [] g.kind = "ramps" -> Ramps(g)
      [] g.kind = "corridors" -> Corridors(g)

ExpandedSolids(map) ==
    LET solids == [i \in DOMAIN map.solids |-> Resolved(map.solids[i])]
                    \o FlattenSeq([i \in DOMAIN map.generators |->
                                    Generated(map.generators[i])])
    IN IF MapOk(map) /\ Cardinality({solids[i].id : i \in DOMAIN solids}) = Len(solids)
       THEN Made(solids) ELSE Failed

(***************************************************************************)
(* The chunks of a test map: one of each solid, the bounds of its turned   *)
(* box.  Its collider is made apart: that of a cylinder is round.          *)
(***************************************************************************)
ScaleOf(map) == Given(map.scale, 1)
Turned(size, turn) == IF turn \in {1, 3} THEN <<size[3], size[2], size[1]>> ELSE size
Around(at, half) ==
    Box([a \in Axes |-> Min({at[a] - half[a], at[a] + half[a]})],
        [a \in Axes |-> Max({at[a] - half[a], at[a] + half[a]})])
ScaleSolid(s, k) ==
    [s EXCEPT !.at = [a \in Axes |-> k * @[a]], !.size = [a \in Axes |-> k * @[a]]]
SolidBounds(s) == Around(s.at, Turned(s.size, s.turn))
Collider(s) ==
    LET r == Max({s.size[1], s.size[3]})
    IN IF s.kind = "cylinder" THEN Around(s.at, <<r, s.size[2], r>>) ELSE SolidBounds(s)
TriangleCount(s) ==
    CASE s.kind = "ramp" -> 8 [] s.kind = "cylinder" -> 64 [] OTHER -> 12

(* Mutant: the colliders keep the units of the map.                        *)
UnscaledColliders(map) ==
    LET solids == ExpandedSolids(map)
    IN IF ~solids.ok THEN {} ELSE {[id |-> s.id, box |-> Collider(s)] : s \in ToSet(solids.of)}

BuildColliders(map) ==
    LET solids == ExpandedSolids(map)
    IN IF ~solids.ok THEN {}
       ELSE {[id |-> s.id, box |-> Collider(ScaleSolid(s, ScaleOf(map)))] : s \in ToSet(solids.of)}
Chunk(s) == [id |-> s.id, box |-> SolidBounds(s), payload |-> s.id, count |-> TriangleCount(s)]

(***************************************************************************)
(* The hierarchy of the chunks' bounds: the longest axis is split at the   *)
(* median, children come before their parent, the root last.               *)
(***************************************************************************)
Leaf(b, first, count) ==
    [bounds |-> b, left |-> <<>>, right |-> <<>>, leaf |-> <<first, count>>]
Inner(b, l, r) == [bounds |-> b, left |-> <<l>>, right |-> <<r>>, leaf |-> <<>>]

RECURSIVE BuildNode(_, _, _)
BuildNode(chunks, indices, acc) ==
    LET b == UnionOf({chunks[i].box : i \in ToSet(indices)})
        ax == LongestAxis(b)
        before(i, j) == \/ Centre(chunks[i].box, ax) < Centre(chunks[j].box, ax)
                        \/ Centre(chunks[i].box, ax) = Centre(chunks[j].box, ax) /\ i < j
        sorted == SortSeq(indices, before)
        mid == Len(sorted) \div 2
        left == BuildNode(chunks, SubSeq(sorted, 1, mid), acc)
        right == BuildNode(chunks, SubSeq(sorted, mid + 1, Len(sorted)), left)
    IN IF Len(indices) <= MaxLeaf
       THEN [nodes |-> Append(acc.nodes, Leaf(b, Len(acc.leaves), Len(indices))),
             leaves |-> acc.leaves \o indices]
       ELSE [nodes |-> Append(right.nodes, Inner(b, Len(left.nodes), Len(right.nodes))),
             leaves |-> right.leaves]

BuildBvh(chunks) ==
    LET all == BuildNode(chunks, [i \in DOMAIN chunks |-> i], [nodes |-> <<>>, leaves |-> <<>>])
    IN [root |-> Len(all.nodes), nodes |-> all.nodes, leaves |-> all.leaves]

World(chunks, scale, root) ==
    [root |-> root, scale |-> scale, chunks |-> chunks, bvh |-> BuildBvh(chunks)]

BuildTestMapWorld(map) ==
    LET solids == ExpandedSolids(map)
        chunks == [i \in DOMAIN solids.of |-> Chunk(ScaleSolid(solids.of[i], ScaleOf(map)))]
    IN IF ~solids.ok \/ solids.of = <<>> THEN Failed
       ELSE Made(World(chunks, ScaleOf(map), UnionOf({c.box : c \in ToSet(chunks)})))

(* The chunks a box meets, found by descending from the root; the right    *)
(* child is taken off the stack first.                                     *)
RECURSIVE Visit(_, _, _)
Visit(world, n, q) ==
    LET bvh == world.bvh
        node == bvh.nodes[n]
        hits(i) == i \in DOMAIN world.chunks /\ Meet(world.chunks[i].box, q)
    IN IF n \notin DOMAIN bvh.nodes \/ ~Meet(node.bounds, q) THEN <<>>
       ELSE IF node.leaf # <<>>
            THEN IF node.leaf[1] + node.leaf[2] > Len(bvh.leaves) THEN <<>>
                 ELSE SelectSeq(SubSeq(bvh.leaves, node.leaf[1] + 1,
                                       node.leaf[1] + node.leaf[2]), hits)
       ELSE (IF node.right = <<>> THEN <<>> ELSE Visit(world, node.right[1], q))
            \o (IF node.left = <<>> THEN <<>> ELSE Visit(world, node.left[1], q))
SelectIntersecting(world, q) == Visit(world, world.bvh.root, q)

(***************************************************************************)
(* Validation, as the tool has it: each node for itself, each chunk in     *)
(* just one leaf.                                                          *)
(***************************************************************************)
LeafIndices(bvh, node) == SubSeq(bvh.leaves, node.leaf[1] + 1, node.leaf[1] + node.leaf[2])
NodeOk(world, node) ==
    LET bvh == world.bvh
        inRange == node.leaf[1] + node.leaf[2] <= Len(bvh.leaves)
        indices == ToSet(LeafIndices(bvh, node))
    IN /\ ValidBox(node.bounds)
       /\ IF node.leaf = <<>>
          THEN /\ node.left # <<>> /\ node.right # <<>>
               /\ node.left[1] \in DOMAIN bvh.nodes /\ node.right[1] \in DOMAIN bvh.nodes
               /\ Holds(node.bounds, bvh.nodes[node.left[1]].bounds)
               /\ Holds(node.bounds, bvh.nodes[node.right[1]].bounds)
          ELSE /\ node.left = <<>> /\ node.right = <<>> /\ inRange
               /\ indices \subseteq DOMAIN world.chunks
               /\ \A i \in indices : Holds(node.bounds, world.chunks[i].box)

(* Mutant: a chunk that is already covered is not reported.                *)
EachChunkSomewhere(world) ==
    \A i \in DOMAIN world.chunks :
        \E n \in DOMAIN world.bvh.nodes :
            /\ world.bvh.nodes[n].leaf # <<>>
            /\ i \in ToSet(LeafIndices(world.bvh, world.bvh.nodes[n]))

EachChunkOnce(world) ==
    LET bvh == world.bvh
        ranges == {n \in DOMAIN bvh.nodes : bvh.nodes[n].leaf # <<>>}
        places == {<<n, p>> \in ranges \X (1..Len(bvh.leaves)) :
                    /\ p > bvh.nodes[n].leaf[1]
                    /\ p <= bvh.nodes[n].leaf[1] + bvh.nodes[n].leaf[2]}
    IN \A i \in DOMAIN world.chunks : Cardinality({p \in places : bvh.leaves[p[2]] = i}) = 1

Validate(world) ==
    /\ world.scale > 0
    /\ ValidBox(world.root)
    /\ \A i \in DOMAIN world.chunks :
        /\ world.chunks[i].id # <<>> /\ world.chunks[i].payload # <<>>
        /\ ValidBox(world.chunks[i].box)
        /\ Holds(world.root, world.chunks[i].box)
    /\ world.bvh.nodes # <<>>
    /\ world.bvh.root \in DOMAIN world.bvh.nodes
    /\ \A n \in DOMAIN world.bvh.nodes : NodeOk(world, world.bvh.nodes[n])
    /\ EachChunkOnce(world)

(***************************************************************************)
(* The triangles of a BSP.  Indices into a BSP's arrays start at 0.        *)
(***************************************************************************)
At(array, i) == array[i + 1]
Within(array, i) == i >= 0 /\ i < Len(array)
QuakeToWorld(v, k) == <<k * v[1], k * v[3], -(k * v[2])>>
Cross(u, v) ==
    <<u[2] * v[3] - u[3] * v[2], u[3] * v[1] - u[1] * v[3], u[1] * v[2] - u[2] * v[1]>>
Minus(u, v) == [a \in Axes |-> u[a] - v[a]]
IsDegenerate(t) == Cross(Minus(t[2], t[1]), Minus(t[3], t[1])) = <<0, 0, 0>>
Whole(t) == ~IsDegenerate(t)

Fan(polygon, k) ==
    [i \in 1..(Len(polygon) - 2) |->
        << QuakeToWorld(polygon[1], k), QuakeToWorld(polygon[i + 1], k),
           QuakeToWorld(polygon[i + 2], k) >>]
SomeOf(sound, tris) == IF sound /\ tris # <<>> THEN Made(tris) ELSE Failed

(* The end a surface edge names: the first of its edge, the second of one  *)
(* that is walked backwards.                                               *)
EdgeOf(e) == IF e < 0 THEN -e ELSE e
CornerOf(bsp, e) == At(At(bsp.edges, EdgeOf(e)), IF e < 0 THEN 1 ELSE 0)
FaceSound1(bsp, f) ==
    /\ f.first >= 0 /\ f.first + f.count <= Len(bsp.surfedges)
    /\ \A i \in f.first..(f.first + f.count - 1) :
        LET e == At(bsp.surfedges, i)
        IN Within(bsp.edges, EdgeOf(e)) /\ Within(bsp.vertices, CornerOf(bsp, e))
FaceTriangles1(bsp, f, k) ==
    Fan([i \in 1..f.count |->
            At(bsp.vertices, CornerOf(bsp, At(bsp.surfedges, f.first + i - 1)))], k)

WorldFaces(bsp) ==
    IF bsp.world = <<>> THEN [i \in DOMAIN bsp.faces |-> i - 1]
    ELSE [i \in 1..bsp.world[2] |-> bsp.world[1] + i - 1]
(* All the triangles of the world's faces, those without an area too.      *)
WorldTriangles(bsp, k) ==
    LET faces == SelectSeq(WorldFaces(bsp),
                           LAMBDA i : ~Within(bsp.faces, i) \/ At(bsp.faces, i).count >= 3)
        tris == FlattenSeq([i \in DOMAIN faces |->
                    FaceTriangles1(bsp, At(bsp.faces, faces[i]), k)])
        sound == \A i \in DOMAIN faces :
                    Within(bsp.faces, faces[i]) /\ FaceSound1(bsp, At(bsp.faces, faces[i]))
    IN SomeOf(sound, tris)
TrianglesFromQuake1(bsp, k) ==
    LET all == WorldTriangles(bsp, k) IN SomeOf(all.ok, SelectSeq(all.of, Whole))

FaceSound3(bsp, f) ==
    /\ f.first + f.count <= Len(bsp.vertices)
    /\ f.kind = "mesh" =>
        /\ f.mesh[1] >= 0 /\ f.mesh[2] >= 0 /\ f.mesh[1] + f.mesh[2] <= Len(bsp.meshverts)
        /\ f.mesh[2] % 3 = 0
        /\ \A i \in f.mesh[1]..(f.mesh[1] + f.mesh[2] - 1) :
            At(bsp.meshverts, i) >= 0 /\ At(bsp.meshverts, i) < f.count
FaceTriangles3(bsp, f, k) ==
    LET vertex(i) == At(bsp.vertices, f.first + i)
        corner(t, c) == QuakeToWorld(vertex(At(bsp.meshverts, f.mesh[1] + 3 * (t - 1) + c)), k)
    IN CASE f.kind = "polygon" -> Fan([i \in 1..f.count |-> vertex(i - 1)], k)
         [] f.kind = "mesh" ->
                [t \in 1..(f.mesh[2] \div 3) |->
                    <<corner(t, 0), corner(t, 1), corner(t, 2)>>]
         [] OTHER -> <<>>
TrianglesFromQuake3(bsp, k) ==
    LET faces == SelectSeq(bsp.faces, LAMBDA f : f.count >= 3)
        tris == FlattenSeq([i \in DOMAIN faces |-> FaceTriangles3(bsp, faces[i], k)])
        sound == /\ \A f \in ToSet(bsp.faces) : f.first >= 0 /\ f.count >= 0
                 /\ \A i \in DOMAIN faces : FaceSound3(bsp, faces[i])
    IN SomeOf(sound, SelectSeq(tris, Whole))

(***************************************************************************)
(* The quadtree: a leaf is a chunk; a triangle goes where its centroid is, *)
(* and widens the chunk it goes to.                                        *)
(***************************************************************************)
TriangleBounds(t) ==
    Box([a \in Axes |-> Min({t[c][a] : c \in Axes})], [a \in Axes |-> Max({t[c][a] : c \in Axes})])
BoundsOf(tris) == UnionOf({TriangleBounds(t) : t \in ToSet(tris)})
(* Whether the centroid is at or past the middle of the bounds.            *)
Past(t, b, a) == 2 * (t[1][a] + t[2][a] + t[3][a]) >= 3 * Centre(b, a)
IsLeafNode(tris, b, depth) ==
    \/ Len(tris) <= MaxTris
    \/ depth >= MaxDepth
    \/ b.max[1] - b.min[1] <= MinSize
    \/ b.max[3] - b.min[3] <= MinSize

Quarter(b, east, north) ==
    LET mid(a) == Centre(b, a) \div 2
    IN Box(<<IF east THEN mid(1) ELSE b.min[1], b.min[2], IF north THEN mid(3) ELSE b.min[3]>>,
           <<IF east THEN b.max[1] ELSE mid(1), b.max[2], IF north THEN b.max[3] ELSE mid(3)>>)
Quarters == << <<FALSE, FALSE>>, <<TRUE, FALSE>>, <<FALSE, TRUE>>, <<TRUE, TRUE>> >>

RECURSIVE SplitNode(_, _, _)
SplitNode(tris, b, depth) ==
    LET bucket(i) == SelectSeq(tris, LAMBDA t : /\ Past(t, b, 1) = Quarters[i][1]
                                                /\ Past(t, b, 3) = Quarters[i][2])
        child(i) == IF bucket(i) = <<>> THEN <<>>
                    ELSE SplitNode(bucket(i), Quarter(b, Quarters[i][1], Quarters[i][2]), depth + 1)
    IN IF IsLeafNode(tris, b, depth) THEN <<tris>>
       ELSE child(1) \o child(2) \o child(3) \o child(4)

EmitChunk(label, i, tris) ==
    [id |-> label \o <<"chunk" \o ToString(i - 1)>>, box |-> BoundsOf(tris),
     payload |-> label \o <<"chunk" \o ToString(i - 1)>>, count |-> Len(tris)]

(* cook-bsp: which triangles by the id's namespace, and the scale of the   *)
(* command line or else of the sidecar, which must be the map's own.       *)
SidecarOk(sc, id) == sc.version = 1 /\ sc.scale > 0 /\ sc.marked /\ sc.id = id
CookBsp(args) ==
    LET scale == IF args.scale # <<>> THEN args.scale
                 ELSE IF args.sidecar # <<>> THEN <<args.sidecar[1].scale>> ELSE <<>>
        tris == CASE Head(args.id) = "quake1" -> TrianglesFromQuake1(args.bsp, scale[1])
                  [] Head(args.id) = "quakelive" -> TrianglesFromQuake3(args.bsp, scale[1])
                  [] OTHER -> Failed
        leaves == SplitNode(tris.of, BoundsOf(tris.of), 0)
    IN IF \/ args.sidecar # <<>> /\ ~SidecarOk(args.sidecar[1], args.id)
          \/ scale = <<>> \/ scale[1] <= 0 \/ ~tris.ok
       THEN Failed
       ELSE Made(World([i \in DOMAIN leaves |-> EmitChunk(args.id, i, leaves[i])],
                       scale[1], BoundsOf(tris.of)))
================================================================================
