----------------------------- MODULE ContentGraph -----------------------------
(***************************************************************************)
(* tools content graph: the levels a level leads to, depth first, in the   *)
(* order of their keys; an error where one is missing or leads back to     *)
(* itself.                                                                 *)
(***************************************************************************)
EXTENDS ContentBuild

RECURSIVE VisitLevel(_, _), VisitAll(_, _)
VisitLevel(l, g) ==
    IF g.error \/ l \in g.visited THEN g
    ELSE IF l \in ToSet(g.visiting) THEN [g EXCEPT !.error = TRUE]
    ELSE IF ResolveLevel(l) = "none" \/ levels[ResolveLevel(l)][l].is = "bad"
    THEN [g EXCEPT !.error = TRUE]
    ELSE LET m == levels[ResolveLevel(l)][l]
             below == VisitAll(SelectSeq(Levels, LAMBDA d : d \in m.deps),
                               [g EXCEPT !.visiting = Append(@, l), !.nodes = @ \cup {l}])
         IN  IF below.error THEN below
             ELSE [below EXCEPT !.visiting = Front(@), !.visited = @ \cup {l}]
VisitAll(ls, g) ==
    IF ls = <<>> THEN g ELSE VisitAll(Tail(ls), VisitLevel(Head(ls), g))

LevelGraph(l) ==
    VisitLevel(l, [visiting |-> <<>>, visited |-> {}, nodes |-> {}, error |-> FALSE])

-----------------------------------------------------------------------------
(* What is to be found from a level.                                       *)
Usable(l) == ResolveLevel(l) # "none" /\ levels[ResolveLevel(l)][l].is = "ok"
LeadsTo(l) == IF Usable(l) THEN levels[ResolveLevel(l)][l].deps \cap LevelSet ELSE {}
RECURSIVE ReachIn(_, _)
ReachIn(ls, n) == IF n = 0 THEN ls ELSE ReachIn(ls \cup UNION {LeadsTo(l) : l \in ls}, n - 1)
Reach(ls) == ReachIn(ls, Cardinality(LevelSet))

(* Discovery goes by directories and resolve by the key, and they tell of  *)
(* one level: every level that resolves is discovered, a directory that    *)
(* has its key's name is discovered where the key resolves to, and one of  *)
(* another name hides no override (level_manifest.rs:95, 134).  The graph  *)
(* of a level is what it leads to, and an error exactly if some level of   *)
(* it is missing, unreadable or leads back to itself (tools main.rs:3350,  *)
(* 3361).                                                                  *)
LevelsAgree ==
    LET all == Discovered
    IN  \A l \in LevelSet :
        LET g == LevelGraph(l)
            at == ResolveLevel(l)
            below == Reach({l})
        IN  /\ at # "none" => l \in DOMAIN all
            /\ l \in DOMAIN all =>
                  \/ all[l] = [layer |-> at, name |-> l]
                  \/ all[l].name # l /\ at \in {all[l].layer, "shipped", "none"}
            /\ g.error <=> \E x \in below : ~Usable(x) \/ x \in Reach(LeadsTo(x))
            /\ ~g.error => g.nodes = below /\ g.visited = g.nodes
=============================================================================
