-------------------------- MODULE ContentBuild_proofs --------------------------
(***************************************************************************)
(* Proofs about QuakeFiles, ContentBuild and the runner that starts the    *)
(* tools (RunnerGui), for any names, disks, mounts, content trees, edits,  *)
(* jobs and prints: the lookups of the virtual file system tell of one     *)
(* file, an index accepted for its fingerprint is the index of a scan, a   *)
(* build leaves what its manifest says and does no work twice, and what    *)
(* the runner shows of its programs is true.                               *)
(***************************************************************************)
EXTENDS ContentBuild, RunnerGui, FiniteSetTheorems, WellFoundedInduction, TLAPS

\* A strict order in which any two members of S are comparable.
Orders(R, S) ==
  /\ \A x \in S : <<x, x>> \notin R
  /\ \A x, y \in S : x # y => <<x, y>> \in R \/ <<y, x>> \in R
  /\ \A x, y, z \in S : <<x, y>> \in R /\ <<y, z>> \in R => <<x, z>> \in R

LEMMA RankIsOnto ==
  ASSUME NEW S, NEW R, IsFiniteSet(S), Orders(R, S)
  PROVE  /\ \A x \in S : Rank(x, S, R) \in 0..(Cardinality(S) - 1)
         /\ \A x, y \in S : <<x, y>> \in R => Rank(x, S, R) < Rank(y, S, R)
         /\ \A k \in 1..Cardinality(S) : \E x \in S : Rank(x, S, R) = k - 1
<1> DEFINE Ahead(x) == {y \in S : <<y, x>> \in R}
<1>0. Cardinality(S) \in Nat
  BY FS_CardinalityType
<1>1. ASSUME NEW x \in S
      PROVE  IsFiniteSet(Ahead(x)) /\ Cardinality(Ahead(x)) \in 0..(Cardinality(S) - 1)
  <2>1. Ahead(x) \in SUBSET (S \ {x})
    BY DEF Orders
  <2>2. IsFiniteSet(S \ {x}) /\ Cardinality(S \ {x}) = Cardinality(S) - 1
    BY FS_RemoveElement
  <2>3. IsFiniteSet(Ahead(x)) /\ Cardinality(Ahead(x)) <= Cardinality(S) - 1
    <3> HIDE DEF Ahead
    <3> QED
      BY <2>1, <2>2, FS_Subset
  <2>4. Cardinality(Ahead(x)) \in Nat
    <3> HIDE DEF Ahead
    <3> QED
      BY <2>3, FS_CardinalityType
  <2> HIDE DEF Ahead
  <2> QED
    BY <2>3, <2>4, <1>0
<1>2. ASSUME NEW x \in S, NEW y \in S, <<x, y>> \in R
      PROVE  Cardinality(Ahead(x)) < Cardinality(Ahead(y))
  <2>1. Ahead(x) \in SUBSET (Ahead(y) \ {x})
    BY <1>2 DEF Orders
  <2>2. x \in Ahead(y)
    BY <1>2
  <2> HIDE DEF Ahead
  <2>3. IsFiniteSet(Ahead(y) \ {x}) /\ Cardinality(Ahead(y) \ {x}) = Cardinality(Ahead(y)) - 1
    BY <1>1, <2>2, FS_RemoveElement
  <2>4. Cardinality(Ahead(x)) <= Cardinality(Ahead(y)) - 1
    BY <2>1, <2>3, FS_Subset
  <2> QED
    BY <2>4, <1>1
<1>3. ASSUME NEW k \in 1..Cardinality(S)
      PROVE  \E x \in S : Cardinality(Ahead(x)) = k - 1
  <2> HIDE DEF Ahead
  <2> DEFINE n == Cardinality(S)
             rank == [x \in S |-> Cardinality(Ahead(x)) + 1]
  <2>1. rank \in [S -> 1..n]
    BY <1>1, <1>0
  <2>2. \A x, y \in S : rank[x] = rank[y] => x = y
    <3>1. ASSUME NEW x \in S, NEW y \in S, x # y
          PROVE  rank[x] # rank[y]
      <4>1. \/ Cardinality(Ahead(x)) < Cardinality(Ahead(y))
            \/ Cardinality(Ahead(y)) < Cardinality(Ahead(x))
        BY <1>2, <3>1 DEF Orders
      <4> QED
        BY <4>1, <1>1
    <3> QED
      BY <3>1
  <2>3. rank \in Injection(S, 1..n)
    BY <2>1, <2>2 DEF Injection, IsInjective
  <2>4. IsFiniteSet(1..n) /\ Cardinality(1..n) = n
    <3> HIDE DEF rank
    <3>1. n \in Nat /\ 0 \in Int /\ 1 \in Int /\ n \in Int
      BY <1>0
    <3>2. IsFiniteSet(1..n) /\ Cardinality(1..n) = IF 1 > n THEN 0 ELSE n - 1 + 1
      <4> HIDE DEF n
      <4> QED
        BY <3>1, FS_Interval
    <3> QED
      BY <3>1, <3>2
  <2>5. rank \in Surjection(S, 1..n)
    <3> HIDE DEF rank
    <3> QED
      BY <2>3, <2>4, FS_Injection
  <2>6. PICK x \in S : rank[x] = k
    BY <2>5 DEF Surjection
  <2> QED
    BY <2>6, <1>1
<1>4. \A x : Rank(x, S, R) = Cardinality(Ahead(x))
  BY DEF Rank
<1> QED
  BY <1>1, <1>2, <1>3, <1>4

(* InOrder lists every member once, in the order.                          *)
LEMMA InOrderLists ==
  ASSUME NEW S, NEW R, IsFiniteSet(S), Orders(R, S)
  PROVE  /\ Cardinality(S) \in Nat
         /\ InOrder(S, R) \in [1..Cardinality(S) -> S]
         /\ \A x \in S : \E k \in 1..Cardinality(S) : InOrder(S, R)[k] = x
         /\ \A i, j \in 1..Cardinality(S) :
              <<InOrder(S, R)[i], InOrder(S, R)[j]>> \in R => i < j
<1> DEFINE rank(x) == Rank(x, S, R)
           n == Cardinality(S)
<1>0. n \in Nat
  BY FS_CardinalityType
<1>1. /\ \A x \in S : rank(x) \in 0..(n - 1)
      /\ \A x, y \in S : <<x, y>> \in R => rank(x) < rank(y)
      /\ \A k \in 1..n : \E x \in S : rank(x) = k - 1
  BY RankIsOnto
<1>2. InOrder(S, R) = [k \in 1..n |-> CHOOSE x \in S : rank(x) = k - 1]
  BY DEF InOrder
<1> HIDE DEF rank, n
<1>3. \A k \in 1..n : InOrder(S, R)[k] \in S /\ rank(InOrder(S, R)[k]) = k - 1
  BY <1>1, <1>2
<1>4. ASSUME NEW x \in S
      PROVE  \E k \in 1..n : InOrder(S, R)[k] = x
  <2> DEFINE k == rank(x) + 1
  <2>1. k \in 1..n /\ rank(x) = k - 1
    BY <1>0, <1>1
  <2>2. InOrder(S, R)[k] \in S /\ rank(InOrder(S, R)[k]) = k - 1
    BY <1>3, <2>1
  <2>3. ASSUME InOrder(S, R)[k] # x PROVE FALSE
    <3>1. \/ rank(InOrder(S, R)[k]) < rank(x)
          \/ rank(x) < rank(InOrder(S, R)[k])
      BY <1>1, <2>2, <2>3 DEF Orders
    <3> QED
      BY <3>1, <2>1, <2>2, <1>1
  <2> QED
    BY <2>1, <2>3
<1>5. ASSUME NEW i \in 1..n, NEW j \in 1..n, <<InOrder(S, R)[i], InOrder(S, R)[j]>> \in R
      PROVE  i < j
  <2>1. rank(InOrder(S, R)[i]) < rank(InOrder(S, R)[j])
    BY <1>1, <1>3, <1>5
  <2> QED
    BY <2>1, <1>3, <1>0
<1>6. InOrder(S, R) \in [1..n -> S]
  BY <1>2, <1>3
<1> QED
  BY <1>0, <1>4, <1>5, <1>6 DEF n
LEMMA Increasing ==
  ASSUME NEW S \in SUBSET Nat
  PROVE  Orders({p \in S \X S : p[1] < p[2]}, S)
<1> DEFINE R == {p \in S \X S : p[1] < p[2]}
<1>1. \A x, y \in S : <<x, y>> \in R <=> x < y
  OBVIOUS
<1> HIDE DEF R
<1>2. \A x \in S : <<x, x>> \notin R
  BY <1>1
<1>3. \A x, y \in S : x # y => <<x, y>> \in R \/ <<y, x>> \in R
  BY <1>1
<1>4. \A x, y, z \in S : <<x, y>> \in R /\ <<y, z>> \in R => <<x, z>> \in R
  BY <1>1
<1>5. Orders(R, S)
  BY <1>2, <1>3, <1>4 DEF Orders
<1> QED
  BY <1>5 DEF R

LEMMA DomainFinite ==
  ASSUME NEW X, NEW s \in Seq(X), NEW T \in SUBSET (DOMAIN s)
  PROVE  IsFiniteSet(T) /\ T \in SUBSET Nat
<1>1. DOMAIN s = 1..Len(s) /\ Len(s) \in Nat
  OBVIOUS
<1>2. T \in SUBSET Nat /\ \A i \in T : i <= Len(s)
  BY <1>1
<1>3. IsFiniteSet(T)
  BY <1>1, <1>2, FS_BoundedSetOfNaturals
<1> QED
  BY <1>2, <1>3

(* What is picked are the items at the places.                             *)
LEMMA PickedItems ==
  ASSUME NEW X, NEW s \in Seq(X), NEW places \in SUBSET (DOMAIN s)
  PROVE  /\ Picked(s, places) \in Seq(X)
         /\ \A k \in DOMAIN Picked(s, places) : \E i \in places : Picked(s, places)[k] = s[i]
         /\ \A i \in places : \E k \in DOMAIN Picked(s, places) : Picked(s, places)[k] = s[i]
<1> DEFINE R == {p \in places \X places : p[1] < p[2]}
           at == InOrder(places, R)
           n == Cardinality(places)
<1>1. IsFiniteSet(places) /\ places \in SUBSET Nat
  BY DomainFinite
<1>2. Orders(R, places)
  BY <1>1, Increasing
<1>3. /\ n \in Nat /\ at \in [1..n -> places]
      /\ \A i \in places : \E k \in 1..n : at[k] = i
  <2> HIDE DEF R
  <2> QED
    BY <1>1, <1>2, InOrderLists
<1>4. Picked(s, places) = [k \in DOMAIN at |-> s[at[k]]]
  BY DEF Picked
<1> HIDE DEF at, n
<1>5. DOMAIN at = 1..n
  BY <1>3
<1>6. \A k \in 1..n : at[k] \in places /\ s[at[k]] \in X
  BY <1>3
<1>7. Picked(s, places) \in [1..n -> X]
  BY <1>4, <1>5, <1>6
<1>8. Picked(s, places) \in Seq(X)
  BY <1>7, <1>3
<1>9. DOMAIN Picked(s, places) = 1..n /\ \A k \in 1..n : Picked(s, places)[k] = s[at[k]]
  BY <1>4, <1>5
<1>10. \A k \in DOMAIN Picked(s, places) : \E i \in places : Picked(s, places)[k] = s[i]
  BY <1>6, <1>9
<1>11. \A i \in places : \E k \in DOMAIN Picked(s, places) : Picked(s, places)[k] = s[i]
  <2> SUFFICES ASSUME NEW i \in places
               PROVE  \E k \in DOMAIN Picked(s, places) : Picked(s, places)[k] = s[i]
    OBVIOUS
  <2>1. PICK k \in 1..n : at[k] = i
    BY <1>3
  <2>2. k \in DOMAIN Picked(s, places) /\ Picked(s, places)[k] = s[i]
    BY <2>1, <1>9
  <2> QED
    BY <2>2
<1> QED
  BY <1>8, <1>10, <1>11

\* The first member of a set of places, and of a finite set of numbers.
LEMMA LeastOf ==
  ASSUME NEW S \in SUBSET Nat, S # {}
  PROVE  /\ Min(S) \in S
         /\ \A i \in S : Min(S) <= i
<1>1. \E x \in S : \A y \in S : x <= y
  <2>1. PICK x \in S : \A y \in S : <<y, x>> \notin OpToRel(<, Nat)
    BY WFMin, NatLessThanWellFounded
  <2>2. ASSUME NEW y \in S PROVE x <= y
    <3>1. ~(y < x)
      BY <2>1 DEF OpToRel
    <3> QED
      BY <3>1
  <2> QED
    BY <2>2
<1> QED
  BY <1>1 DEF Min
-------------------------------------------------------------------------------
(* Typing, and what the mounts of a running game have to do with the disk: *)
(* an archive changed since it was mounted is in swapped.                  *)
Store == [there : BOOLEAN, ok : BOOLEAN, files : Table]
MountType ==
  [point : PathName, kind : {"dir"}, src : Dirs, table : Table]
  \cup [point : PathName, kind : {"pak", "pk3"}, src : Archives, table : Table]

FilesOK ==
  /\ disk \in [Stores -> Store]
  /\ game.mounts \in Seq(MountType)
  /\ game.up \in BOOLEAN
  /\ ~game.up => game.mounts = <<>>
  /\ swapped \subseteq Archives

\* What has become of an archive since it was mounted, if it was not swapped.
Kept(m) ==
  m.kind # "dir" /\ m.src \notin swapped =>
    disk[m.src].there /\ disk[m.src].ok /\ m.table = disk[m.src].files

MountsInv == FilesOK /\ \A i \in DOMAIN game.mounts : Kept(game.mounts[i])

LEMMA TableType ==
  ASSUME NEW f \in Table
  PROVE  /\ DOMAIN f = 1..Len(f) /\ Len(f) \in Nat
         /\ \A i \in DOMAIN f : f[i].name \in PathName /\ f[i].data \in Contents
<1> DEFINE X == [name : PathName, data : Contents]
<1>1. f \in Seq(X)
  BY DEF Table
<1>2. DOMAIN f = 1..Len(f) /\ Len(f) \in Nat /\ \A i \in DOMAIN f : f[i] \in X
  <2> HIDE DEF X
  <2> QED
    BY <1>1
<1>3. \A x \in X : x.name \in PathName /\ x.data \in Contents
  OBVIOUS
<1> QED
  BY <1>2, <1>3

LEMMA FirstIndex ==
  ASSUME NEW f \in Table, NEW n, HasName(f, n)
  PROVE  FirstOf(f, n) \in Contents
<1> DEFINE S == {i \in DOMAIN f : f[i].name = n}
<1>1. DOMAIN f = 1..Len(f) /\ Len(f) \in Nat /\ \A i \in DOMAIN f : f[i].data \in Contents
  BY TableType
<1>2. S \in SUBSET Nat /\ S # {}
  BY <1>1 DEF HasName
<1>3. Min(S) \in S /\ \A i \in S : Min(S) <= i
  <2> HIDE DEF S
  <2> QED
    BY <1>2, LeastOf
<1>4. \E i \in DOMAIN f : f[i].name = n /\ \A j \in 1..(i - 1) : f[j].name # n
  <2> DEFINE i == Min(S)
  <2> HIDE DEF i
  <2>1. i \in S /\ \A j \in S : i <= j
    BY <1>3 DEF i
  <2>2. i \in DOMAIN f /\ f[i].name = n
    BY <2>1
  <2>3. ASSUME NEW j \in 1..(i - 1) PROVE f[j].name # n
    <3>1. j \in DOMAIN f /\ j < i
      BY <1>1, <2>2
    <3> QED
      BY <3>1, <2>1, <1>1
  <2> QED
    BY <2>2, <2>3
<1> QED
  BY <1>1, <1>4 DEF FirstOf

LEMMA Prefix ==
  ASSUME NEW a \in PathName, NEW p \in PathName
  PROVE  IsPrefix(a, p) <=> Len(a) <= Len(p) /\ \A i \in 1..Len(a) : a[i] = p[i]
<1> DEFINE X == DOMAIN Lower
<1> HIDE DEF X
<1>1. a \in Seq(X) /\ p \in Seq(X)
  BY DEF PathName, X
<1>2. Len(a) \in Nat /\ Len(p) \in Nat
  BY <1>1
<1>3. SubSeq(a, 1, Len(a)) = [i \in 1..Len(a) |-> a[i]]
  BY <1>1, <1>2
<1>4. ASSUME Len(a) <= Len(p)
      PROVE  SubSeq(p, 1, Len(a)) = [i \in 1..Len(a) |-> p[i]]
  BY <1>1, <1>2, <1>4
<1> QED
  BY <1>3, <1>4 DEF IsPrefix

(* The part of a path below a prefix of it.                                *)
LEMMA Suffix ==
  ASSUME NEW X, NEW p \in Seq(X), NEW n \in Nat, n <= Len(p)
  PROVE  /\ SubSeq(p, n + 1, Len(p)) \in Seq(X)
         /\ Len(SubSeq(p, n + 1, Len(p))) = Len(p) - n
         /\ \A i \in 1..(Len(p) - n) : SubSeq(p, n + 1, Len(p))[i] = p[n + i]
         /\ SubSeq(p, n + 1, Len(p)) = <<>> <=> Len(p) = n
<1>1. Len(p) \in Nat
  OBVIOUS
<1>2. SubSeq(p, n + 1, Len(p)) \in Seq(X)
  BY <1>1
<1>3. Len(SubSeq(p, n + 1, Len(p))) = Len(p) - n
  BY <1>1
<1>4. \A i \in 1..(Len(p) - n) : SubSeq(p, n + 1, Len(p))[i] = p[n + i]
  BY <1>1
<1>5. SubSeq(p, n + 1, Len(p)) = <<>> <=> Len(p) = n
  <2> DEFINE q == SubSeq(p, n + 1, Len(p))
  <2> HIDE DEF q
  <2>1. q \in Seq(X) /\ Len(q) = Len(p) - n
    BY <1>2, <1>3 DEF q
  <2>2. q = <<>> <=> Len(q) = 0
    BY <2>1
  <2> QED
    BY <2>1, <2>2, <1>1 DEF q
<1> QED
  BY <1>2, <1>3, <1>4, <1>5

LEMMA SamePath ==
  ASSUME NEW X, NEW a \in Seq(X), NEW b \in Seq(X), Len(a) = Len(b),
         \A i \in 1..Len(a) : a[i] = b[i]
  PROVE  a = b
OBVIOUS

-------------------------------------------------------------------------------
(* One mount: what it says it has it reads, or it is a pk3 that was        *)
(* swapped.                                                                *)
LEMMA MountTyped ==
  ASSUME NEW m \in MountType
  PROVE  /\ m.point \in PathName
         /\ \/ m.kind = "dir" /\ m.src \in Dirs
            \/ m.kind \in {"pak", "pk3"} /\ m.src \in Archives
         /\ m.table \in Table
BY DEF MountType

LEMMA MountAnswers ==
  ASSUME NEW m \in MountType, Kept(m), NEW p
  PROVE  /\ MountExists(m, p) <=> MountRead(m, p).is # "none"
         /\ MountRead(m, p).is = "error" => m.kind = "pk3" /\ m.src \in swapped
         /\ MountRead(m, p).is \in {"none", "error", "data"}
<1>0. Nothing.is = "none" /\ Failed.is = "error" /\ \A d : Found(d).is = "data"
  BY DEF Nothing, Failed, Found
<1>1. CASE Rest(m, p) = <<>>
  <2>1. MountRead(m, p) = Nothing /\ ~MountExists(m, p)
    BY <1>1 DEF MountRead, MountExists
  <2> QED
    BY <2>1, <1>0
<1>2. CASE Rest(m, p) # <<>> /\ m.kind = "dir"
  <2> DEFINE f == disk[m.src].files
  <2>1. MountExists(m, p) <=> HasName(f, Rest(m, p))
    BY <1>2 DEF MountExists
  <2>2. MountRead(m, p) = IF HasName(f, Rest(m, p)) THEN Found(FirstOf(f, Rest(m, p))) ELSE Nothing
    BY <1>2 DEF MountRead
  <2> QED
    BY <2>1, <2>2, <1>0
<1>3. CASE Rest(m, p) # <<>> /\ m.kind = "pak"
  <2> DEFINE f == m.table
  <2>1. MountExists(m, p) <=> HasName(f, Rest(m, p))
    BY <1>3 DEF MountExists
  <2>2. MountRead(m, p) = IF HasName(f, Rest(m, p)) THEN Found(FirstOf(f, Rest(m, p))) ELSE Nothing
    BY <1>3 DEF MountRead
  <2> QED
    BY <2>1, <2>2, <1>0
<1>4. CASE Rest(m, p) # <<>> /\ m.kind = "pk3"
  <2> DEFINE f == disk[m.src].files
  <2>1. MountExists(m, p) <=> HasName(m.table, Rest(m, p))
    BY <1>4 DEF MountExists
  <2>2. MountRead(m, p) =
          IF ~HasName(m.table, Rest(m, p)) THEN Nothing
          ELSE IF disk[m.src].there /\ disk[m.src].ok /\ HasName(f, Rest(m, p))
               THEN Found(LastOf(f, Rest(m, p))) ELSE Failed
    BY <1>4 DEF MountRead
  <2>3. m.src \notin swapped => disk[m.src].there /\ disk[m.src].ok /\ m.table = f
    BY <1>4 DEF Kept
  <2> QED
    BY <2>1, <2>2, <2>3, <1>0, <1>4
<1> QED
  BY <1>1, <1>2, <1>3, <1>4, MountTyped

(* The mount that answers a read is the first that says it has the file.   *)
Having(p) ==
  {i \in DOMAIN game.mounts : Under(game.mounts[i], p) /\ MountExists(game.mounts[i], p)}

LEMMA MountOf ==
  ASSUME MountsInv
  PROVE  /\ DOMAIN game.mounts \in SUBSET (Nat \ {0})
         /\ \A i \in DOMAIN game.mounts : game.mounts[i] \in MountType /\ Kept(game.mounts[i])
<1>1. game.mounts \in Seq(MountType)
  BY DEF MountsInv, FilesOK
<1>2. DOMAIN game.mounts = 1..Len(game.mounts) /\ Len(game.mounts) \in Nat
      /\ \A i \in DOMAIN game.mounts : game.mounts[i] \in MountType
  BY <1>1
<1> QED
  BY <1>2 DEF MountsInv

LEMMA ReadIsFirst ==
  ASSUME MountsInv, NEW p
  PROVE  IF Having(p) = {} THEN Read(p).is = "none"
         ELSE LET i == Min(Having(p))
              IN  /\ i \in Having(p) /\ (\A j \in Having(p) : i <= j)
                  /\ Read(p) = [is |-> MountRead(game.mounts[i], p).is,
                                data |-> MountRead(game.mounts[i], p).data, mount |-> i]
<1> DEFINE answers == {i \in DOMAIN game.mounts :
                          Under(game.mounts[i], p) /\ MountRead(game.mounts[i], p).is # "none"}
<1>1. answers = Having(p)
  <2>1. \A i \in DOMAIN game.mounts :
          MountExists(game.mounts[i], p) <=> MountRead(game.mounts[i], p).is # "none"
    BY MountOf, MountAnswers
  <2> QED
    BY <2>1 DEF Having
<1>2. Read(p) = IF answers = {} THEN [is |-> "none", data |-> 0, mount |-> 0]
                ELSE LET i == Min(answers)
                         r == MountRead(game.mounts[i], p)
                     IN  [is |-> r.is, data |-> r.data, mount |-> i]
  BY DEF Read, ReadFrom
<1> HIDE DEF answers
<1>3. Having(p) \in SUBSET Nat
  BY MountOf DEF Having
<1>4. CASE Having(p) = {}
  BY <1>1, <1>2, <1>4
<1>5. CASE Having(p) # {}
  <2>1. Min(Having(p)) \in Having(p) /\ \A j \in Having(p) : Min(Having(p)) <= j
    BY <1>3, <1>5, LeastOf
  <2> QED
    BY <1>1, <1>2, <1>5, <2>1
<1> QED
  BY <1>4, <1>5

LEMMA ReadableExists ==
  ASSUME MountsInv, NEW p
  PROVE  ExistsIsReadable(p)
<1>1. Exists(p) <=> Having(p) # {}
  BY DEF Exists, Having
<1>2. CASE Having(p) = {}
  <2>1. Read(p).is = "none"
    BY <1>2, ReadIsFirst
  <2> QED
    BY <1>1, <1>2, <2>1 DEF ExistsIsReadable
<1>3. CASE Having(p) # {}
  <2> DEFINE i == Min(Having(p))
  <2>1. /\ i \in Having(p)
        /\ Read(p) = [is |-> MountRead(game.mounts[i], p).is,
                      data |-> MountRead(game.mounts[i], p).data, mount |-> i]
    BY <1>3, ReadIsFirst
  <2> HIDE DEF i
  <2>2. i \in DOMAIN game.mounts /\ MountExists(game.mounts[i], p)
    BY <2>1 DEF Having
  <2>3. game.mounts[i] \in MountType /\ Kept(game.mounts[i])
    BY <2>2, MountOf
  <2>4. /\ MountRead(game.mounts[i], p).is # "none"
        /\ MountRead(game.mounts[i], p).is = "error" =>
             game.mounts[i].kind = "pk3" /\ game.mounts[i].src \in swapped
    BY <2>2, <2>3, MountAnswers
  <2>5. Read(p).is = MountRead(game.mounts[i], p).is /\ Read(p).mount = i
    BY <2>1
  <2> QED
    BY <1>1, <1>3, <2>4, <2>5 DEF ExistsIsReadable
<1> QED
  BY <1>2, <1>3

LEMMA ResolverReads ==
  ASSUME MountsInv, NEW p
  PROVE  ResolverAgrees(p)
<1> DEFINE hits == {i \in Having(p) : game.mounts[i].point = VRoot}
<1>1. {c.order : c \in {d \in ResolverCandidates(p) : d.exists}} = hits
  <2> DEFINE mine == {j \in DOMAIN game.mounts : Under(game.mounts[j], p)}
             of(i) == [order |-> i, exists |-> MountExists(game.mounts[i], p)]
             left == {c.order : c \in {d \in ResolverCandidates(p) : d.exists}}
  <2>1. Candidates(p) = {of(i) : i \in mine}
    BY DEF Candidates
  <2>2. \A i : of(i).order = i /\ (of(i).exists <=> MountExists(game.mounts[i], p))
    OBVIOUS
  <2>3. \A i : i \in hits <=>
               /\ i \in mine
               /\ MountExists(game.mounts[i], p) /\ game.mounts[i].point = VRoot
    BY DEF Having
  <2>4. ResolverCandidates(p) = {c \in Candidates(p) : game.mounts[c.order].point = VRoot}
    BY DEF ResolverCandidates
  <2> HIDE DEF of, mine, hits
  <2>5. ASSUME NEW i \in left PROVE i \in hits
    <3>1. PICK c \in ResolverCandidates(p) : c.exists /\ c.order = i
      OBVIOUS
    <3>2. PICK j \in mine : c = of(j)
      BY <2>1, <2>4
    <3> QED
      BY <3>1, <3>2, <2>2, <2>3, <2>4
  <2>6. ASSUME NEW i \in hits PROVE i \in left
    <3>1. of(i) \in ResolverCandidates(p) /\ of(i).exists
      BY <2>1, <2>2, <2>3, <2>4
    <3>2. of(i).order \in left
      BY <3>1
    <3> QED
      BY <3>2, <2>2
  <2> QED
    BY <2>5, <2>6
<1>2. Winner(p) = IF hits = {} THEN 0 ELSE Min(hits)
  BY <1>1 DEF Winner
<1>3. Having(p) \in SUBSET (Nat \ {0})
  BY MountOf DEF Having
<1>4. hits # {} => Min(hits) \in hits /\ \A j \in hits : Min(hits) <= j
  <2>1. hits \in SUBSET Nat
    BY <1>3
  <2> HIDE DEF hits
  <2> QED
    BY <2>1, LeastOf
<1> SUFFICES ASSUME Read(p).is = "data"
             PROVE  IF Winner(p) = 0 THEN game.mounts[Read(p).mount].point # VRoot
                    ELSE \/ Read(p).mount = Winner(p)
                         \/ /\ Read(p).mount < Winner(p)
                            /\ game.mounts[Read(p).mount].point # VRoot
  BY DEF ResolverAgrees
<1>5. Read(p).mount \in Having(p) /\ \A j \in Having(p) : Read(p).mount <= j
  <2>1. Having(p) # {}
    BY ReadIsFirst
  <2> DEFINE i == Min(Having(p))
  <2>2. /\ i \in Having(p) /\ (\A j \in Having(p) : i <= j)
        /\ Read(p) = [is |-> MountRead(game.mounts[i], p).is,
                      data |-> MountRead(game.mounts[i], p).data, mount |-> i]
    BY <2>1, ReadIsFirst
  <2> HIDE DEF i
  <2> QED
    BY <2>2
<1>6. CASE hits = {}
  BY <1>2, <1>5, <1>6
<1>7. CASE hits # {}
  <2>1. Winner(p) \in hits /\ (\A j \in hits : Winner(p) <= j) /\ Winner(p) # 0
    BY <1>2, <1>3, <1>4, <1>7
  <2>2. Read(p).mount <= Winner(p)
    BY <2>1, <1>5
  <2>3. Read(p).mount # Winner(p) => Read(p).mount \notin hits /\ Read(p).mount < Winner(p)
    BY <2>1, <2>2, <1>3, <1>5
  <2>4. Read(p).mount \notin hits => game.mounts[Read(p).mount].point # VRoot
    BY <1>5
  <2> HIDE DEF hits
  <2> QED
    BY <2>1, <2>3, <2>4
<1> QED
  BY <1>6, <1>7

-------------------------------------------------------------------------------
(* One mount: what it has it lists, and what it lists as a file it has.    *)
FilesOf(m) == IF m.kind = "dir" THEN disk[m.src].files ELSE m.table

LEMMA RestOf ==
  ASSUME NEW m \in MountType, NEW p \in PathName, Under(m, p)
  PROVE  /\ Len(m.point) \in Nat /\ Len(p) \in Nat /\ Len(m.point) <= Len(p)
         /\ Rest(m, p) \in PathName
         /\ Len(Rest(m, p)) = Len(p) - Len(m.point)
         /\ \A i \in 1..(Len(p) - Len(m.point)) : Rest(m, p)[i] = p[Len(m.point) + i]
         /\ Rest(m, p) = <<>> <=> Len(p) = Len(m.point)
<1> DEFINE X == DOMAIN Lower
           n == Len(m.point)
<1>1. m.point \in PathName
  BY MountTyped
<1>2. n \in Nat /\ Len(p) \in Nat
  BY <1>1 DEF PathName
<1>3. n <= Len(p)
  BY <1>1, Prefix DEF Under
<1>4. Rest(m, p) = SubSeq(p, n + 1, Len(p))
  BY DEF Rest
<1>5. p \in Seq(X)
  BY DEF PathName
<1> HIDE DEF X, n
<1>6. /\ SubSeq(p, n + 1, Len(p)) \in Seq(X)
      /\ Len(SubSeq(p, n + 1, Len(p))) = Len(p) - n
      /\ \A i \in 1..(Len(p) - n) : SubSeq(p, n + 1, Len(p))[i] = p[n + i]
      /\ SubSeq(p, n + 1, Len(p)) = <<>> <=> Len(p) = n
  BY <1>2, <1>3, <1>5, Suffix
<1> QED
  BY <1>2, <1>3, <1>4, <1>6 DEF n, X, PathName

LEMMA FrontOf ==
  ASSUME NEW p \in PathName, p # <<>>
  PROVE  /\ Front(p) \in PathName /\ Len(Front(p)) = Len(p) - 1 /\ Len(p) \in Nat \ {0}
         /\ \A i \in 1..(Len(p) - 1) : Front(p)[i] = p[i]
         /\ Last(p) = p[Len(p)] /\ Last(p) \in DOMAIN Lower
<1> DEFINE X == DOMAIN Lower
<1>1. p \in Seq(X)
  BY DEF PathName
<1> HIDE DEF X
<1>2. Len(p) \in Nat \ {0}
  BY <1>1
<1>3. /\ SubSeq(p, 1, Len(p) - 1) \in Seq(X)
      /\ Len(SubSeq(p, 1, Len(p) - 1)) = Len(p) - 1
      /\ \A i \in 1..(Len(p) - 1) : SubSeq(p, 1, Len(p) - 1)[i] = p[i]
  <2> DEFINE n == Len(p) - 1
  <2>1. n \in Nat /\ n <= Len(p)
    BY <1>2
  <2> HIDE DEF n
  <2>2. SubSeq(p, 1, n) \in Seq(X)
    BY <1>1, <2>1
  <2>3. Len(SubSeq(p, 1, n)) = n
    BY <1>1, <2>1
  <2>4. \A i \in 1..n : SubSeq(p, 1, n)[i] = p[i]
    BY <1>1, <2>1
  <2> QED
    BY <2>2, <2>3, <2>4 DEF n
<1>4. p[Len(p)] \in X
  BY <1>1, <1>2
<1> QED
  BY <1>2, <1>3, <1>4 DEF Front, Last, PathName, X

LEMMA ListsWhatItHas ==
  ASSUME NEW m \in MountType, FilesOf(m) \in Table, NEW p \in PathName, p # <<>>,
         Under(m, p), MountExists(m, p)
  PROVE  /\ Under(m, Front(p))
         /\ \E e \in MountList(m, Front(p)) : e.name = Last(p)
<1> DEFINE q == Front(p)
           f == FilesOf(m)
           a == m.point
<1>1. Rest(m, p) # <<>> /\ HasName(f, Rest(m, p))
  BY DEF MountExists, FilesOf
<1>2. q \in PathName /\ Len(q) = Len(p) - 1 /\ Len(p) \in Nat \ {0}
      /\ (\A i \in 1..(Len(p) - 1) : q[i] = p[i]) /\ Last(p) = p[Len(p)]
  BY FrontOf
<1>3. /\ Len(a) \in Nat /\ Len(p) \in Nat /\ Len(a) < Len(p)
      /\ Rest(m, p) \in PathName
      /\ Len(Rest(m, p)) = Len(p) - Len(a)
      /\ \A i \in 1..(Len(p) - Len(a)) : Rest(m, p)[i] = p[Len(a) + i]
  BY RestOf, <1>1
<1>4. a \in PathName
  BY MountTyped
<1>5. Under(m, q)
  <2>1. Len(a) <= Len(p) /\ \A i \in 1..Len(a) : a[i] = p[i]
    BY <1>4, Prefix DEF Under
  <2>2. Len(a) <= Len(q) /\ \A i \in 1..Len(a) : a[i] = q[i]
    BY <2>1, <1>2, <1>3
  <2> QED
    BY <2>2, <1>2, <1>4, Prefix DEF Under
<1>6. /\ Rest(m, q) \in PathName
      /\ Len(Rest(m, q)) = Len(p) - 1 - Len(a)
      /\ \A i \in 1..(Len(p) - 1 - Len(a)) : Rest(m, q)[i] = p[Len(a) + i]
  <2>1. /\ Rest(m, q) \in PathName
        /\ Len(Rest(m, q)) = Len(q) - Len(m.point)
        /\ \A i \in 1..(Len(q) - Len(m.point)) : Rest(m, q)[i] = q[Len(m.point) + i]
    BY <1>2, <1>5, RestOf
  <2>2. \A i \in 1..(Len(p) - 1 - Len(a)) : Len(a) + i \in 1..(Len(p) - 1)
    BY <1>3
  <2> QED
    BY <2>1, <2>2, <1>2
<1> DEFINE rel == Rest(m, q)
           S == {i \in Below(f, rel) : f[i].name[Len(rel) + 1] = Last(p)}
<1> HIDE DEF q, f
<1>7. DOMAIN f = 1..Len(f) /\ Len(f) \in Nat
  BY TableType DEF f
<1>8. S # {}
  <2>1. PICK j \in DOMAIN f : f[j].name = Rest(m, p)
    BY <1>1 DEF HasName
  <2> HIDE DEF rel
  <2>6. /\ rel \in PathName /\ Len(rel) = Len(p) - 1 - Len(a)
        /\ \A i \in 1..(Len(p) - 1 - Len(a)) : rel[i] = p[Len(a) + i]
    BY <1>6 DEF rel
  <2>7. /\ f[j].name \in PathName /\ Len(f[j].name) = Len(p) - Len(a)
        /\ \A i \in 1..(Len(p) - Len(a)) : f[j].name[i] = p[Len(a) + i]
    BY <2>1, <1>3
  <2>2. \A i \in 1..Len(rel) : rel[i] = f[j].name[i]
    <3>1. ASSUME NEW i \in 1..Len(rel) PROVE rel[i] = f[j].name[i]
      <4>1. i \in 1..(Len(p) - 1 - Len(a)) /\ i \in 1..(Len(p) - Len(a))
        BY <2>6, <1>3
      <4> QED
        BY <4>1, <2>6, <2>7
    <3> QED
      BY <3>1
  <2>4. Len(f[j].name) > Len(rel)
    <3>1. Len(p) \in Nat /\ Len(a) \in Nat
      BY <1>3
    <3>2. Len(rel) = Len(p) - 1 - Len(a) /\ Len(f[j].name) = Len(p) - Len(a)
      BY <2>6, <2>7
    <3> HIDE DEF a
    <3> QED
      BY <3>1, <3>2
  <2>3. IsPrefix(rel, f[j].name)
    <3>1. Len(rel) <= Len(f[j].name)
      BY <2>6, <2>7, <1>3
    <3> QED
      BY <3>1, <2>2, <2>6, <2>7, Prefix
  <2>5. f[j].name[Len(rel) + 1] = Last(p)
    <3>1. Len(rel) + 1 = Len(p) - Len(a) /\ Len(p) - Len(a) \in 1..(Len(p) - Len(a))
      <4>1. Len(p) \in Nat /\ Len(a) \in Nat /\ Len(a) < Len(p)
        BY <1>3
      <4>2. Len(rel) = Len(p) - 1 - Len(a)
        BY <2>6
      <4> HIDE DEF a
      <4> QED
        BY <4>1, <4>2
    <3>2. Rest(m, p)[Len(p) - Len(a)] = p[Len(a) + (Len(p) - Len(a))]
      BY <1>3, <3>1
    <3>3. Len(a) + (Len(p) - Len(a)) = Len(p)
      BY <1>3
    <3> QED
      BY <3>1, <3>2, <3>3, <2>1, <1>2
  <2> QED
    BY <2>3, <2>4, <2>5 DEF Below
<1>9. S \in SUBSET Nat
  BY <1>7 DEF Below
<1>10. Min(S) \in S /\ \A i \in S : Min(S) <= i
  <2> HIDE DEF S
  <2> QED
    BY <1>8, <1>9, LeastOf
<1> DEFINE i == Min(S)
<1> HIDE DEF i, rel
<1>11. i \in Below(f, rel) /\ f[i].name[Len(rel) + 1] = Last(p)
  BY <1>10 DEF i
<1>12. ASSUME NEW j \in Below(f, rel), j < i
       PROVE  f[j].name[Len(rel) + 1] # f[i].name[Len(rel) + 1]
  <2>1. j \in S => i <= j
    BY <1>10 DEF i
  <2>2. j \in Nat /\ i \in Nat
    BY <1>7, <1>11 DEF Below
  <2> QED
    BY <2>1, <2>2, <1>11, <1>12
<1>13. MountList(m, q) =
         {[name |-> f[k].name[Len(rel) + 1], isDir |-> Len(f[k].name) > Len(rel) + 1] :
            k \in {x \in Below(f, rel) : \A j \in Below(f, rel) :
                      j < x => f[j].name[Len(rel) + 1] # f[x].name[Len(rel) + 1]}}
  BY DEF MountList, f, rel, FilesOf
<1>14. [name |-> f[i].name[Len(rel) + 1], isDir |-> Len(f[i].name) > Len(rel) + 1]
         \in MountList(m, q)
  BY <1>11, <1>12, <1>13
<1> QED
  BY <1>5, <1>11, <1>14 DEF q

LEMMA HasWhatItLists ==
  ASSUME NEW m \in MountType, FilesOf(m) \in Table, NEW q \in PathName, Under(m, q),
         NEW e \in MountList(m, q), ~e.isDir
  PROVE  Under(m, Append(q, e.name)) /\ MountExists(m, Append(q, e.name))
<1> DEFINE f == FilesOf(m)
           a == m.point
           rel == Rest(m, q)
           X == DOMAIN Lower
<1>1. PICK k \in Below(f, rel) :
        e = [name |-> f[k].name[Len(rel) + 1], isDir |-> Len(f[k].name) > Len(rel) + 1]
  BY DEF MountList, FilesOf
<1>2. /\ Len(a) \in Nat /\ Len(q) \in Nat /\ Len(a) <= Len(q)
      /\ rel \in PathName
      /\ Len(rel) = Len(q) - Len(a)
      /\ \A i \in 1..(Len(q) - Len(a)) : rel[i] = q[Len(a) + i]
  BY RestOf
<1> HIDE DEF rel, f
<1>3. f[k].name \in PathName /\ k \in DOMAIN f
  BY TableType DEF Below, f
<1>4. Len(f[k].name) = Len(rel) + 1 /\ IsPrefix(rel, f[k].name)
  <2>1. Len(f[k].name) > Len(rel) /\ IsPrefix(rel, f[k].name) /\ ~(Len(f[k].name) > Len(rel) + 1)
    BY <1>1 DEF Below
  <2>2. Len(f[k].name) \in Nat /\ Len(rel) \in Nat
    BY <1>2, <1>3 DEF PathName
  <2> QED
    BY <2>1, <2>2
<1>5. \A i \in 1..Len(rel) : rel[i] = f[k].name[i]
  BY <1>2, <1>3, <1>4, Prefix
<1>6. a \in PathName /\ \A i \in 1..Len(a) : a[i] = q[i]
  BY MountTyped, Prefix DEF Under
<1> DEFINE h == f[k].name[Len(rel) + 1]
           p == Append(q, h)
<1>7. h \in X /\ Len(rel) \in Nat
  <2>1. f[k].name \in Seq(X)
    BY <1>3 DEF PathName
  <2>2. Len(rel) + 1 \in 1..Len(f[k].name) /\ Len(rel) \in Nat
    BY <1>2, <1>4
  <2> HIDE DEF X
  <2> QED
    BY <2>1, <2>2
<1> HIDE DEF h, X
<1>8. p \in Seq(X) /\ Len(p) = Len(q) + 1 /\ (\A i \in 1..Len(q) : p[i] = q[i]) /\ p[Len(q) + 1] = h
  <2>1. q \in Seq(X)
    BY DEF PathName, X
  <2> QED
    BY <2>1, <1>7
<1>9. p \in PathName
  BY <1>8 DEF PathName, X
<1> HIDE DEF p
<1>10. Under(m, p)
  <2>1. Len(a) <= Len(p) /\ \A i \in 1..Len(a) : a[i] = p[i]
    BY <1>2, <1>6, <1>8
  <2> QED
    BY <2>1, <1>6, <1>9, Prefix DEF Under
<1>11. Rest(m, p) = f[k].name
  <2>1. /\ Rest(m, p) \in PathName
        /\ Len(Rest(m, p)) = Len(p) - Len(a)
        /\ \A i \in 1..(Len(p) - Len(a)) : Rest(m, p)[i] = p[Len(a) + i]
    BY RestOf, <1>9, <1>10
  <2>2. Len(Rest(m, p)) = Len(f[k].name)
    BY <2>1, <1>2, <1>4, <1>8
  <2>3. ASSUME NEW i \in 1..Len(Rest(m, p))
        PROVE  Rest(m, p)[i] = f[k].name[i]
    <3>1. i \in 1..(Len(rel) + 1) /\ Rest(m, p)[i] = p[Len(a) + i]
      BY <2>1, <2>3, <1>2, <1>8
    <3>2. CASE i \in 1..Len(rel)
      <4>1. Len(a) + i \in 1..Len(q)
        BY <1>2, <3>2
      <4>2. p[Len(a) + i] = q[Len(a) + i] /\ rel[i] = q[Len(a) + i]
        BY <4>1, <1>2, <1>8, <3>2
      <4> QED
        BY <4>2, <3>1, <3>2, <1>5
    <3>3. CASE i = Len(rel) + 1
      <4>1. Len(a) + i = Len(q) + 1
        BY <1>2, <3>3
      <4> QED
        BY <4>1, <3>1, <3>3, <1>8 DEF h
    <3> QED
      BY <3>1, <3>2, <3>3, <1>7
  <2>4. Rest(m, p) \in Seq(X) /\ f[k].name \in Seq(X)
    BY <2>1, <1>3 DEF PathName, X
  <2> QED
    BY <2>2, <2>3, <2>4, SamePath
<1>12. f[k].name # <<>>
  <2>1. f[k].name \in Seq(X) /\ Len(f[k].name) > 0
    BY <1>3, <1>4, <1>7 DEF PathName, X
  <2> QED
    BY <2>1
<1>13. MountExists(m, p)
  BY <1>3, <1>11, <1>12 DEF MountExists, HasName, f, FilesOf
<1> QED
  BY <1>1, <1>10, <1>13 DEF p, h

(* Of all mounts the first that lists a name decides what it is.           *)
LEMMA MountFiles ==
  ASSUME MountsInv, NEW i \in DOMAIN game.mounts
  PROVE  game.mounts[i] \in MountType /\ FilesOf(game.mounts[i]) \in Table
<1>1. game.mounts[i] \in MountType
  BY MountOf
<1>2. game.mounts[i].table \in Table /\ (game.mounts[i].kind = "dir" => game.mounts[i].src \in Dirs)
  BY <1>1, MountTyped
<1>3. \A s \in Dirs : disk[s].files \in Table
  BY DEF MountsInv, FilesOK, Stores, Store
<1> QED
  BY <1>1, <1>2, <1>3 DEF FilesOf

LEMMA ListingTrue ==
  ASSUME MountsInv, NEW p \in PathName, p # <<>>
  PROVE  ListingAgrees(p)
<1> DEFINE q == Front(p)
           mine == {i \in DOMAIN game.mounts : Under(game.mounts[i], q)}
           has(i, n) == \E e \in MountList(game.mounts[i], q) : e.name = n
<1>1. q \in PathName
  BY FrontOf
<1>2. ListDir(q) = UNION {{e \in MountList(game.mounts[i], q) :
                              \A j \in mine : j < i => ~has(j, e.name)} : i \in mine}
  BY DEF ListDir
<1> HIDE DEF q
<1>3. mine \in SUBSET Nat
  BY MountOf
<1>4. ASSUME Exists(p)
      PROVE  \E e \in ListDir(q) : e.name = Last(p)
  <2> DEFINE T == {i \in mine : has(i, Last(p))}
  <2>1. PICK i \in DOMAIN game.mounts : Under(game.mounts[i], p) /\ MountExists(game.mounts[i], p)
    BY <1>4 DEF Exists
  <2>2. i \in T
    BY <2>1, MountFiles, ListsWhatItHas DEF q
  <2>3. T \in SUBSET Nat
    BY <1>3
  <2>4. Min(T) \in T /\ \A j \in T : Min(T) <= j
    <3> HIDE DEF T
    <3> QED
      BY <2>2, <2>3, LeastOf
  <2> DEFINE k == Min(T)
  <2> HIDE DEF k
  <2>5. k \in mine /\ has(k, Last(p)) /\ \A j \in mine : j < k => ~has(j, Last(p))
    <3>1. k \in T /\ (\A j \in T : k <= j) /\ k \in Nat
      BY <2>3, <2>4 DEF k
    <3>2. ASSUME NEW j \in mine, j < k PROVE ~has(j, Last(p))
      <4>1. j \in T => k <= j
        BY <3>1
      <4> QED
        BY <4>1, <3>1, <3>2, <1>3
    <3> QED
      BY <3>1, <3>2
  <2>6. PICK e \in MountList(game.mounts[k], q) : e.name = Last(p)
    BY <2>5
  <2>7. e \in ListDir(q)
    BY <2>5, <2>6, <1>2
  <2> QED
    BY <2>6, <2>7
<1>5. ASSUME NEW e \in ListDir(q), ~e.isDir
      PROVE  Exists(Append(q, e.name))
  <2>1. PICK i \in mine : e \in MountList(game.mounts[i], q)
    BY <1>2
  <2>2. game.mounts[i] \in MountType /\ FilesOf(game.mounts[i]) \in Table
    BY MountFiles
  <2>3. Under(game.mounts[i], Append(q, e.name)) /\ MountExists(game.mounts[i], Append(q, e.name))
    BY <1>1, <1>5, <2>1, <2>2, HasWhatItLists
  <2> QED
    BY <2>3 DEF Exists
<1> QED
  BY <1>4, <1>5 DEF ListingAgrees, q

LEMMA LookupsOfMounts == MountsInv => LookupsAgree
<1> SUFFICES ASSUME MountsInv, NEW p \in VPaths
             PROVE  ExistsIsReadable(p) /\ ListingAgrees(p) /\ ResolverAgrees(p)
  BY DEF LookupsAgree
<1>1. p \in PathName /\ p # <<>>
  BY QuakeAssumption
<1> QED
  BY <1>1, ReadableExists, ListingTrue, ResolverReads

-------------------------------------------------------------------------------
(* What the user and the game do keeps the mounts what they should be.     *)
LEMMA StoreFacts ==
  /\ Dirs \cap Archives = {} /\ Base \in Dirs /\ Stores = Dirs \cup Archives
  /\ Paks \subseteq Archives
  /\ \A s \in Stores : s \in Dirs \/ s \in Archives
BY QuakeAssumption DEF Dirs, Archives, Stores

LEMMA PaksThereTyped ==
  /\ PaksThere \in Seq(Paks)
  /\ \A k \in DOMAIN PaksThere : disk[PaksThere[k]].there
  /\ \A p \in Paks : disk[p].there => \E k \in DOMAIN PaksThere : PaksThere[k] = p
<1> DEFINE places == {i \in DOMAIN PakOrder : disk[PakOrder[i]].there}
<1>1. PakOrder \in Seq(Paks) /\ places \in SUBSET (DOMAIN PakOrder)
  BY QuakeAssumption
<1>2. PaksThere = Picked(PakOrder, places)
  BY DEF PaksThere
<1>3. \A i \in places : disk[PakOrder[i]].there
  OBVIOUS
<1>4. \A p \in Paks : disk[p].there => \E i \in places : PakOrder[i] = p
  BY DEF Paks, ToSet
<1> HIDE DEF places
<1>5. /\ Picked(PakOrder, places) \in Seq(Paks)
      /\ \A k \in DOMAIN Picked(PakOrder, places) :
            \E i \in places : Picked(PakOrder, places)[k] = PakOrder[i]
      /\ \A i \in places : \E k \in DOMAIN Picked(PakOrder, places) :
            Picked(PakOrder, places)[k] = PakOrder[i]
  BY <1>1, PickedItems
<1>6. \A k \in DOMAIN PaksThere : disk[PaksThere[k]].there
  BY <1>2, <1>3, <1>5
<1>7. \A p \in Paks : disk[p].there => \E k \in DOMAIN PaksThere : PaksThere[k] = p
  BY <1>2, <1>4, <1>5
<1> QED
  BY <1>2, <1>5, <1>6, <1>7

LEMMA QuakeMountsTyped == QuakeMounts \in Seq(MountSpec)
<1> DEFINE first == <<[point |-> VRoot, kind |-> "dir", src |-> Base]>>
           of(i) == [point |-> VRoot, kind |-> "pak", src |-> PaksThere[i]]
           rest == [i \in DOMAIN PaksThere |-> of(i)]
<1>0. VRoot \in PathName
  BY QuakeAssumption
<1>1. [point |-> VRoot, kind |-> "dir", src |-> Base] \in MountSpec
  BY <1>0, StoreFacts DEF MountSpec
<1>2. \A p \in Paks : [point |-> VRoot, kind |-> "pak", src |-> p] \in MountSpec
  BY <1>0, StoreFacts DEF MountSpec
<1>3. \A i \in DOMAIN PaksThere : of(i) \in MountSpec
  BY <1>2, PaksThereTyped
<1>4. DOMAIN PaksThere = 1..Len(PaksThere) /\ Len(PaksThere) \in Nat
  BY PaksThereTyped
<1> HIDE DEF of
<1>5. rest \in [1..Len(PaksThere) -> MountSpec]
  BY <1>3, <1>4
<1>6. rest \in Seq(MountSpec)
  BY <1>4, <1>5
<1>7. first \in Seq(MountSpec)
  BY <1>1
<1>8. QuakeMounts = first \o rest
  BY DEF QuakeMounts, of
<1> HIDE DEF first, rest
<1> QED
  BY <1>6, <1>7, <1>8

LEMMA ListingTyped ==
  ASSUME NEW s \in Dirs, NEW new, \A n \in DOMAIN new : new[n] \in Contents
  PROVE  Listing(s, new) \in Table
<1> DEFINE places == {i \in DOMAIN Names[s] : Names[s][i] \in DOMAIN new}
           ns == Picked(Names[s], places)
           X == [name : PathName, data : Contents]
<1>1. Names[s] \in Seq(PathName) /\ places \in SUBSET (DOMAIN Names[s])
  BY QuakeAssumption
<1>2. \A i \in places : Names[s][i] \in DOMAIN new
  OBVIOUS
<1>3. Listing(s, new) = [k \in DOMAIN ns |-> [name |-> ns[k], data |-> new[ns[k]]]]
  BY DEF Listing
<1> HIDE DEF places
<1>4. ns \in Seq(PathName) /\ \A k \in DOMAIN ns : \E i \in places : ns[k] = Names[s][i]
  BY <1>1, PickedItems
<1> HIDE DEF ns
<1>5. DOMAIN ns = 1..Len(ns) /\ Len(ns) \in Nat /\ \A k \in DOMAIN ns : ns[k] \in PathName
  BY <1>4
<1>6. \A k \in DOMAIN ns : [name |-> ns[k], data |-> new[ns[k]]] \in X
  BY <1>2, <1>4, <1>5
<1>7. Listing(s, new) \in [1..Len(ns) -> X]
  BY <1>3, <1>5, <1>6
<1>8. Listing(s, new) \in Seq(X)
  <2> HIDE DEF X
  <2> QED
    BY <1>5, <1>7
<1> QED
  BY <1>8 DEF Table

LEMMA FilesInTyped ==
  ASSUME FilesOK, NEW s \in Stores
  PROVE  \A n \in DOMAIN FilesIn(s) : FilesIn(s)[n] \in Contents
<1> DEFINE f == disk[s].files
<1>1. f \in Table
  BY DEF FilesOK, Store
<1>2. FilesIn(s) = [n \in {f[i].name : i \in DOMAIN f} |-> FirstOf(f, n)]
  BY DEF FilesIn
<1>3. DOMAIN FilesIn(s) = {f[i].name : i \in DOMAIN f}
  BY <1>2
<1> HIDE DEF f
<1>4. ASSUME NEW n \in DOMAIN FilesIn(s)
      PROVE  FilesIn(s)[n] \in Contents
  <2>1. HasName(f, n)
    BY <1>3, <1>4 DEF HasName
  <2> QED
    BY <1>1, <1>2, <1>3, <2>1, FirstIndex
<1> QED
  BY <1>4

\* A directory's files change, and nothing of a store else.
LEMMA DirKeepsMounts ==
  ASSUME MountsInv, NEW s \in Dirs, NEW n, NEW new,
         \A k \in DOMAIN new : new[k] \in Contents, DirEdit(s, n, new)
  PROVE  MountsInv'
<1> DEFINE listed == Listing(s, new)
<1>1. listed \in Table
  BY ListingTyped
<1>2. disk' = [disk EXCEPT ![s].files = listed] /\ game' = game /\ swapped' = swapped
  BY DEF DirEdit
<1> HIDE DEF listed
<1>3. s \in Stores /\ disk \in [Stores -> Store]
  BY StoreFacts DEF MountsInv, FilesOK
<1>4. disk' \in [Stores -> Store]
  BY <1>1, <1>2, <1>3 DEF Store
<1>5. \A a \in Archives : disk'[a] = disk[a]
  BY <1>2, <1>3, StoreFacts
<1>6. FilesOK'
  BY <1>2, <1>4 DEF MountsInv, FilesOK
<1>7. ASSUME NEW i \in DOMAIN game.mounts PROVE Kept(game.mounts[i])'
  <2>1. game.mounts[i] \in MountType /\ Kept(game.mounts[i])
    BY MountOf
  <2>2. game.mounts[i].kind # "dir" => game.mounts[i].src \in Archives
    BY <2>1, MountTyped
  <2> QED
    BY <2>1, <2>2, <1>2, <1>5 DEF Kept
<1> QED
  BY <1>2, <1>6, <1>7 DEF MountsInv

LEMMA FileKeepsMounts ==
  ASSUME MountsInv, NEW s \in Dirs, NEW n,
         (\E d \in Contents : WriteFile(s, n, d)) \/ RemoveFile(s, n)
  PROVE  MountsInv'
<1>1. s \in Stores /\ FilesOK
  BY StoreFacts DEF MountsInv
<1>2. \A k \in DOMAIN FilesIn(s) : FilesIn(s)[k] \in Contents
  BY <1>1, FilesInTyped
<1>3. ASSUME NEW d \in Contents, WriteFile(s, n, d)
      PROVE  MountsInv'
  <2> DEFINE new == [m \in DOMAIN FilesIn(s) \cup {n} |-> IF m = n THEN d ELSE FilesIn(s)[m]]
  <2>1. DirEdit(s, n, new)
    BY <1>3 DEF WriteFile
  <2>2. \A k \in DOMAIN new : new[k] \in Contents
    BY <1>2
  <2> HIDE DEF new
  <2> QED
    BY <2>1, <2>2, DirKeepsMounts
<1>4. ASSUME RemoveFile(s, n)
      PROVE  MountsInv'
  <2> DEFINE new == [m \in DOMAIN FilesIn(s) \ {n} |-> FilesIn(s)[m]]
  <2>1. DirEdit(s, n, new)
    BY <1>4 DEF RemoveFile
  <2>2. \A k \in DOMAIN new : new[k] \in Contents
    BY <1>2
  <2> HIDE DEF new
  <2> QED
    BY <2>1, <2>2, DirKeepsMounts
<1> QED
  BY <1>3, <1>4

LEMMA ArchiveKeepsMounts ==
  ASSUME MountsInv, NEW a \in Archives, NEW new \in Store, ArchiveEdit(a, new)
  PROVE  MountsInv'
<1>1. disk' = [disk EXCEPT ![a] = new] /\ game' = game /\ swapped' = swapped \cup {a}
  BY DEF ArchiveEdit
<1>2. a \in Stores /\ disk \in [Stores -> Store]
  BY StoreFacts DEF MountsInv, FilesOK
<1>3. disk' \in [Stores -> Store]
  BY <1>1, <1>2
<1>4. FilesOK'
  BY <1>1, <1>3 DEF MountsInv, FilesOK
<1>5. ASSUME NEW i \in DOMAIN game.mounts PROVE Kept(game.mounts[i])'
  <2>1. game.mounts[i] \in MountType /\ Kept(game.mounts[i])
    BY MountOf
  <2>2. game.mounts[i].src # a /\ game.mounts[i].src \in Stores =>
          disk'[game.mounts[i].src] = disk[game.mounts[i].src]
    BY <1>1, <1>2
  <2>3. game.mounts[i].src \in Stores
    BY <2>1, MountTyped, StoreFacts
  <2> QED
    BY <2>1, <2>2, <2>3, <1>1 DEF Kept
<1> QED
  BY <1>1, <1>4, <1>5 DEF MountsInv

\* The three changes of an archive put a store there.
LEMMA NewArchives ==
  ASSUME NEW a \in Archives,
         \/ \E p \in Packings[a] : Repack(a, p)
         \/ Damage(a)
         \/ Delete(a)
  PROVE  \E new \in Store : ArchiveEdit(a, new)
<1>1. <<>> \in Table /\ \A p \in Packings[a] : p \in Table
  <2>1. <<>> \in Table
    BY DEF Table
  <2>2. Packings \in [Archives -> SUBSET Table]
    BY QuakeAssumption
  <2> QED
    BY <2>1, <2>2
<1>2. \A t, k \in BOOLEAN, f \in Table : [there |-> t, ok |-> k, files |-> f] \in Store
  BY DEF Store
<1>3. ASSUME NEW p \in Packings[a], Repack(a, p)
      PROVE  \E new \in Store : ArchiveEdit(a, new)
  BY <1>1, <1>2, <1>3 DEF Repack
<1>4. ASSUME Damage(a)
      PROVE  \E new \in Store : ArchiveEdit(a, new)
  BY <1>1, <1>2, <1>4 DEF Damage
<1>5. ASSUME Delete(a)
      PROVE  \E new \in Store : ArchiveEdit(a, new)
  BY <1>1, <1>2, <1>5 DEF Delete
<1> QED
  BY <1>3, <1>4, <1>5

(* The game comes up only over archives that are there and can be parsed.  *)
LEMMA LaunchMounts ==
  ASSUME MountsInv, NEW specs \in CommandLines, Launch(specs)
  PROVE  MountsInv'
<1> DEFINE all == specs \o QuakeMounts
           of(x) == Mount(x.point, x.kind, x.src)
           mounts == [i \in DOMAIN all |-> of(all[i])]
<1>1. specs \in Seq(MountSpec) /\ QuakeMounts \in Seq(MountSpec)
  BY QuakeAssumption, QuakeMountsTyped
<1>2. game' = [up |-> TRUE, mounts |-> mounts] /\ disk' = disk /\ swapped' = {}
  BY DEF Launch
<1>3. \A i \in DOMAIN all : Mountable(all[i])
  BY DEF Launch
<1>4. all \in Seq(MountSpec)
  <2> HIDE DEF QuakeMounts
  <2> QED
    BY <1>1
<1>5. disk \in [Stores -> Store] /\ <<>> \in Table
  BY DEF MountsInv, FilesOK, Table
<1>6. ASSUME NEW x \in MountSpec, Mountable(x)
      PROVE  /\ of(x) \in MountType
             /\ of(x).kind # "dir" =>
                  /\ disk[of(x).src].there /\ disk[of(x).src].ok
                  /\ of(x).table = disk[of(x).src].files
  <2>1. CASE x \in [point : PathName, kind : {"dir"}, src : Dirs]
    <3>1. of(x) = [point |-> x.point, kind |-> "dir", src |-> x.src, table |-> <<>>]
      BY <2>1 DEF Mount
    <3> QED
      BY <3>1, <2>1, <1>5 DEF MountType
  <2>2. CASE x \in [point : PathName, kind : {"pak", "pk3"}, src : Archives]
    <3>1. of(x) = [point |-> x.point, kind |-> x.kind, src |-> x.src,
                   table |-> disk[x.src].files]
      BY <2>2 DEF Mount
    <3>2. disk[x.src].files \in Table
      BY <2>2, <1>5, StoreFacts DEF Store
    <3>3. disk[x.src].there /\ disk[x.src].ok
      BY <2>2, <1>6 DEF Mountable
    <3> QED
      BY <3>1, <3>2, <3>3, <2>2 DEF MountType
  <2> QED
    BY <2>1, <2>2 DEF MountSpec
<1> HIDE DEF all, of
<1>7. DOMAIN all = 1..Len(all) /\ Len(all) \in Nat /\ \A i \in DOMAIN all : all[i] \in MountSpec
  BY <1>4
<1>8. mounts \in [1..Len(all) -> MountType]
  BY <1>3, <1>6, <1>7
<1>9. mounts \in Seq(MountType)
  BY <1>7, <1>8
<1>10. FilesOK'
  BY <1>2, <1>5, <1>9 DEF FilesOK
<1>11. ASSUME NEW i \in DOMAIN all PROVE Kept(game.mounts[i])'
  BY <1>2, <1>3, <1>6, <1>7 DEF Kept
<1> QED
  BY <1>2, <1>10, <1>11 DEF MountsInv

LEMMA MountsInit == QuakeInit => MountsInv
<1> SUFFICES ASSUME QuakeInit PROVE MountsInv
  OBVIOUS
<1>1. disk \in [Stores -> Store]
  BY QuakeAssumption DEF QuakeInit, Store
<1>2. game.mounts = <<>> /\ game.up = FALSE /\ swapped = {}
  BY DEF QuakeInit, NoGame
<1>3. <<>> \in Seq(MountType)
  OBVIOUS
<1>4. FilesOK
  BY <1>1, <1>2, <1>3 DEF FilesOK
<1> QED
  BY <1>2, <1>4 DEF MountsInv

LEMMA MountsStay ==
  ASSUME MountsInv, disk' = disk, game' = game, swapped' = swapped
  PROVE  MountsInv'
BY DEF MountsInv, FilesOK, Kept

LEMMA EditsKeepMounts ==
  ASSUME MountsInv, UserEdits
  PROVE  MountsInv'
<1>1. ASSUME NEW s \in Dirs, NEW i \in DOMAIN Names[s],
             \/ \E d \in Contents : WriteFile(s, Names[s][i], d)
             \/ RemoveFile(s, Names[s][i])
      PROVE  MountsInv'
  BY <1>1, FileKeepsMounts
<1>2. ASSUME NEW a \in Archives,
             \/ \E p \in Packings[a] : Repack(a, p)
             \/ Damage(a)
             \/ Delete(a)
      PROVE  MountsInv'
  <2>1. PICK new \in Store : ArchiveEdit(a, new)
    BY <1>2, NewArchives
  <2> QED
    BY <2>1, ArchiveKeepsMounts
<1>3. CASE Tick
  BY <1>3, MountsStay DEF Tick
<1> QED
  BY <1>1, <1>2, <1>3 DEF UserEdits

LEMMA MountsStep == MountsInv /\ [QuakeNext]_qvars => MountsInv'
<1> SUFFICES ASSUME MountsInv, [QuakeNext]_qvars PROVE MountsInv'
  OBVIOUS
<1>1. CASE UserEdits
  BY <1>1, EditsKeepMounts
<1>2. ASSUME NEW specs \in CommandLines, Launch(specs) PROVE MountsInv'
  BY <1>2, LaunchMounts
<1>3. CASE Quit
  <2>1. disk' = disk /\ swapped' = swapped /\ game' = NoGame
    BY <1>3 DEF Quit
  <2>2. FilesOK' /\ game'.mounts = <<>>
    BY <2>1 DEF FilesOK, MountsInv, NoGame
  <2> QED
    BY <2>2 DEF MountsInv
<1>4. CASE QuakeIndexTool
  BY <1>4, MountsStay DEF QuakeIndexTool
<1>5. CASE QuakeIndexKilled
  BY <1>5, MountsStay DEF QuakeIndexKilled
<1>6. CASE UNCHANGED qvars
  BY <1>6, MountsStay DEF qvars
<1> QED
  BY <1>1, <1>2, <1>3, <1>4, <1>5, <1>6 DEF QuakeNext

(* read, exists, list_dir, explain_mounts and the resolver tell of the     *)
(* same file at every path, whatever is mounted where, whatever the user   *)
(* does to directories and archives (vfs.rs:224, 267, 292, 310,            *)
(* asset_resolver.rs:395, 442).                                            *)
THEOREM LookupsTellOfOneFile == QuakeSpec => []LookupsAgree
<1>1. QuakeInit => MountsInv
  BY MountsInit
<1>2. MountsInv /\ [QuakeNext]_qvars => MountsInv'
  BY MountsStep
<1>3. MountsInv => LookupsAgree
  BY LookupsOfMounts
<1> QED
  BY <1>1, <1>2, <1>3, PTL DEF QuakeSpec

-------------------------------------------------------------------------------
(* The index.  An index of which no change is missed is the one a scan     *)
(* would build, or it has the time of a store from before the store was    *)
(* changed: times only grow, so its fingerprint is never that of the       *)
(* directory again.                                                        *)
Current(x) == x.fingerprint = Fingerprint /\ Buildable /\ x.entries = BuiltEntries
Outdated(x) ==
  \E o \in DOMAIN x.fingerprint :
    /\ x.fingerprint[o].src \in Stores /\ x.fingerprint[o].modified \in Nat
    /\ x.fingerprint[o].modified < stamp[x.fingerprint[o].src]
Trusty(x) == x.is = "index" /\ x.knows >= blind => Current(x) \/ Outdated(x)

ClockInv ==
  /\ clock \in 0..MaxClock /\ edits \in 0..MaxEdits /\ blind \in 0..edits
  /\ stamp \in [Stores -> 0..clock]

IndexInv ==
  /\ ClockInv
  /\ cached.is \in {"absent", "unreadable", "index"}
  /\ cached.knows \in -1..edits
  /\ Trusty(cached)

LEMMA IndexedTyped ==
  /\ IndexedStores \in Seq({Base} \cup Paks)
  /\ 1 \in DOMAIN IndexedStores /\ IndexedStores[1] = Base
  /\ DOMAIN IndexedStores = 1..Len(IndexedStores) /\ Len(IndexedStores) \in Nat
  /\ \A o \in DOMAIN IndexedStores :
        \/ IndexedStores[o] = Base
        \/ IndexedStores[o] \in Paks /\ disk[IndexedStores[o]].there
  /\ \A p \in Paks : disk[p].there => \E o \in DOMAIN IndexedStores : IndexedStores[o] = p
<1> DEFINE P == PaksThere
           I == <<Base>> \o P
           X == {Base} \cup Paks
<1>1. /\ P \in Seq(Paks)
      /\ \A k \in DOMAIN P : disk[P[k]].there
      /\ \A p \in Paks : disk[p].there => \E k \in DOMAIN P : P[k] = p
  BY PaksThereTyped
<1>2. IndexedStores = I
  BY DEF IndexedStores
<1> HIDE DEF P
<1>3. P \in Seq(X) /\ <<Base>> \in Seq(X)
  BY <1>1
<1>4. DOMAIN P = 1..Len(P) /\ Len(P) \in Nat /\ \A k \in DOMAIN P : P[k] \in Paks
  BY <1>1
<1>5. I \in Seq(X) /\ Len(I) = Len(P) + 1 /\ I[1] = Base
  <2> HIDE DEF X
  <2> QED
    BY <1>3
<1>6. \A k \in 1..Len(P) : I[k + 1] = P[k]
  BY <1>3, <1>4
<1>7. DOMAIN I = 1..Len(I)
  BY <1>5
<1>8. \A o \in 2..Len(I) : o - 1 \in 1..Len(P) /\ I[o] = P[o - 1]
  BY <1>4, <1>5, <1>6
<1> HIDE DEF I, X
<1>9. \A o \in DOMAIN I : I[o] = Base \/ (I[o] \in Paks /\ disk[I[o]].there)
  <2> SUFFICES ASSUME NEW o \in DOMAIN I, o # 1
               PROVE  I[o] \in Paks /\ disk[I[o]].there
    BY <1>5
  <2>1. o \in 2..Len(I)
    BY <1>4, <1>5, <1>7
  <2> QED
    BY <2>1, <1>1, <1>4, <1>8
<1>10. \A p \in Paks : disk[p].there => \E o \in DOMAIN I : I[o] = p
  <2> SUFFICES ASSUME NEW p \in Paks, disk[p].there
               PROVE  \E o \in DOMAIN I : I[o] = p
    OBVIOUS
  <2>1. PICK k \in DOMAIN P : P[k] = p
    BY <1>1
  <2>2. k + 1 \in DOMAIN I /\ I[k + 1] = p
    BY <2>1, <1>4, <1>5, <1>6, <1>7
  <2> QED
    BY <2>2
<1>11. 1 \in DOMAIN I /\ Len(I) \in Nat
  BY <1>4, <1>5, <1>7
<1> QED
  BY <1>2, <1>5, <1>7, <1>9, <1>10, <1>11 DEF X

LEMMA FingerprintIs ==
  /\ DOMAIN Fingerprint = DOMAIN IndexedStores
  /\ \A o \in DOMAIN IndexedStores :
        Fingerprint[o].src = IndexedStores[o] /\ Fingerprint[o].modified = stamp[IndexedStores[o]]
BY DEF Fingerprint

LEMMA IndexedAreStores ==
  \A o \in DOMAIN IndexedStores : IndexedStores[o] \in Stores
BY IndexedTyped, StoreFacts

LEMMA OutdatedDiffers ==
  ASSUME ClockInv, NEW x, Outdated(x)
  PROVE  x.fingerprint # Fingerprint
<1> SUFFICES ASSUME x.fingerprint = Fingerprint PROVE FALSE
  OBVIOUS
<1>1. PICK o \in DOMAIN Fingerprint : Fingerprint[o].src \in Stores
                                      /\ Fingerprint[o].modified < stamp[Fingerprint[o].src]
  BY DEF Outdated
<1>2. Fingerprint[o].src = IndexedStores[o] /\ Fingerprint[o].modified = stamp[IndexedStores[o]]
  BY FingerprintIs
<1>3. stamp[IndexedStores[o]] \in Nat
  BY <1>1, <1>2 DEF ClockInv
<1> QED
  BY <1>1, <1>2, <1>3

LEMMA TrustyIsFresh == IndexInv => IndexFresh
<1> SUFFICES ASSUME IndexInv, Accepted, cached.knows >= blind
             PROVE  Buildable /\ cached.entries = BuiltEntries
  BY DEF IndexFresh
<1>1. Current(cached) \/ Outdated(cached)
  BY DEF IndexInv, Trusty, Accepted
<1>2. ~Outdated(cached)
  BY OutdatedDiffers DEF IndexInv, Accepted
<1> QED
  BY <1>1, <1>2 DEF Current

\* What a scan reads: the quake directory and the paks that are there.
LEMMA SameScan ==
  ASSUME \A p \in Paks : disk'[p].there = disk[p].there,
         disk'[Base] = disk[Base],
         \A p \in Paks : disk[p].there => disk'[p] = disk[p]
  PROVE  /\ IndexedStores' = IndexedStores
         /\ Buildable' = Buildable
         /\ BuiltEntries' = BuiltEntries
         /\ \A o \in DOMAIN IndexedStores : disk'[IndexedStores[o]] = disk[IndexedStores[o]]
<1>1. PakOrder \in Seq(Paks)
  BY QuakeAssumption
<1>2. \A i \in DOMAIN PakOrder : PakOrder[i] \in Paks
  BY <1>1
<1>3. {i \in DOMAIN PakOrder : disk'[PakOrder[i]].there}
        = {i \in DOMAIN PakOrder : disk[PakOrder[i]].there}
  BY <1>2
<1>4. PaksThere' = PaksThere
  BY <1>3 DEF PaksThere
<1>5. IndexedStores' = IndexedStores
  BY <1>4 DEF IndexedStores
<1>6. \A o \in DOMAIN IndexedStores : disk'[IndexedStores[o]] = disk[IndexedStores[o]]
  BY IndexedTyped
<1>7. Buildable' = Buildable
  BY <1>5, <1>6 DEF Buildable
<1>8. [o \in DOMAIN IndexedStores |-> disk[IndexedStores[o]].files]'
        = [o \in DOMAIN IndexedStores |-> disk[IndexedStores[o]].files]
  BY <1>5, <1>6
<1>9. BuiltEntries' = BuiltEntries
  BY <1>5, <1>8 DEF BuiltEntries
<1> QED
  BY <1>5, <1>6, <1>7, <1>9

LEMMA SameFingerprint ==
  ASSUME \A p \in Paks : disk'[p].there = disk[p].there,
         disk'[Base] = disk[Base],
         \A p \in Paks : disk[p].there => disk'[p] = disk[p],
         stamp'[Base] = stamp[Base],
         \A p \in Paks : disk[p].there => stamp'[p] = stamp[p]
  PROVE  Fingerprint' = Fingerprint
<1>1. IndexedStores' = IndexedStores
      /\ \A o \in DOMAIN IndexedStores : disk'[IndexedStores[o]] = disk[IndexedStores[o]]
  BY SameScan
<1>2. \A o \in DOMAIN IndexedStores : stamp'[IndexedStores[o]] = stamp[IndexedStores[o]]
  BY IndexedTyped
<1> QED
  BY <1>1, <1>2 DEF Fingerprint

\* Times do not go back, so an outdated index stays one.
LEMMA OutdatedStays ==
  ASSUME ClockInv, NEW x, Outdated(x),
         stamp' \in [Stores -> Nat], \A s \in Stores : stamp[s] <= stamp'[s]
  PROVE  Outdated(x)'
<1>1. PICK o \in DOMAIN x.fingerprint :
        /\ x.fingerprint[o].src \in Stores /\ x.fingerprint[o].modified \in Nat
        /\ x.fingerprint[o].modified < stamp[x.fingerprint[o].src]
  BY DEF Outdated
<1>2. x.fingerprint[o].modified < stamp'[x.fingerprint[o].src]
  BY <1>1 DEF ClockInv
<1> QED
  BY <1>1, <1>2 DEF Outdated
\* A store whose time is in the fingerprint got a later one.
LEMMA BecomesOutdated ==
  ASSUME ClockInv, NEW x, Current(x), NEW o \in DOMAIN IndexedStores,
         NEW s, s = IndexedStores[o], stamp'[s] \in Nat, stamp[s] < stamp'[s]
  PROVE  Outdated(x)'
<1>1. x.fingerprint = Fingerprint
  BY DEF Current
<1>2. /\ o \in DOMAIN x.fingerprint /\ x.fingerprint[o].src = s
      /\ x.fingerprint[o].modified = stamp[s]
  BY <1>1, FingerprintIs
<1>3. s \in Stores
  BY IndexedAreStores
<1>4. stamp[s] \in Nat
  BY <1>3 DEF ClockInv
<1> QED
  BY <1>2, <1>3, <1>4 DEF Outdated

LEMMA CurrentStays ==
  ASSUME NEW x, Current(x),
         \A p \in Paks : disk'[p].there = disk[p].there,
         disk'[Base] = disk[Base],
         \A p \in Paks : disk[p].there => disk'[p] = disk[p],
         stamp'[Base] = stamp[Base],
         \A p \in Paks : disk[p].there => stamp'[p] = stamp[p]
  PROVE  Current(x)'
<1>1. Fingerprint' = Fingerprint
  BY SameFingerprint
<1>2. Buildable' = Buildable /\ BuiltEntries' = BuiltEntries
  BY SameScan
<1> QED
  BY <1>1, <1>2 DEF Current

\* What an edit must do to a trusted index.
LEMMA TrustyStays ==
  ASSUME ClockInv, NEW x, Trusty(x), blind' = blind,
         stamp' \in [Stores -> Nat], \A s \in Stores : stamp[s] <= stamp'[s],
         Current(x) => Current(x)' \/ Outdated(x)'
  PROVE  Trusty(x)'
<1> SUFFICES ASSUME x.is = "index", x.knows >= blind'
             PROVE  Current(x)' \/ Outdated(x)'
  BY DEF Trusty
<1>1. Current(x) \/ Outdated(x)
  BY DEF Trusty
<1>2. Outdated(x) => Outdated(x)'
  BY OutdatedStays
<1> QED
  BY <1>1, <1>2

\* An edit that the fingerprint has no part in is known to be missed.
LEMMA BlindEdit ==
  ASSUME ClockInv, NEW x, x.knows \in -1..edits, edits' = edits + 1, blind' = edits'
  PROVE  Trusty(x)'
<1>1. ~(x.knows >= blind')
  BY DEF ClockInv
<1> QED
  BY <1>1 DEF Trusty

LEMMA DirKeepsTrust ==
  ASSUME MountsInv, ClockInv, NEW s \in Dirs, NEW n \in PathName, n # <<>>, NEW new,
         DirEdit(s, n, new)
  PROVE  /\ ClockInv'
         /\ \A x : x.knows \in -1..edits /\ Trusty(x) => Trusty(x)'
<1> DEFINE entry == (n \in DOMAIN FilesIn(s)) # (n \in DOMAIN new)
<1>1. /\ edits < MaxEdits /\ edits' = edits + 1 /\ clock' = clock
      /\ disk' = [disk EXCEPT ![s].files = Listing(s, new)]
      /\ stamp' = IF entry /\ Len(n) = 1 THEN [stamp EXCEPT ![s] = clock] ELSE stamp
      /\ blind' = IF s = Base /\ (~entry \/ Len(n) > 1 \/ stamp[s] = clock)
                  THEN edits' ELSE blind
  BY DEF DirEdit
<1> HIDE DEF entry
<1>2. disk \in [Stores -> Store] /\ stamp \in [Stores -> 0..clock] /\ clock \in Nat
      /\ edits \in Nat /\ MaxEdits \in Nat /\ blind \in 0..edits
  BY QuakeAssumption DEF MountsInv, FilesOK, ClockInv
<1>3. s \in Stores /\ \A p \in Paks : p # s /\ p \in Stores
  BY StoreFacts
<1>4. stamp' \in [Stores -> 0..clock] /\ \A t \in Stores : stamp[t] <= stamp'[t]
  BY <1>1, <1>2, <1>3
<1>5. ClockInv'
  BY <1>1, <1>2, <1>4 DEF ClockInv
<1>6. \A p \in Paks : disk'[p] = disk[p] /\ stamp'[p] = stamp[p]
  BY <1>1, <1>2, <1>3
<1>7. stamp' \in [Stores -> Nat]
  BY <1>2, <1>4
<1>8. ASSUME NEW x, x.knows \in -1..edits, Trusty(x)
      PROVE  Trusty(x)'
  <2>1. CASE s = Base /\ (~entry \/ Len(n) > 1 \/ stamp[s] = clock)
    <3>1. blind' = edits'
      BY <1>1, <2>1
    <3> QED
      BY <1>1, <1>8, <3>1, BlindEdit
  <2>2. CASE s # Base
    <3>1. disk'[Base] = disk[Base] /\ stamp'[Base] = stamp[Base]
      BY <1>1, <1>2, <1>3, <2>2, StoreFacts
    <3>2. Current(x) => Current(x)'
      BY <3>1, <1>6, CurrentStays
    <3>3. blind' = blind
      BY <1>1, <2>2
    <3> QED
      BY <3>2, <3>3, <1>4, <1>7, <1>8, TrustyStays
  <2>3. CASE s = Base /\ ~(~entry \/ Len(n) > 1 \/ stamp[s] = clock) /\ Len(n) = 1
    <3>1. blind' = blind /\ stamp'[Base] = clock /\ stamp[Base] < clock
      BY <1>1, <1>2, <1>3, <2>3
    <3>2. Current(x) => Outdated(x)'
      <4>1. 1 \in DOMAIN IndexedStores /\ IndexedStores[1] = Base
        BY IndexedTyped
      <4>2. stamp'[Base] \in Nat /\ stamp[Base] < stamp'[Base]
        BY <3>1, <1>2
      <4> QED
        BY <4>1, <4>2, BecomesOutdated
    <3> QED
      BY <3>1, <3>2, <1>4, <1>7, <1>8, TrustyStays
  <2>4. Len(n) = 1 \/ Len(n) > 1
    <3>1. Len(n) \in Nat \ {0}
      BY DEF PathName
    <3> QED
      BY <3>1
  <2> QED
    BY <2>1, <2>2, <2>3, <2>4
<1> QED
  BY <1>5, <1>8

LEMMA ArchiveKeepsTrust ==
  ASSUME MountsInv, ClockInv, NEW a \in Archives, NEW new \in Store, ArchiveEdit(a, new)
  PROVE  /\ ClockInv'
         /\ \A x : x.knows \in -1..edits /\ Trusty(x) => Trusty(x)'
<1> DEFINE entry == disk[a].there # new.there
           touched(s) == s = a \/ (entry /\ s = Base /\ a \in Paks)
<1>1. /\ edits < MaxEdits /\ edits' = edits + 1 /\ clock' = clock
      /\ disk' = [disk EXCEPT ![a] = new]
      /\ stamp' = [s \in Stores |-> IF touched(s) THEN clock ELSE stamp[s]]
      /\ blind' = IF a \in Paks /\ clock \in {stamp[a], stamp[Base]} THEN edits' ELSE blind
  BY DEF ArchiveEdit
<1>2. disk \in [Stores -> Store] /\ stamp \in [Stores -> 0..clock] /\ clock \in Nat
      /\ edits \in Nat /\ MaxEdits \in Nat /\ blind \in 0..edits
  BY QuakeAssumption DEF MountsInv, FilesOK, ClockInv
<1>3. a \in Stores /\ Base \in Stores /\ a # Base /\ \A p \in Paks : p \in Stores /\ p # Base
  BY StoreFacts
<1>4. \A s \in Stores : stamp'[s] = IF touched(s) THEN clock ELSE stamp[s]
  BY <1>1
<1>5. stamp' \in [Stores -> 0..clock] /\ \A t \in Stores : stamp[t] <= stamp'[t]
  BY <1>1, <1>2, <1>4
<1>6. ClockInv'
  BY <1>1, <1>2, <1>5 DEF ClockInv
<1>7. disk'[Base] = disk[Base] /\ (\A p \in Paks : p # a => disk'[p] = disk[p]) /\ disk'[a] = new
  BY <1>1, <1>2, <1>3
<1>8. stamp' \in [Stores -> Nat]
  BY <1>2, <1>5
<1>9. ASSUME NEW x, x.knows \in -1..edits, Trusty(x)
      PROVE  Trusty(x)'
  <2>1. CASE a \in Paks /\ clock \in {stamp[a], stamp[Base]}
    <3>1. blind' = edits'
      BY <1>1, <2>1
    <3> QED
      BY <1>1, <1>9, <3>1, BlindEdit
  <2>2. CASE ~(a \in Paks /\ clock \in {stamp[a], stamp[Base]})
    <3>1. blind' = blind
      BY <1>1, <2>2
    <3>2. ASSUME Current(x) PROVE Current(x)' \/ Outdated(x)'
      <4>1. CASE a \notin Paks
        <5>1. stamp'[Base] = stamp[Base] /\ \A p \in Paks : p # a /\ stamp'[p] = stamp[p]
          BY <1>3, <1>4, <4>1
        <5> QED
          BY <3>2, <5>1, <1>7, CurrentStays
      <4>2. CASE a \in Paks /\ entry
        <5>1. stamp'[Base] = clock /\ stamp[Base] < clock
          BY <1>2, <1>3, <1>4, <2>2, <4>2
        <5>2. stamp'[Base] \in Nat /\ stamp[Base] < stamp'[Base]
          BY <5>1, <1>2
        <5>3. 1 \in DOMAIN IndexedStores /\ IndexedStores[1] = Base
          BY IndexedTyped
        <5> QED
          BY <3>2, <5>2, <5>3, BecomesOutdated
      <4>3. CASE a \in Paks /\ ~entry /\ disk[a].there
        <5>1. stamp'[a] = clock /\ stamp[a] < clock
          <6>1. stamp'[a] = clock
            BY <1>3, <1>4
          <6>2. stamp[a] \in 0..clock /\ stamp[a] # clock
            BY <1>2, <1>3, <2>2, <4>3
          <6> QED
            BY <6>1, <6>2, <1>2
        <5>2. stamp'[a] \in Nat /\ stamp[a] < stamp'[a]
          BY <5>1, <1>2
        <5>3. PICK o \in DOMAIN IndexedStores : IndexedStores[o] = a
          BY IndexedTyped, <4>3
        <5> QED
          BY <3>2, <5>2, <5>3, BecomesOutdated
      <4>4. CASE a \in Paks /\ ~entry /\ ~disk[a].there
        <5>1. \A p \in Paks : disk[p].there => p # a
          BY <4>4
        <5>2. \A p \in Paks : disk'[p].there = disk[p].there
          BY <1>7, <4>4
        <5>3. stamp'[Base] = stamp[Base] /\ \A p \in Paks : p # a => stamp'[p] = stamp[p]
          BY <1>3, <1>4, <4>4
        <5> QED
          BY <3>2, <5>1, <5>2, <5>3, <1>7, CurrentStays
      <4> QED
        BY <4>1, <4>2, <4>3, <4>4
    <3> QED
      BY <3>1, <3>2, <1>5, <1>8, <1>9, TrustyStays
  <2> QED
    BY <2>1, <2>2
<1> QED
  BY <1>6, <1>9

LEMMA EditsKeepTrust ==
  ASSUME MountsInv, ClockInv, UserEdits
  PROVE  /\ ClockInv' /\ edits' \in {edits, edits + 1} /\ cached' = cached
         /\ \A x : x.knows \in -1..edits /\ Trusty(x) => Trusty(x)'
<1>1. ASSUME NEW s \in Dirs, NEW i \in DOMAIN Names[s],
             \/ \E d \in Contents : WriteFile(s, Names[s][i], d)
             \/ RemoveFile(s, Names[s][i])
      PROVE  /\ ClockInv' /\ edits' \in {edits, edits + 1} /\ cached' = cached
             /\ \A x : x.knows \in -1..edits /\ Trusty(x) => Trusty(x)'
  <2>1. PICK new : DirEdit(s, Names[s][i], new)
    BY <1>1 DEF WriteFile, RemoveFile
  <2>2. Names[s][i] \in PathName /\ Names[s][i] # <<>>
    <3>1. Names[s] \in Seq(PathName \ {<<>>})
      BY QuakeAssumption
    <3> QED
      BY <3>1
  <2>3. edits' = edits + 1 /\ cached' = cached
    BY <2>1 DEF DirEdit
  <2> QED
    BY <2>1, <2>2, <2>3, DirKeepsTrust
<1>2. ASSUME NEW a \in Archives,
             \/ \E p \in Packings[a] : Repack(a, p)
             \/ Damage(a)
             \/ Delete(a)
      PROVE  /\ ClockInv' /\ edits' \in {edits, edits + 1} /\ cached' = cached
             /\ \A x : x.knows \in -1..edits /\ Trusty(x) => Trusty(x)'
  <2>1. PICK new \in Store : ArchiveEdit(a, new)
    BY <1>2, NewArchives
  <2>2. edits' = edits + 1 /\ cached' = cached
    BY <2>1 DEF ArchiveEdit
  <2> QED
    BY <2>1, <2>2, ArchiveKeepsTrust
<1>3. ASSUME Tick
      PROVE  /\ ClockInv' /\ edits' \in {edits, edits + 1} /\ cached' = cached
             /\ \A x : x.knows \in -1..edits /\ Trusty(x) => Trusty(x)'
  <2>1. /\ clock < MaxClock /\ clock' = clock + 1 /\ disk' = disk /\ stamp' = stamp
        /\ edits' = edits /\ cached' = cached /\ blind' = blind
    BY <1>3 DEF Tick
  <2>2. clock \in Nat /\ MaxClock \in Nat /\ stamp \in [Stores -> 0..clock]
    BY QuakeAssumption DEF ClockInv
  <2>3. stamp' \in [Stores -> 0..clock']
    BY <2>1, <2>2
  <2>4. ClockInv'
    BY <2>1, <2>2, <2>3 DEF ClockInv
  <2>5. \A x : Current(x) => Current(x)'
    BY <2>1, CurrentStays
  <2>6. stamp' \in [Stores -> Nat] /\ \A s \in Stores : stamp[s] <= stamp'[s]
    BY <2>1, <2>2
  <2>7. \A x : Trusty(x) => Trusty(x)'
    BY <2>1, <2>5, <2>6, TrustyStays
  <2> QED
    BY <2>1, <2>4, <2>7
<1> QED
  BY <1>1, <1>2, <1>3 DEF UserEdits

\* A new index is the one a scan builds; one that is cut short knows of nothing.
LEMMA BuiltIsCurrent ==
  ASSUME Buildable
  PROVE  Current(Built) /\ Built.is = "index" /\ Built.knows = edits
BY DEF Built, Current

LEMMA CutsKnowNothing ==
  ASSUME NEW index, index.is = "index", NEW c \in CutsOf(index),
         index = [is |-> index.is, fingerprint |-> index.fingerprint,
                  entries |-> index.entries, knows |-> index.knows]
  PROVE  c.is \in {"unreadable", "index"} /\ c.knows \in {-1, 0}
         /\ (c.is = "index" => c.knows = -1)
<1>1. Unreadable.is = "unreadable" /\ Unreadable.knows = 0
  BY DEF Unreadable, NoIndex
<1>2. \A n : CutIndex(index, n).is = "index" /\ CutIndex(index, n).knows = -1
  BY DEF CutIndex
<1>3. c = Unreadable \/ \E n \in 0..(Len(index.entries) - 1) : c = CutIndex(index, n)
  BY DEF CutsOf
<1> QED
  BY <1>1, <1>2, <1>3

LEMMA IndexInit == QuakeInit => IndexInv
<1> SUFFICES ASSUME QuakeInit PROVE IndexInv
  OBVIOUS
<1>1. cached.is = "absent" /\ cached.knows = 0
  BY DEF QuakeInit, NoIndex
<1>2. ClockInv
  BY QuakeAssumption DEF QuakeInit, ClockInv
<1>3. edits = 0
  BY DEF QuakeInit
<1> QED
  BY <1>1, <1>2, <1>3 DEF IndexInv, Trusty

LEMMA IndexStep ==
  ASSUME MountsInv, IndexInv, [QuakeNext]_qvars
  PROVE  IndexInv'
<1>0. ClockInv /\ edits \in Nat /\ MaxEdits \in Nat
  BY QuakeAssumption DEF IndexInv, ClockInv
<1> DEFINE Idle == disk' = disk /\ stamp' = stamp /\ clock' = clock
                   /\ edits' = edits /\ blind' = blind
<1>1. CASE UserEdits
  <2>1. /\ ClockInv' /\ edits' \in {edits, edits + 1} /\ cached' = cached
        /\ \A x : x.knows \in -1..edits /\ Trusty(x) => Trusty(x)'
    BY <1>0, <1>1, EditsKeepTrust
  <2>2. PICK x : x = cached
    OBVIOUS
  <2>3. Trusty(x) /\ x.knows \in -1..edits
    BY <2>2 DEF IndexInv
  <2>4. Trusty(x)'
    BY <2>1, <2>3
  <2>5. cached' = x
    BY <2>1, <2>2
  <2>6. Trusty(cached)'
    BY <2>4, <2>5 DEF Trusty, Current, Outdated
  <2>7. cached'.knows \in -1..edits'
    BY <2>1, <2>2, <2>3, <1>0
  <2> QED
    BY <2>1, <2>2, <2>6, <2>7 DEF IndexInv
<1>2. ASSUME Idle, cached' = cached PROVE IndexInv'
  <2>1. ClockInv'
    BY <1>0, <1>2 DEF ClockInv
  <2>2. Fingerprint' = Fingerprint /\ Buildable' = Buildable /\ BuiltEntries' = BuiltEntries
    BY <1>2, SameScan, SameFingerprint
  <2>3. Trusty(cached)'
    BY <1>2, <2>2 DEF IndexInv, Trusty, Current, Outdated
  <2> QED
    BY <1>2, <2>1, <2>3 DEF IndexInv
<1>3. CASE QuakeIndexTool
  <2>1. Idle /\ cached' = Built /\ Buildable
    BY <1>3 DEF QuakeIndexTool
  <2>2. ClockInv'
    BY <1>0, <2>1 DEF ClockInv
  <2>3. Fingerprint' = Fingerprint /\ Buildable' = Buildable /\ BuiltEntries' = BuiltEntries
    BY <2>1, SameScan, SameFingerprint
  <2>4. Current(Built) /\ Built.is = "index" /\ Built.knows = edits
    BY <2>1, BuiltIsCurrent
  <2>5. Current(cached)'
    BY <2>1, <2>3, <2>4 DEF Current
  <2>6. cached'.knows \in -1..edits'
    BY <2>1, <2>4, <1>0
  <2> QED
    BY <2>1, <2>2, <2>4, <2>5, <2>6 DEF IndexInv, Trusty
<1>4. CASE QuakeIndexKilled
  <2>1. /\ edits < MaxEdits /\ edits' = edits + 1 /\ cached' \in CutsOf(Built)
        /\ stamp' = stamp /\ clock' = clock /\ blind' = blind /\ Buildable
    BY <1>4 DEF QuakeIndexKilled
  <2>2. ClockInv'
    BY <1>0, <2>1 DEF ClockInv
  <2>3. /\ cached'.is \in {"unreadable", "index"} /\ cached'.knows \in {-1, 0}
        /\ (cached'.is = "index" => cached'.knows = -1)
    <3>1. Built.is = "index"
          /\ Built = [is |-> Built.is, fingerprint |-> Built.fingerprint,
                      entries |-> Built.entries, knows |-> Built.knows]
      BY DEF Built
    <3> QED
      BY <2>1, <3>1, CutsKnowNothing
  <2>4. Trusty(cached)'
    <3>1. ~(-1 >= blind')
      BY <2>2 DEF ClockInv
    <3> QED
      BY <2>3, <3>1 DEF Trusty
  <2>5. cached'.knows \in -1..edits'
    BY <2>1, <2>3, <1>0
  <2> QED
    BY <2>2, <2>3, <2>4, <2>5 DEF IndexInv
<1>5. ASSUME NEW specs \in CommandLines, Launch(specs) PROVE IndexInv'
  BY <1>2, <1>5 DEF Launch
<1>6. CASE Quit
  BY <1>2, <1>6 DEF Quit
<1>7. CASE UNCHANGED qvars
  BY <1>2, <1>7 DEF qvars
<1> QED
  BY <1>1, <1>3, <1>4, <1>5, <1>6, <1>7 DEF QuakeNext

-------------------------------------------------------------------------------
(* What an index says of a key.  Its places are the files that have a key, *)
(* sorted by key, store and file.                                          *)
LEMMA ImageFinite ==
  ASSUME NEW S, IsFiniteSet(S), NEW f, DOMAIN f = S, f = [x \in S |-> f[x]]
  PROVE  IsFiniteSet({f[x] : x \in S})
<1> DEFINE T == {f[x] : x \in S}
<1>1. f \in [S -> T]
  OBVIOUS
<1>2. \A t \in T : \E x \in S : f[x] = t
  OBVIOUS
<1> HIDE DEF T
<1>3. f \in Surjection(S, T)
  BY <1>1, <1>2 DEF Surjection
<1>4. IsFiniteSet(T)
  BY <1>3, FS_Surjection
<1> QED
  BY <1>4 DEF T

LEMMA PlacesAre ==
  ASSUME NEW tables, NEW t
  PROVE  t \in Places(tables) <=>
           \E a \in DOMAIN KeyOrder, o \in DOMAIN tables :
             \E i \in Keyed(tables[o], KeyOrder[a]) : t = <<a, o, i>>
<1> DEFINE B == (DOMAIN KeyOrder) \X (DOMAIN tables)
           of(at) == {<<at[1], at[2], i>> : i \in Keyed(tables[at[2]], KeyOrder[at[1]])}
<1>1. Places(tables) = UNION {of(at) : at \in B}
  BY DEF Places
<1>2. \A a \in DOMAIN KeyOrder, o \in DOMAIN tables :
        <<a, o>> \in B /\ of(<<a, o>>) = {<<a, o, i>> : i \in Keyed(tables[o], KeyOrder[a])}
  OBVIOUS
<1>3. \A at \in B : \E a \in DOMAIN KeyOrder, o \in DOMAIN tables : at = <<a, o>>
  OBVIOUS
<1> HIDE DEF B, of
<1>4. t \in Places(tables) <=> \E at \in B : t \in of(at)
  BY <1>1
<1>5. (\E at \in B : t \in of(at)) <=>
        \E a \in DOMAIN KeyOrder, o \in DOMAIN tables : t \in of(<<a, o>>)
  BY <1>2, <1>3
<1> QED
  BY <1>2, <1>4, <1>5

LEMMA PlacesFinite ==
  ASSUME NEW tables \in Seq(Table)
  PROVE  IsFiniteSet(Places(tables))
<1> DEFINE B == (DOMAIN KeyOrder) \X (DOMAIN tables)
           mine(at) == Keyed(tables[at[2]], KeyOrder[at[1]])
           of(at) == {<<at[1], at[2], i>> : i \in mine(at)}
           F == {of(at) : at \in B}
           all == [at \in B |-> of(at)]
<1>1. IsFiniteSet(B)
  <2>1. KeyOrder \in Seq(PathName \ {<<>>})
    BY QuakeAssumption
  <2>2. IsFiniteSet(DOMAIN KeyOrder)
    BY <2>1, DomainFinite
  <2>3. IsFiniteSet(DOMAIN tables)
    BY DomainFinite
  <2> QED
    BY <2>2, <2>3, FS_Product
<1>2. ASSUME NEW at \in B PROVE IsFiniteSet(of(at))
  <2> DEFINE T == mine(at)
             g == [i \in T |-> <<at[1], at[2], i>>]
  <2>1. IsFiniteSet(T)
    <3>1. tables[at[2]] \in Table /\ T \in SUBSET (DOMAIN tables[at[2]])
      BY DEF Keyed
    <3>2. tables[at[2]] \in Seq([name : PathName, data : Contents])
      BY <3>1 DEF Table
    <3> HIDE DEF T
    <3> QED
      BY <3>1, <3>2, DomainFinite
  <2>2. of(at) = {g[i] : i \in T}
    OBVIOUS
  <2>3. DOMAIN g = T /\ g = [i \in T |-> g[i]]
    OBVIOUS
  <2> HIDE DEF T, g, of
  <2> QED
    BY <2>1, <2>2, <2>3, ImageFinite
<1>3. F = {all[at] : at \in B} /\ DOMAIN all = B /\ all = [at \in B |-> all[at]]
  OBVIOUS
<1>5. \A T \in F : IsFiniteSet(T)
  BY <1>2
<1> HIDE DEF all, B, of, F
<1>4. IsFiniteSet(F)
  <2>1. IsFiniteSet({all[at] : at \in B})
    BY <1>1, <1>3, ImageFinite
  <2> QED
    BY <2>1, <1>3
<1>6. Places(tables) = UNION F
  BY DEF Places, B, of, F
<1> QED
  BY <1>4, <1>5, <1>6, FS_UNION

LEMMA PlacesOrdered ==
  ASSUME NEW tables \in Seq(Table)
  PROVE  LET P == Places(tables)
         IN  Orders({p \in P \X P : Before(p[1], p[2])}, P)
<1> DEFINE P == Places(tables)
           R == {p \in P \X P : Before(p[1], p[2])}
<1>1. \A x, y \in P : <<x, y>> \in R <=> Before(x, y)
  OBVIOUS
<1>2. ASSUME NEW t \in P
      PROVE  t = <<t[1], t[2], t[3]>> /\ t[1] \in Nat /\ t[2] \in Nat /\ t[3] \in Nat
  <2>1. PICK a \in DOMAIN KeyOrder, o \in DOMAIN tables :
               \E i \in Keyed(tables[o], KeyOrder[a]) : t = <<a, o, i>>
    BY PlacesAre
  <2>2. PICK i \in Keyed(tables[o], KeyOrder[a]) : t = <<a, o, i>>
    BY <2>1
  <2>3. KeyOrder \in Seq(PathName \ {<<>>})
    BY QuakeAssumption
  <2>4. a \in Nat /\ o \in Nat
    BY <2>3
  <2>5. i \in Nat
    <3>1. tables[o] \in Table
      OBVIOUS
    <3> QED
      BY <3>1, <2>2, TableType DEF Keyed
  <2> QED
    BY <2>2, <2>4, <2>5
<1> HIDE DEF R, P
<1>3. \A x \in P : <<x, x>> \notin R
  BY <1>1, <1>2 DEF Before
<1>4. ASSUME NEW x \in P, NEW y \in P, x # y
      PROVE  <<x, y>> \in R \/ <<y, x>> \in R
  <2>1. x = <<x[1], x[2], x[3]>> /\ y = <<y[1], y[2], y[3]>>
    BY <1>2
  <2>2. x[1] # y[1] \/ x[2] # y[2] \/ x[3] # y[3]
    BY <2>1, <1>4
  <2>3. Before(x, y) \/ Before(y, x)
    BY <2>2, <1>2 DEF Before
  <2> QED
    BY <2>3, <1>1
<1>5. ASSUME NEW x \in P, NEW y \in P, NEW z \in P, <<x, y>> \in R, <<y, z>> \in R
      PROVE  <<x, z>> \in R
  <2>1. Before(x, y) /\ Before(y, z)
    BY <1>1, <1>5
  <2>2. Before(x, z)
    BY <2>1, <1>2 DEF Before
  <2> QED
    BY <2>2, <1>1
<1>6. Orders(R, P)
  BY <1>3, <1>4, <1>5 DEF Orders
<1> QED
  BY <1>6 DEF R, P

\* Of the files with a key the one of the first store is the first entry.
TellsOfFirst(x, k, stores, tables) ==
  /\ Indexed(x, k) <=> \E o \in DOMAIN tables : Keyed(tables[o], k) # {}
  /\ Indexed(x, k) =>
       \E o \in DOMAIN tables : \E i \in Keyed(tables[o], k) :
         /\ Which(x, k).src = stores[o]
         /\ Which(x, k).data = FirstOf(tables[o], tables[o][i].name)
         /\ \A u \in DOMAIN tables : u < o => Keyed(tables[u], k) = {}

LEMMA FirstEntry ==
  ASSUME NEW tables \in Seq(Table), NEW stores, NEW x, x.entries = Collected(stores, tables),
         NEW n \in DOMAIN KeyOrder, NEW k, k = KeyOrder[n]
  PROVE  TellsOfFirst(x, k, stores, tables)
<1> DEFINE P == Places(tables)
           R == {p \in P \X P : Before(p[1], p[2])}
           at == InOrder(P, R)
           N == Cardinality(P)
           entry(t) == EntryOf(t[2], stores[t[2]], tables[t[2]], t[3])
           e == x.entries
<1>1. IsFiniteSet(P) /\ Orders(R, P)
  BY PlacesFinite, PlacesOrdered
<1>2. /\ N \in Nat /\ at \in [1..N -> P]
      /\ \A t \in P : \E m \in 1..N : at[m] = t
      /\ \A i, j \in 1..N : <<at[i], at[j]>> \in R => i < j
  <2> HIDE DEF P, R
  <2> QED
    BY <1>1, InOrderLists
<1>3. e = [m \in DOMAIN at |-> entry(at[m])]
  BY DEF Collected
<1>4. \A a, b \in P : <<a, b>> \in R <=> Before(a, b)
  OBVIOUS
<1>5. ASSUME NEW a \in DOMAIN KeyOrder, NEW o \in DOMAIN tables,
             NEW i \in Keyed(tables[o], KeyOrder[a])
      PROVE  /\ entry(<<a, o, i>>).key = KeyOrder[a]
             /\ entry(<<a, o, i>>).src = stores[o]
             /\ entry(<<a, o, i>>).data = FirstOf(tables[o], tables[o][i].name)
  BY DEF EntryOf, Keyed
<1> HIDE DEF P, R, at, N, entry, e
<1>6. DOMAIN e = 1..N /\ \A m \in 1..N : e[m] = entry(at[m])
  BY <1>2, <1>3
<1>7. EntriesOf(x, k) = {m \in 1..N : entry(at[m]).key = k}
  BY <1>6 DEF EntriesOf, e
<1>8. EntriesOf(x, k) \in SUBSET Nat
  BY <1>7
<1>9. ASSUME NEW o \in DOMAIN tables, NEW i \in Keyed(tables[o], k)
      PROVE  \E m \in EntriesOf(x, k) : at[m] = <<n, o, i>>
  <2>1. <<n, o, i>> \in P
    BY PlacesAre DEF P
  <2>2. PICK m \in 1..N : at[m] = <<n, o, i>>
    BY <1>2, <2>1
  <2>3. entry(<<n, o, i>>).key = k
    BY <1>5
  <2>4. entry(at[m]).key = k
    BY <2>2, <2>3
  <2> QED
    BY <1>7, <2>2, <2>4
<1>10. ASSUME Indexed(x, k)
       PROVE  \E o \in DOMAIN tables : \E i \in Keyed(tables[o], k) :
                /\ Which(x, k).src = stores[o]
                /\ Which(x, k).data = FirstOf(tables[o], tables[o][i].name)
                /\ \A u \in DOMAIN tables : u < o => Keyed(tables[u], k) = {}
  <2> DEFINE m == Min(EntriesOf(x, k))
  <2>1. m \in EntriesOf(x, k) /\ \A j \in EntriesOf(x, k) : m <= j
    BY <1>8, <1>10, LeastOf DEF Indexed
  <2>2. Which(x, k) = e[m]
    BY DEF Which, e
  <2> HIDE DEF m
  <2>3. m \in 1..N /\ entry(at[m]).key = k /\ at[m] \in P
    BY <1>2, <1>7, <2>1
  <2>4. PICK a \in DOMAIN KeyOrder, o \in DOMAIN tables :
               \E i \in Keyed(tables[o], KeyOrder[a]) : at[m] = <<a, o, i>>
    BY <2>3, PlacesAre DEF P
  <2>5. PICK i \in Keyed(tables[o], KeyOrder[a]) : at[m] = <<a, o, i>>
    BY <2>4
  <2>6. KeyOrder[a] = k
    BY <1>5, <2>3, <2>5
  <2>7. Which(x, k).src = stores[o] /\ Which(x, k).data = FirstOf(tables[o], tables[o][i].name)
    BY <1>5, <1>6, <2>2, <2>3, <2>5
  <2>8. ASSUME NEW u \in DOMAIN tables, u < o, Keyed(tables[u], k) # {}
        PROVE  FALSE
    <3>1. PICK j \in Keyed(tables[u], k) : TRUE
      BY <2>8
    <3>2. <<a, u, j>> \in P
      BY <2>6, <3>1, PlacesAre DEF P
    <3>3. PICK w \in 1..N : at[w] = <<a, u, j>>
      BY <1>2, <3>2
    <3>4. w \in EntriesOf(x, k)
      <4>1. entry(<<a, u, j>>).key = k
        BY <1>5, <2>6, <3>1
      <4>2. entry(at[w]).key = k
        BY <3>3, <4>1
      <4> QED
        BY <1>7, <3>3, <4>2
    <3>5. Before(<<a, u, j>>, <<a, o, i>>)
      BY <2>8 DEF Before
    <3>6. w < m
      BY <1>2, <1>4, <2>3, <2>5, <3>2, <3>3, <3>5
    <3> QED
      BY <2>1, <2>3, <3>3, <3>4, <3>6, <1>2
  <2> QED
    BY <2>5, <2>6, <2>7, <2>8
<1>11. Indexed(x, k) <=> \E o \in DOMAIN tables : Keyed(tables[o], k) # {}
  BY <1>9, <1>10 DEF Indexed
<1> QED
  BY <1>10, <1>11 DEF TellsOfFirst

-------------------------------------------------------------------------------
(* A game of which the mounts are the quake directory's alone has mounted  *)
(* the stores the index is of, in the same order.                          *)
Aligned ==
  game.up /\ swapped = {} /\ Len(game.mounts) = Len(QuakeMounts) =>
    \A o \in DOMAIN IndexedStores :
      /\ game.mounts[o].point = VRoot
      /\ game.mounts[o].src = IndexedStores[o]
      /\ game.mounts[o].kind = IF o = 1 THEN "dir" ELSE "pak"

LEMMA QuakeMountsAre ==
  /\ Len(QuakeMounts) = Len(IndexedStores)
  /\ DOMAIN QuakeMounts = DOMAIN IndexedStores
  /\ \A o \in DOMAIN IndexedStores :
       /\ QuakeMounts[o].point = VRoot
       /\ QuakeMounts[o].src = IndexedStores[o]
       /\ QuakeMounts[o].kind = IF o = 1 THEN "dir" ELSE "pak"
<1> DEFINE X == [point : {VRoot}, kind : {"dir", "pak"}, src : {Base} \cup Paks]
           Y == {Base} \cup Paks
           P == PaksThere
           first == [point |-> VRoot, kind |-> "dir", src |-> Base]
           of(p) == [point |-> VRoot, kind |-> "pak", src |-> p]
           rest == [i \in DOMAIN P |-> of(P[i])]
<1>1. P \in Seq(Paks)
  BY PaksThereTyped
<1>2. IndexedStores = <<Base>> \o P /\ QuakeMounts = <<first>> \o rest
  BY DEF IndexedStores, QuakeMounts
<1>3. first \in X /\ \A p \in Paks : of(p) \in X
  OBVIOUS
<1> HIDE DEF P
<1>4. DOMAIN P = 1..Len(P) /\ Len(P) \in Nat /\ \A i \in DOMAIN P : P[i] \in Paks
  BY <1>1
<1>5. rest \in Seq(X) /\ Len(rest) = Len(P) /\ \A i \in 1..Len(P) : rest[i] = of(P[i])
  <2> HIDE DEF X, of
  <2>1. rest \in [1..Len(P) -> X]
    BY <1>3, <1>4
  <2> QED
    BY <2>1, <1>4
<1>6. P \in Seq(Y) /\ Base \in Y
  BY <1>1
<1>7. /\ Len(<<Base>> \o P) = Len(P) + 1 /\ (<<Base>> \o P)[1] = Base
      /\ \A i \in 1..Len(P) : (<<Base>> \o P)[i + 1] = P[i]
      /\ DOMAIN (<<Base>> \o P) = 1..(Len(P) + 1)
  <2> HIDE DEF Y
  <2> QED
    BY <1>4, <1>6
<1>8. /\ Len(<<first>> \o rest) = Len(P) + 1 /\ (<<first>> \o rest)[1] = first
      /\ \A i \in 1..Len(P) : (<<first>> \o rest)[i + 1] = rest[i]
      /\ DOMAIN (<<first>> \o rest) = 1..(Len(P) + 1)
  <2> HIDE DEF X, first, rest
  <2> QED
    BY <1>3, <1>4, <1>5
<1>9. \A i \in 1..Len(P) : QuakeMounts[i + 1] = of(IndexedStores[i + 1])
  BY <1>2, <1>5, <1>7, <1>8
<1>10. QuakeMounts[1] = first /\ IndexedStores[1] = Base
  BY <1>2, <1>7, <1>8
<1>11. ASSUME NEW o \in DOMAIN IndexedStores, o # 1
       PROVE  QuakeMounts[o] = of(IndexedStores[o])
  <2>1. o - 1 \in 1..Len(P) /\ o = (o - 1) + 1
    BY <1>2, <1>4, <1>7, <1>11
  <2> QED
    BY <2>1, <1>9
<1>12. /\ first.point = VRoot /\ first.kind = "dir" /\ first.src = Base
       /\ \A p : of(p).point = VRoot /\ of(p).kind = "pak" /\ of(p).src = p
  OBVIOUS
<1> HIDE DEF first, of
<1>13. \A o \in DOMAIN IndexedStores :
         /\ QuakeMounts[o].point = VRoot
         /\ QuakeMounts[o].src = IndexedStores[o]
         /\ QuakeMounts[o].kind = IF o = 1 THEN "dir" ELSE "pak"
  BY <1>10, <1>11, <1>12
<1>14. Len(QuakeMounts) = Len(IndexedStores) /\ DOMAIN QuakeMounts = DOMAIN IndexedStores
  BY <1>2, <1>7, <1>8
<1> QED
  BY <1>13, <1>14

LEMMA PathBelow ==
  ASSUME NEW k \in PathName \ {<<>>}, NEW m, m.point = VRoot
  PROVE  Under(m, VRoot \o k) /\ Rest(m, VRoot \o k) = k
<1> DEFINE X == DOMAIN Lower
           p == VRoot \o k
<1>1. VRoot \in PathName /\ k \in PathName
  BY QuakeAssumption
<1>2. VRoot \in Seq(X) /\ k \in Seq(X)
  BY <1>1 DEF PathName
<1> DEFINE a == VRoot
<1>3. a \in Seq(X) /\ p = a \o k /\ m.point = a
  BY <1>2
<1> HIDE DEF X, a
<1>4. /\ p \in Seq(X) /\ Len(p) = Len(a) + Len(k) /\ Len(a) \in Nat /\ Len(k) \in Nat
      /\ (\A i \in 1..Len(a) : p[i] = a[i]) /\ \A i \in 1..Len(k) : p[Len(a) + i] = k[i]
  BY <1>2, <1>3
<1> HIDE DEF p
<1>5. Under(m, p)
  <2>1. Len(a) <= Len(p)
    BY <1>4
  <2>2. p \in PathName /\ a \in PathName
    BY <1>3, <1>4 DEF PathName, X
  <2> QED
    BY <2>1, <2>2, <1>3, <1>4, Prefix DEF Under
<1>6. Rest(m, p) = k
  <2> DEFINE n == Len(a)
             r == SubSeq(p, n + 1, Len(p))
  <2>0. n \in Nat /\ n <= Len(p)
    BY <1>4
  <2>1. r \in Seq(X) /\ Len(r) = Len(p) - n /\ \A i \in 1..(Len(p) - n) : r[i] = p[n + i]
    <3> HIDE DEF n
    <3> QED
      BY <1>4, <2>0, Suffix
  <2>2. Rest(m, p) = r
    BY <1>3 DEF Rest
  <2> HIDE DEF r
  <2>3. Len(r) = Len(k)
    BY <2>1, <1>4
  <2>31. \A i \in 1..Len(r) : r[i] = k[i]
    BY <2>1, <2>3, <1>4
  <2>4. r = k
    BY <2>1, <2>3, <2>31, <1>2, SamePath
  <2> QED
    BY <2>2, <2>4
<1> QED
  BY <1>5, <1>6 DEF p

LEMMA IndexServed ==
  ASSUME MountsInv, Aligned
  PROVE  WhichIsServed
<1> SUFFICES ASSUME game.up, swapped = {}, Len(game.mounts) = Len(QuakeMounts),
                    NEW n \in DOMAIN KeyOrder, OneSpelling(KeyOrder[n])
             PROVE  LET k == KeyOrder[n]
                        r == Read(VRoot \o k)
                    IN  /\ Indexed(Built, k) <=> r.is = "data"
                        /\ r.is = "data" => /\ Which(Built, k).data = r.data
                                            /\ Which(Built, k).src = game.mounts[r.mount].src
  BY DEF WhichIsServed
<1> DEFINE k == KeyOrder[n]
           p == VRoot \o k
           S == IndexedStores
           tables == [o \in DOMAIN S |-> disk[S[o]].files]
<1>1. k \in PathName \ {<<>>} /\ Folded(k) = k
  <2>1. KeyOrder \in Seq(PathName \ {<<>>})
    BY QuakeAssumption
  <2> QED
    BY <2>1, QuakeAssumption
<1>2. DOMAIN S = 1..Len(S) /\ Len(S) \in Nat /\ \A o \in DOMAIN S : S[o] \in Stores
  BY IndexedTyped, IndexedAreStores
<1>3. DOMAIN game.mounts = DOMAIN S
  <2>1. game.mounts \in Seq(MountType)
    BY DEF MountsInv, FilesOK
  <2>2. DOMAIN game.mounts = 1..Len(game.mounts)
    BY <2>1
  <2> QED
    BY <2>2, <1>2, QuakeMountsAre
<1>4. \A o \in DOMAIN S :
        /\ game.mounts[o].point = VRoot /\ game.mounts[o].src = S[o]
        /\ game.mounts[o].kind = IF o = 1 THEN "dir" ELSE "pak"
  BY DEF Aligned
<1>5. \A o \in DOMAIN S : disk[S[o]].files \in Table
  BY <1>2 DEF MountsInv, FilesOK, Store
<1>6. tables \in Seq(Table)
  <2>1. tables \in [1..Len(S) -> Table]
    BY <1>2, <1>5
  <2> QED
    BY <2>1, <1>2
<1>7. DOMAIN tables = DOMAIN S /\ \A o \in DOMAIN S : tables[o] = disk[S[o]].files
  OBVIOUS
<1>8. Built.entries = Collected(S, tables)
  BY DEF Built, BuiltEntries
<1> HIDE DEF S, tables
<1>9. ASSUME NEW o \in DOMAIN S
      PROVE  /\ Under(game.mounts[o], p)
             /\ MountExists(game.mounts[o], p) <=> HasName(tables[o], k)
             /\ HasName(tables[o], k) =>
                  MountRead(game.mounts[o], p) = [is |-> "data", data |-> FirstOf(tables[o], k)]
  <2> DEFINE m == game.mounts[o]
  <2>1. Under(m, p) /\ Rest(m, p) = k /\ k # <<>>
    BY <1>1, <1>4, PathBelow
  <2>2. m \in MountType /\ Kept(m)
    BY <1>3, MountOf
  <2>3. m.src = S[o] /\ tables[o] = disk[m.src].files
    BY <1>4, <1>7
  <2>4. CASE m.kind = "dir"
    <3>1. MountExists(m, p) <=> HasName(tables[o], k)
      BY <2>1, <2>3, <2>4 DEF MountExists
    <3>2. HasName(tables[o], k) => MountRead(m, p) = Found(FirstOf(tables[o], k))
      BY <2>1, <2>3, <2>4 DEF MountRead
    <3> QED
      BY <2>1, <3>1, <3>2 DEF Found
  <2>5. CASE m.kind = "pak"
    <3>0. m.table = tables[o]
      BY <2>2, <2>3, <2>5 DEF Kept
    <3>1. MountExists(m, p) <=> HasName(tables[o], k)
      BY <2>1, <3>0, <2>5 DEF MountExists
    <3>2. HasName(tables[o], k) => MountRead(m, p) = Found(FirstOf(tables[o], k))
      BY <2>1, <3>0, <2>5 DEF MountRead
    <3> QED
      BY <2>1, <3>1, <3>2 DEF Found
  <2> QED
    BY <2>4, <2>5, <1>4
<1>10. ASSUME NEW o \in DOMAIN S
       PROVE  /\ Keyed(tables[o], k) # {} <=> HasName(tables[o], k)
              /\ \A i \in Keyed(tables[o], k) : tables[o][i].name = k
  <2>1. \A i \in DOMAIN tables[o] : Folded(tables[o][i].name) = k => tables[o][i].name = k
    BY <1>7 DEF OneSpelling, S
  <2> HIDE DEF k
  <2>2. Folded(k) = k
    BY <1>1 DEF k
  <2> QED
    BY <2>1, <2>2 DEF Keyed, HasName
<1>11. Having(p) = {o \in DOMAIN S : HasName(tables[o], k)}
  BY <1>3, <1>9 DEF Having
<1>12. /\ Indexed(Built, k) <=> \E o \in DOMAIN S : Keyed(tables[o], k) # {}
       /\ Indexed(Built, k) =>
            \E o \in DOMAIN S : \E i \in Keyed(tables[o], k) :
              /\ Which(Built, k).src = S[o]
              /\ Which(Built, k).data = FirstOf(tables[o], tables[o][i].name)
              /\ \A u \in DOMAIN S : u < o => Keyed(tables[u], k) = {}
  <2> DEFINE x == Built
  <2>1. x.entries = Collected(S, tables)
    BY <1>8
  <2>2. k = KeyOrder[n]
    OBVIOUS
  <2> HIDE DEF x, k
  <2>3. TellsOfFirst(x, k, S, tables)
    BY <2>1, <2>2, <1>6, FirstEntry
  <2>4. DOMAIN tables = DOMAIN S
    BY <1>7
  <2> QED
    BY <2>3, <2>4 DEF x, TellsOfFirst
<1> HIDE DEF k, p
<1>13. CASE Having(p) = {}
  <2>1. Read(p).is = "none" /\ ~Indexed(Built, k)
    BY <1>10, <1>11, <1>12, <1>13, ReadIsFirst
  <2> QED
    BY <2>1 DEF k, p
<1>14. CASE Having(p) # {}
  <2> DEFINE f == Min(Having(p))
  <2>1. /\ f \in Having(p) /\ (\A j \in Having(p) : f <= j)
        /\ Read(p) = [is |-> MountRead(game.mounts[f], p).is,
                      data |-> MountRead(game.mounts[f], p).data, mount |-> f]
    BY <1>14, ReadIsFirst
  <2> HIDE DEF f
  <2>2. f \in DOMAIN S /\ HasName(tables[f], k)
    BY <1>11, <2>1
  <2>3. Read(p).is = "data" /\ Read(p).data = FirstOf(tables[f], k) /\ Read(p).mount = f
    <3>1. MountRead(game.mounts[f], p) = [is |-> "data", data |-> FirstOf(tables[f], k)]
      BY <1>9, <2>2
    <3>2. /\ Read(p).is = MountRead(game.mounts[f], p).is
          /\ Read(p).data = MountRead(game.mounts[f], p).data
          /\ Read(p).mount = f
      BY <2>1
    <3> QED
      BY <3>1, <3>2
  <2>4. Indexed(Built, k)
    BY <1>10, <1>12, <2>2
  <2>5. PICK o \in DOMAIN S : \E i \in Keyed(tables[o], k) :
              /\ Which(Built, k).src = S[o]
              /\ Which(Built, k).data = FirstOf(tables[o], tables[o][i].name)
              /\ \A u \in DOMAIN S : u < o => Keyed(tables[u], k) = {}
    BY <1>12, <2>4
  <2>6. PICK i \in Keyed(tables[o], k) :
              /\ Which(Built, k).src = S[o]
              /\ Which(Built, k).data = FirstOf(tables[o], tables[o][i].name)
              /\ \A u \in DOMAIN S : u < o => Keyed(tables[u], k) = {}
    BY <2>5
  <2>7. o \in Having(p) /\ tables[o][i].name = k
    BY <1>10, <1>11, <2>6
  <2>8. f <= o /\ ~(f < o)
    BY <1>10, <2>1, <2>2, <2>6, <2>7
  <2>9. f = o
    BY <2>8, <2>2, <1>2
  <2>10. Which(Built, k).data = Read(p).data /\ Which(Built, k).src = game.mounts[f].src
    BY <1>4, <2>2, <2>3, <2>6, <2>7, <2>9
  <2> QED
    BY <2>3, <2>4, <2>10 DEF k, p
<1> QED
  BY <1>13, <1>14

LEMMA AlignedStays ==
  ASSUME MountsInv, Aligned, swapped' = swapped, game' = game,
         \A p \in Paks : disk'[p].there = disk[p].there
  PROVE  Aligned'
<1>1. PakOrder \in Seq(Paks)
  BY QuakeAssumption
<1>2. {i \in DOMAIN PakOrder : disk'[PakOrder[i]].there}
        = {i \in DOMAIN PakOrder : disk[PakOrder[i]].there}
  BY <1>1
<1>3. PaksThere' = PaksThere
  BY <1>2 DEF PaksThere
<1>4. IndexedStores' = IndexedStores /\ QuakeMounts' = QuakeMounts
  BY <1>3 DEF IndexedStores, QuakeMounts
<1> QED
  BY <1>4 DEF Aligned

LEMMA LaunchAligns ==
  ASSUME MountsInv, NEW specs \in CommandLines, Launch(specs)
  PROVE  Aligned'
<1> DEFINE all == specs \o QuakeMounts
           of(x) == Mount(x.point, x.kind, x.src)
<1>1. specs \in Seq(MountSpec) /\ QuakeMounts \in Seq(MountSpec)
  BY QuakeAssumption, QuakeMountsTyped
<1>2. game'.mounts = [i \in DOMAIN all |-> of(all[i])] /\ disk' = disk
  BY DEF Launch
<1>3. DOMAIN all = 1..Len(all) /\ Len(all) = Len(specs) + Len(QuakeMounts)
      /\ Len(specs) \in Nat /\ Len(QuakeMounts) \in Nat /\ Len(all) \in Nat
  BY <1>1
<1>4. specs = <<>> => all = QuakeMounts
  BY <1>1
<1>5. IndexedStores' = IndexedStores /\ QuakeMounts' = QuakeMounts
  BY <1>2 DEF IndexedStores, QuakeMounts, PaksThere
<1> SUFFICES ASSUME Len(game'.mounts) = Len(QuakeMounts), NEW o \in DOMAIN IndexedStores
             PROVE  /\ game'.mounts[o].point = VRoot
                    /\ game'.mounts[o].src = IndexedStores[o]
                    /\ game'.mounts[o].kind = IF o = 1 THEN "dir" ELSE "pak"
  BY <1>5 DEF Aligned
<1>6. Len(game'.mounts) = Len(all)
  <2> HIDE DEF all, of
  <2> QED
    BY <1>2, <1>3
<1>7. specs = <<>>
  BY <1>1, <1>3, <1>6
<1>8. all = QuakeMounts /\ o \in DOMAIN all
  BY <1>4, <1>7, QuakeMountsAre
<1>9. game'.mounts[o] = of(QuakeMounts[o])
  BY <1>2, <1>8
<1>10. \A x : of(x).point = x.point /\ of(x).kind = x.kind /\ of(x).src = x.src
  BY DEF Mount
<1> HIDE DEF of
<1> QED
  BY <1>9, <1>10, QuakeMountsAre

LEMMA EditsKeepAligned ==
  ASSUME MountsInv, Aligned, UserEdits
  PROVE  Aligned'
<1>1. ASSUME NEW s \in Dirs, NEW i \in DOMAIN Names[s],
             \/ \E d \in Contents : WriteFile(s, Names[s][i], d)
             \/ RemoveFile(s, Names[s][i])
      PROVE  Aligned'
  <2>1. PICK new : DirEdit(s, Names[s][i], new)
    BY <1>1 DEF WriteFile, RemoveFile
  <2>2. disk' = [disk EXCEPT ![s].files = Listing(s, new)] /\ game' = game /\ swapped' = swapped
    BY <2>1 DEF DirEdit
  <2>3. disk \in [Stores -> Store] /\ \A p \in Paks : p # s /\ p \in Stores
    BY StoreFacts DEF MountsInv, FilesOK
  <2>4. \A p \in Paks : disk'[p] = disk[p]
    BY <2>2, <2>3
  <2> QED
    BY <2>2, <2>4, AlignedStays
<1>2. ASSUME NEW a \in Archives,
             \/ \E p \in Packings[a] : Repack(a, p)
             \/ Damage(a)
             \/ Delete(a)
      PROVE  Aligned'
  <2>1. PICK new \in Store : ArchiveEdit(a, new)
    BY <1>2, NewArchives
  <2>2. swapped' # {}
    BY <2>1 DEF ArchiveEdit
  <2> QED
    BY <2>2 DEF Aligned
<1>3. CASE Tick
  BY <1>3, AlignedStays DEF Tick
<1> QED
  BY <1>1, <1>2, <1>3 DEF UserEdits

LEMMA AlignedStep == MountsInv /\ Aligned /\ [QuakeNext]_qvars => Aligned'
<1> SUFFICES ASSUME MountsInv, Aligned, [QuakeNext]_qvars PROVE Aligned'
  OBVIOUS
<1>1. CASE UserEdits
  BY <1>1, EditsKeepAligned
<1>2. ASSUME NEW specs \in CommandLines, Launch(specs) PROVE Aligned'
  BY <1>2, LaunchAligns
<1>3. CASE Quit
  BY <1>3 DEF Quit, Aligned, NoGame
<1>4. CASE QuakeIndexTool
  BY <1>4, AlignedStays DEF QuakeIndexTool
<1>5. CASE QuakeIndexKilled
  BY <1>5, AlignedStays DEF QuakeIndexKilled
<1>6. CASE UNCHANGED qvars
  BY <1>6, AlignedStays DEF qvars
<1> QED
  BY <1>1, <1>2, <1>3, <1>4, <1>5, <1>6 DEF QuakeNext

LEMMA QuakeTyped == MountsInv /\ IndexInv => QuakeTypeOK
<1> SUFFICES ASSUME MountsInv, IndexInv PROVE QuakeTypeOK
  OBVIOUS
<1>1. ASSUME NEW s \in Stores
      PROVE  /\ disk[s].there \in BOOLEAN /\ disk[s].ok \in BOOLEAN
             /\ \A i \in DOMAIN disk[s].files : disk[s].files[i].data \in Contents
  <2>1. disk[s] \in Store
    BY DEF MountsInv, FilesOK
  <2>2. disk[s].there \in BOOLEAN /\ disk[s].ok \in BOOLEAN /\ disk[s].files \in Table
    BY <2>1 DEF Store
  <2> QED
    BY <2>2, TableType
<1>2. /\ clock \in 0..MaxClock /\ edits \in 0..MaxEdits /\ MaxClock \in Nat /\ MaxEdits \in Nat
      /\ blind \in 0..edits /\ stamp \in [Stores -> 0..clock]
  BY QuakeAssumption DEF IndexInv, ClockInv
<1>3. stamp \in [Stores -> 0..MaxClock] /\ blind \in 0..MaxEdits
  BY <1>2
<1>4. game.up \in BOOLEAN /\ (~game.up => game.mounts = <<>>) /\ swapped \subseteq Archives
  BY DEF MountsInv, FilesOK
<1> QED
  BY <1>1, <1>2, <1>3, <1>4 DEF QuakeTypeOK, IndexInv

(* What an accepted index file says is what a scan would say, but for the  *)
(* changes the fingerprint has no part in, and what a scan says of a key   *)
(* is what the game serves; the state is typed (quake_index.rs:155, 198,   *)
(* 456, 647; vfs.rs:267).                                                  *)
THEOREM IndexTellsOfTheFiles == QuakeSpec => []IndexTells
<1> DEFINE IInv == MountsInv /\ IndexInv /\ Aligned
<1>1. QuakeInit => IInv
  <2>1. QuakeInit => Aligned
    BY DEF QuakeInit, NoGame, Aligned
  <2> QED
    BY <2>1, MountsInit, IndexInit
<1>2. IInv /\ [QuakeNext]_qvars => IInv'
  BY MountsStep, IndexStep, AlignedStep
<1>3. IInv => IndexTells
  BY QuakeTyped, TrustyIsFresh, IndexServed DEF IndexTells
<1> HIDE DEF IInv
<1> QED
  BY <1>1, <1>2, <1>3, PTL DEF QuakeSpec

\* The last of some places of a sequence is one of them.
LEMMA GreatestIsIn ==
  ASSUME NEW n \in Nat, NEW S, S \subseteq 1..n, S # {}
  PROVE  Max(S) \in S /\ \A y \in S : Max(S) >= y
<1> DEFINE T == {n - i : i \in S}
           R == OpToRel(<, Nat)
<1>1. \E x \in T : \A y \in T : ~(<<y, x>> \in R)
  <2>1. IsWellFoundedOn(R, Nat)
    BY NatLessThanWellFounded
  <2>2. T \subseteq Nat /\ T # {}
    <3> HIDE DEF R
    <3>1. \A i \in S : i \in Int /\ n - i \in Nat
      OBVIOUS
    <3>2. T \subseteq Nat
      BY <3>1, Zenon
    <3>3. T # {}
      BY Zenon
    <3> QED
      BY <3>2, <3>3
  <2> HIDE DEF T, R
  <2> QED
    BY <2>1, <2>2, WFMin
<1>2. \E x \in S : \A y \in S : x >= y
  <2>1. PICK x \in T : \A y \in T : ~(<<y, x>> \in R)
    BY <1>1
  <2>2. PICK i \in S : x = n - i
    OBVIOUS
  <2>3. ASSUME NEW y \in S PROVE i >= y
    <3>1. n - y \in T /\ n - y \in Nat /\ n - i \in Nat
      OBVIOUS
    <3>2. ~(<<n - y, n - i>> \in R)
      BY <2>1, <2>2, <3>1
    <3>3. ~(n - y < n - i)
      BY <3>1, <3>2 DEF OpToRel
    <3> QED
      BY <3>3
  <2> QED
    BY <2>3
<1> QED
  BY <1>2 DEF Max

-------------------------------------------------------------------------------
(* The content tools.  What a build collects, while nothing is edited, is  *)
(* true of the files, and so is the manifest it leaves; the build that     *)
(* settled last has left what the next one would collect.                  *)
Busy == build.pc # "idle"
Wrote == build.pc \in {"index", "manifest"}

IndexShape(x) ==
  x = [is |-> x.is, fingerprint |-> x.fingerprint, entries |-> x.entries, knows |-> x.knows]

TreeInv ==
  /\ IndexShape(cached)
  /\ levels \in [Layers -> [NameSet -> LevelToml]]
  /\ files \in [Layers -> [Files -> Contents \cup {0}]]
  /\ build = [pc |-> build.pc, quake |-> build.quake, inputs |-> build.inputs,
              index |-> build.index, previous |-> build.previous, ran |-> build.ran,
              at |-> build.at, same |-> build.same]
  /\ BuildTypeOK
  /\ Busy => build.at \in -1..edits
  /\ ~Busy => build.same = FALSE

\* An index a build works with.
Served(x) == x.is = "index" /\ x.knows \in -1..edits /\ Trusty(x) /\ IndexShape(x)

BuildIndexInv ==
  \A x : Busy /\ x = build.index => IF build.quake THEN Served(x) ELSE x = NoIndex

OutputInv ==
  /\ manifest.is = "whole" => OutputOfManifest
  /\ build.pc = "stage" => ~build.ran /\ (manifest = build.previous \/ output.is = "none")
  /\ Wrote /\ build.ran =>
       output.is = "none" \/ output = [is |-> "whole", ids |-> Ids(build.inputs)]
  /\ Wrote /\ ~build.ran =>
       output.is = "none" \/ (manifest.is = "whole" /\ manifest.inputs = build.inputs)

\* The hashes are those of the files.
InputsTrue(inputs, knows) ==
  \A i \in inputs :
     /\ i.id \in LevelSet => i.level = levels[ResolveLevel(i.id)][i.id]
     /\ i.id \in Files => i.data = files[ResolveFile(i.id)][i.id]
     /\ i.alg = "quake_index" /\ knows >= blind =>
           /\ Indexed(Built, MapOf[i.id])
           /\ i.data = Which(Built, MapOf[i.id]).data

HashesInv ==
  /\ \A i, k : i = build.inputs /\ k = build.index.knows /\ Busy /\ build.at = edits
                 => InputsTrue(i, k)
  /\ \A i, k : i = manifest.inputs /\ k = manifest.knows
                 /\ manifest.is = "whole" /\ settled.edits = edits => InputsTrue(i, k)

\* A build that nothing has overtaken.
FreshInv ==
  Busy /\ build.at = edits =>
    /\ \A x : x = build.index => build.inputs = CollectInputs(x)
    /\ build.quake => build.index.fingerprint = Fingerprint
    /\ build.pc = "manifest" /\ build.quake => cached = build.index
    /\ Wrote => output.is # "none"

\* What the last build has left, while nothing is edited.
SettledInv ==
  settled.edits = edits =>
    /\ manifest.is = "whole" /\ output.is # "none"
    /\ \A x : x = (IF settled.quake THEN cached ELSE NoIndex)
                => manifest.inputs = CollectInputs(x)
    /\ settled.quake => Accepted
    /\ Busy /\ settled.quake /\ build.quake => build.index = cached

SkipInv ==
  Busy /\ build.same /\ settled.edits # -1 =>
    /\ ~build.ran
    /\ build.pc = "stage" => /\ build.previous.is = "whole"
                             /\ build.previous.inputs = build.inputs
                             /\ output.is # "none"

BuildInv ==
  /\ MountsInv /\ IndexInv
  /\ TreeInv /\ BuildIndexInv /\ OutputInv /\ HashesInv /\ FreshInv /\ SettledInv /\ SkipInv

\* What was read does not change while files, times and changes stay.
LEMMA QuietTree ==
  ASSUME levels' = levels, files' = files
  PROVE  /\ \A l : ResolveLevel(l)' = ResolveLevel(l)
         /\ \A k : ResolveFile(k)' = ResolveFile(k)
         /\ \A x : CollectInputs(x)' = CollectInputs(x)
<1>1. \A l : ResolveLevel(l)' = ResolveLevel(l)
  BY DEF ResolveLevel
<1>2. \A k : ResolveFile(k)' = ResolveFile(k)
  BY DEF ResolveFile
<1>3. /\ Discovered' = Discovered /\ DiscoveryFails' = DiscoveryFails
      /\ \A l : FoundAt(l)' = FoundAt(l)
  <2>1. \A layer : LevelsIn(layer)' = LevelsIn(layer)
    BY DEF LevelsIn
  <2>2. \A layer : KeysIn(layer)' = KeysIn(layer)
    BY <2>1 DEF KeysIn
  <2>3. \A layer, k : NameFor(layer, k)' = NameFor(layer, k)
    BY <2>1 DEF NameFor
  <2>4. DiscoveredKeys' = DiscoveredKeys /\ DiscoveryFails' = DiscoveryFails
    BY <2>2 DEF DiscoveredKeys, DiscoveryFails
  <2>5. Discovered' = Discovered
    BY <2>2, <2>3, <2>4 DEF Discovered
  <2> QED
    BY <2>4, <2>5 DEF FoundAt
<1>4. ConfigKeys' = ConfigKeys
  BY DEF ConfigKeys
<1>5. ASSUME NEW k, NEW x PROVE InputOf(k, x)' = InputOf(k, x)
  <2>1. CASE k \in LevelSet
    BY <1>1, <2>1 DEF InputOf
  <2>2. CASE k \notin LevelSet /\ k \in Maps
    BY <2>2 DEF InputOf
  <2>3. CASE k \notin LevelSet /\ k \notin Maps
    BY <1>2, <2>3 DEF InputOf
  <2> QED
    BY <2>1, <2>2, <2>3
<1>6. ASSUME NEW x PROVE CollectInputs(x)' = CollectInputs(x)
  <2> DEFINE found == {FoundAt(l) : l \in DOMAIN Discovered}
             keys == DOMAIN Discovered \cup ConfigKeys \cup UNION {Dependencies(m) : m \in found}
             inputs == UNION {InputOf(k, x) : k \in keys \ {BadKey}}
  <2>1. found' = found
    BY <1>3
  <2>2. keys' = keys
    <3> HIDE DEF found
    <3>1. {Dependencies(m) : m \in found}' = {Dependencies(m) : m \in found}
      BY <2>1 DEF Dependencies
    <3> QED
      BY <1>3, <1>4, <3>1
  <2>3. inputs' = inputs
    <3> HIDE DEF keys
    <3> QED
      BY <2>2, <1>5
  <2>4. CollectInputs(x) = IF \/ DiscoveryFails
                              \/ \E m \in found : m.is = "bad"
                              \/ BadKey \in ConfigKeys
                              \/ Failure \subseteq inputs
                           THEN Failure ELSE inputs
    BY DEF CollectInputs
  <2>5. CollectInputs(x)' = IF \/ DiscoveryFails'
                               \/ \E m \in found' : m.is = "bad"
                               \/ BadKey \in ConfigKeys'
                               \/ Failure \subseteq inputs'
                            THEN Failure ELSE inputs'
    BY DEF CollectInputs
  <2> HIDE DEF found, keys, inputs
  <2> QED
    BY <1>3, <1>4, <2>1, <2>3, <2>4, <2>5
<1> QED
  BY <1>1, <1>2, <1>6

LEMMA QuietDisk ==
  ASSUME disk' = disk, stamp' = stamp, blind' = blind
  PROVE  /\ Fingerprint' = Fingerprint
         /\ \A x : Trusty(x) => Trusty(x)'
<1>1. Fingerprint' = Fingerprint /\ Buildable' = Buildable /\ BuiltEntries' = BuiltEntries
  BY SameScan, SameFingerprint
<1> QED
  BY <1>1 DEF Trusty, Current, Outdated

LEMMA QuietFiles ==
  ASSUME disk' = disk, stamp' = stamp, edits' = edits, blind' = blind,
         levels' = levels, files' = files
  PROVE  /\ Built' = Built
         /\ \A i, k : InputsTrue(i, k) => InputsTrue(i, k)'
<1>1. Fingerprint' = Fingerprint /\ Buildable' = Buildable /\ BuiltEntries' = BuiltEntries
  BY SameScan, SameFingerprint
<1>2. Built' = Built
  BY <1>1 DEF Built
<1>3. ASSUME NEW i, NEW k, InputsTrue(i, k) PROVE InputsTrue(i, k)'
  BY <1>2, <1>3, QuietTree DEF InputsTrue, Indexed, Which, EntriesOf
<1> QED
  BY <1>2, <1>3

\* What was collected without a failure is what the resolvers and the index say.
LEMMA InputIs ==
  ASSUME NEW index, NEW k, NEW i \in InputOf(k, index), i.alg # "error"
  PROVE  /\ i.id = k
         /\ k \in LevelSet => i.level = levels[ResolveLevel(k)][k]
         /\ k \in Files => i.data = files[ResolveFile(k)][k]
         /\ i.alg = "quake_index" =>
              /\ index.is = "index" /\ Indexed(index, MapOf[k])
              /\ i.data = Which(index, MapOf[k]).data
<1>0. LevelSet \cap Files = {} /\ Maps \cap (LevelSet \cup Files) = {}
  BY ContentAssumption
<1>1. i \notin Failure
  BY DEF Failure, Input
<1>2. CASE k \in LevelSet
  <2>1. i = [id |-> k, alg |-> "xxh64", level |-> levels[ResolveLevel(k)][k], data |-> 0,
             from |-> ResolveLevel(k)]
    BY <1>1, <1>2 DEF InputOf, Input
  <2> QED
    BY <1>0, <1>2, <2>1
<1>3. CASE k \notin LevelSet /\ k \in Maps
  <2>1. \/ /\ index.is = "index" /\ Indexed(index, MapOf[k])
           /\ i = [id |-> k, alg |-> "quake_index", level |-> NoLevel,
                   data |-> Which(index, MapOf[k]).data, from |-> "quake1"]
        \/ i = [id |-> k, alg |-> "missing", level |-> NoLevel, data |-> 0, from |-> "quake1"]
    BY <1>1, <1>3 DEF InputOf, Input
  <2> QED
    BY <1>0, <1>3, <2>1
<1>4. CASE k \notin LevelSet /\ k \notin Maps
  <2>1. i = [id |-> k, alg |-> "xxh64", level |-> NoLevel, data |-> files[ResolveFile(k)][k],
             from |-> ResolveFile(k)]
    BY <1>1, <1>4 DEF InputOf, Input
  <2> QED
    BY <1>0, <1>4, <2>1
<1> QED
  BY <1>2, <1>3, <1>4

LEMMA FailureIs ==
  ASSUME NEW index, NEW k, NEW i \in InputOf(k, index), i.alg = "error"
  PROVE  /\ i \in Failure /\ InputOf(k, index) = Failure
         /\ k \in LevelSet => ResolveLevel(k) = "none"
         /\ k \in Maps \ LevelSet => index.is = "index" /\ ~Indexed(index, MapOf[k])
         /\ k \notin LevelSet \cup Maps => ResolveFile(k) = "none"
<1>1. ~(i \in Input(k, "xxh64", levels[ResolveLevel(k)][k], 0, ResolveLevel(k)))
  BY DEF Input
<1>2. ~(i \in Input(k, "missing", NoLevel, 0, "quake1"))
  BY DEF Input
<1>3. ~(i \in Input(k, "quake_index", NoLevel, Which(index, MapOf[k]).data, "quake1"))
  BY DEF Input
<1>4. ~(i \in Input(k, "xxh64", NoLevel, files[ResolveFile(k)][k], ResolveFile(k)))
  BY DEF Input
<1>5. CASE k \in LevelSet
  BY <1>1, <1>5 DEF InputOf
<1>6. CASE k \notin LevelSet /\ k \in Maps
  BY <1>2, <1>3, <1>6 DEF InputOf
<1>7. CASE k \notin LevelSet /\ k \notin Maps
  BY <1>4, <1>7 DEF InputOf
<1> QED
  BY <1>5, <1>6, <1>7

LEMMA CollectedTrue ==
  ASSUME NEW index, CollectInputs(index) # Failure,
         index.is = "index" /\ index.knows >= blind => index.entries = BuiltEntries
  PROVE  InputsTrue(CollectInputs(index), index.knows)
<1> DEFINE found == {FoundAt(l) : l \in DOMAIN Discovered}
           keys == DOMAIN Discovered \cup ConfigKeys \cup UNION {Dependencies(m) : m \in found}
           inputs == UNION {InputOf(k, index) : k \in keys \ {BadKey}}
<1>1. CollectInputs(index) = inputs /\ ~(Failure \subseteq inputs)
  BY DEF CollectInputs
<1> HIDE DEF keys
<1>2. ASSUME NEW i \in inputs
      PROVE  /\ i.id \in LevelSet => i.level = levels[ResolveLevel(i.id)][i.id]
             /\ i.id \in Files => i.data = files[ResolveFile(i.id)][i.id]
             /\ i.alg = "quake_index" /\ index.knows >= blind =>
                   /\ Indexed(Built, MapOf[i.id])
                   /\ i.data = Which(Built, MapOf[i.id]).data
  <2>1. PICK k \in keys \ {BadKey} : i \in InputOf(k, index)
    OBVIOUS
  <2>2. i.alg # "error"
    BY <1>1, <2>1, FailureIs
  <2>3. /\ i.id = k
        /\ k \in LevelSet => i.level = levels[ResolveLevel(k)][k]
        /\ k \in Files => i.data = files[ResolveFile(k)][k]
        /\ i.alg = "quake_index" =>
             /\ index.is = "index" /\ Indexed(index, MapOf[k])
             /\ i.data = Which(index, MapOf[k]).data
    BY <2>1, <2>2, InputIs
  <2>4. ASSUME i.alg = "quake_index", index.knows >= blind
        PROVE  Indexed(Built, MapOf[k]) /\ i.data = Which(Built, MapOf[k]).data
    <3>1. index.entries = Built.entries
      BY <2>3, <2>4 DEF Built
    <3> QED
      BY <2>3, <2>4, <3>1 DEF Indexed, Which, EntriesOf
  <2> QED
    BY <2>3, <2>4
<1> HIDE DEF inputs
<1> QED
  BY <1>1, <1>2 DEF InputsTrue

\* What is discovered is the level.toml of a directory that is there.
LEMMA NameForIs ==
  ASSUME NEW layer, NEW k \in KeysIn(layer)
  PROVE  NameFor(layer, k) \in LevelsIn(layer) /\ KeyOf[NameFor(layer, k)] = k
<1> DEFINE at == {i \in DOMAIN LevelNames : /\ LevelNames[i] \in LevelsIn(layer)
                                            /\ KeyOf[LevelNames[i]] = k}
<1>1. LevelNames \in Seq(NameSet)
  BY ContentAssumption
<1>2. Len(LevelNames) \in Nat /\ DOMAIN LevelNames = 1..Len(LevelNames)
  BY <1>1
<1>3. at # {}
  <2>1. PICK n \in LevelsIn(layer) : KeyOf[n] = k
    BY DEF KeysIn
  <2>2. \E i \in DOMAIN LevelNames : LevelNames[i] = n
    BY <2>1 DEF LevelsIn, NameSet, ToSet
  <2> QED
    BY <2>1, <2>2
<1>4. Max(at) \in at
  <2>1. at \subseteq 1..Len(LevelNames)
    BY <1>2
  <2> HIDE DEF at
  <2> QED
    BY <1>2, <1>3, <2>1, GreatestIsIn
<1> QED
  BY <1>4 DEF NameFor

LEMMA LevelsFound ==
  ASSUME TreeInv, NEW k \in DOMAIN Discovered
  PROVE  /\ k \in LevelSet
         /\ Discovered[k].layer = IF k \in KeysIn("dev") THEN "dev" ELSE "shipped"
         /\ Discovered[k].name \in LevelsIn(Discovered[k].layer)
         /\ FoundAt(k) \in LevelToml
<1> DEFINE layer == IF k \in KeysIn("dev") THEN "dev" ELSE "shipped"
<1>1. k \in DiscoveredKeys /\ Discovered[k] = [layer |-> layer, name |-> NameFor(layer, k)]
  BY DEF Discovered
<1>2. k \in KeysIn(layer) /\ layer \in Layers /\ k # BadKey
  BY <1>1 DEF DiscoveredKeys, Layers
<1>3. NameFor(layer, k) \in LevelsIn(layer) /\ KeyOf[NameFor(layer, k)] = k
  BY <1>2, NameForIs
<1>4. NameFor(layer, k) \in NameSet
  BY <1>3 DEF LevelsIn
<1>5. k \in LevelSet
  BY <1>2, <1>3, <1>4, ContentAssumption
<1>6. levels[layer][NameFor(layer, k)] \in LevelToml
  <2>1. levels \in [Layers -> [NameSet -> LevelToml]]
    BY DEF TreeInv
  <2> QED
    BY <1>2, <1>4, <2>1
<1> HIDE DEF layer
<1>7. Discovered[k].layer = layer /\ Discovered[k].name = NameFor(layer, k)
  BY <1>1
<1>8. FoundAt(k) = levels[layer][NameFor(layer, k)]
  BY <1>7 DEF FoundAt
<1> QED
  BY <1>3, <1>5, <1>6, <1>7, <1>8 DEF layer

\* A key that resolves is discovered, and where it resolves to if the
\* directory that was found has its name.
LEMMA ResolvedIsFound ==
  ASSUME TreeInv, NEW l \in LevelSet, ResolveLevel(l) # "none"
  PROVE  /\ l \in DOMAIN Discovered
         /\ Discovered[l].name = l => FoundAt(l) = levels[ResolveLevel(l)][l]
<1>1. l \in NameSet /\ KeyOf[l] = l /\ l # BadKey
  BY ContentAssumption
<1>2. ResolveLevel(l) \in Layers /\ l \in LevelsIn(ResolveLevel(l))
  BY <1>1 DEF ResolveLevel, LevelsIn, Layers
<1>3. l \in KeysIn(ResolveLevel(l))
  BY <1>1, <1>2 DEF KeysIn
<1>4. l \in DOMAIN Discovered
  BY <1>1, <1>2, <1>3 DEF Discovered, DiscoveredKeys, Layers
<1>5. ASSUME Discovered[l].name = l PROVE Discovered[l].layer = ResolveLevel(l)
  <2>1. l \in LevelsIn(Discovered[l].layer)
    BY <1>4, <1>5, LevelsFound
  <2>2. Discovered[l].layer = IF l \in KeysIn("dev") THEN "dev" ELSE "shipped"
    BY <1>4, LevelsFound
  <2>3. CASE ResolveLevel(l) = "dev"
    BY <1>3, <2>2, <2>3
  <2>4. CASE ResolveLevel(l) = "shipped"
    <3>1. l \notin LevelsIn("dev")
      BY <2>4 DEF ResolveLevel, LevelsIn
    <3> QED
      BY <2>1, <2>2, <2>4, <3>1
  <2> QED
    BY <1>2, <2>3, <2>4 DEF Layers
<1> QED
  BY <1>4, <1>5 DEF FoundAt

\* What validate has passed can be collected if every key resolves.
Placed ==
  /\ \A l \in DOMAIN Discovered : ResolveLevel(l) # "none"
  /\ \A k \in ConfigKeys : k # BadKey /\ ResolveFile(k) # "none"

LEMMA ValidCollects ==
  ASSUME TreeInv, NEW index, Validated(index), Placed
  PROVE  CollectInputs(index) # Failure
<1> DEFINE found == {FoundAt(l) : l \in DOMAIN Discovered}
           keys == DOMAIN Discovered \cup ConfigKeys \cup UNION {Dependencies(m) : m \in found}
           inputs == UNION {InputOf(k, index) : k \in keys \ {BadKey}}
<1>0. LevelSet \cap Files = {} /\ Maps \cap (LevelSet \cup Files) = {}
  BY ContentAssumption
<1>1. \A m \in found : m \in LevelToml /\ LevelErrors(m, index) = {}
  <2>1. \A l \in DOMAIN Discovered : FoundAt(l) \in LevelToml
    BY LevelsFound
  <2> QED
    BY <2>1 DEF Validated
<1>2. \A m \in found : m.is # "bad"
  <2>1. \A m : m.is = "bad" => LevelErrors(m, index) # {}
    BY DEF LevelErrors
  <2> QED
    BY <1>1, <2>1
<1>3. \A k : ResolveFile(k) # "none" => k \in Files
  BY DEF ResolveFile
<1>4. ASSUME NEW m \in found, NEW k \in Dependencies(m)
      PROVE  /\ k \in LevelSet => ResolveLevel(k) # "none"
             /\ k \in Maps \ LevelSet => Indexed(index, MapOf[k])
             /\ k \notin LevelSet \cup Maps => ResolveFile(k) # "none"
  <2>1. /\ {g \in m.geometry : index.is # "index" \/ ~Indexed(index, MapOf[g])} = {}
        /\ {l \in m.deps \cap LevelSet : ResolveLevel(l) = "none"} = {}
        /\ {d \in m.deps \ LevelSet : ResolveFile(d) = "none"} = {}
    BY <1>1, <1>2 DEF LevelErrors
  <2>2. m.geometry \subseteq Maps
    BY <1>1 DEF LevelToml
  <2>3. CASE k \in m.geometry
    BY <2>1, <2>2, <2>3, <1>0
  <2>4. CASE k \in m.deps
    <3>1. k \in LevelSet => ResolveLevel(k) # "none"
      BY <2>1, <2>4
    <3>2. k \notin LevelSet => k \in Files /\ ResolveFile(k) # "none"
      BY <2>1, <2>4, <1>3
    <3> QED
      BY <3>1, <3>2, <1>0
  <2> QED
    BY <2>3, <2>4 DEF Dependencies
<1>5. ASSUME NEW k \in keys
      PROVE  /\ k \in LevelSet => ResolveLevel(k) # "none"
             /\ k \in Maps \ LevelSet => Indexed(index, MapOf[k])
             /\ k \notin LevelSet \cup Maps => ResolveFile(k) # "none"
  <2>1. CASE k \in DOMAIN Discovered
    BY <2>1, <1>0, LevelsFound DEF Placed
  <2>2. CASE \E m \in found : k \in Dependencies(m)
    BY <2>2, <1>4
  <2>3. CASE k \in ConfigKeys
    BY <2>3, <1>0, <1>3 DEF Placed
  <2>4. \/ k \in DOMAIN Discovered
        \/ \E m \in found : k \in Dependencies(m)
        \/ k \in ConfigKeys
    <3> HIDE DEF found
    <3> QED
      OBVIOUS
  <2> HIDE DEF found, keys
  <2> QED
    BY <2>1, <2>2, <2>3, <2>4
<1>6. \A i \in inputs : i.alg # "error"
  <2> HIDE DEF keys
  <2> QED
    BY <1>5, FailureIs
<1>7. ~(Failure \subseteq inputs)
  <2> DEFINE e == [id |-> "error", alg |-> "error", level |-> NoLevel, data |-> 0,
                   from |-> "nowhere"]
  <2>1. e \in Failure /\ e.alg = "error"
    BY DEF Failure, Input
  <2> HIDE DEF inputs, e
  <2> QED
    BY <1>6, <2>1
<1>8. CollectInputs(index) = inputs
  <2>1. BadKey \notin ConfigKeys /\ ~DiscoveryFails
    BY DEF Placed, Validated
  <2> QED
    BY <1>2, <1>7, <2>1 DEF CollectInputs
<1> HIDE DEF inputs
<1> QED
  BY <1>7, <1>8

LEMMA CollectedArePlaced ==
  ASSUME TreeInv, NEW index, CollectInputs(index) # Failure
  PROVE  Placed
<1> DEFINE found == {FoundAt(l) : l \in DOMAIN Discovered}
           keys == DOMAIN Discovered \cup ConfigKeys \cup UNION {Dependencies(m) : m \in found}
           inputs == UNION {InputOf(k, index) : k \in keys \ {BadKey}}
<1>1. ~(Failure \subseteq inputs) /\ BadKey \notin ConfigKeys
  BY DEF CollectInputs
<1>2. ASSUME NEW k \in keys, k # BadKey PROVE InputOf(k, index) # Failure
  <2>1. InputOf(k, index) \subseteq inputs
    <3> HIDE DEF keys
    <3> QED
      BY <1>2
  <2> HIDE DEF keys, inputs
  <2> QED
    BY <1>1, <2>1
<1>3. ASSUME NEW l \in DOMAIN Discovered PROVE ResolveLevel(l) # "none"
  <2>1. l \in LevelSet /\ l # BadKey
    BY LevelsFound, ContentAssumption
  <2>2. InputOf(l, index) # Failure
    BY <1>2, <2>1
  <2> QED
    BY <2>1, <2>2 DEF InputOf
<1>4. ASSUME NEW k \in ConfigKeys PROVE k # BadKey /\ ResolveFile(k) # "none"
  <2>1. k # BadKey
    BY <1>1
  <2>2. k \notin LevelSet \cup Maps
    BY ContentAssumption DEF ConfigKeys
  <2>3. InputOf(k, index) # Failure
    BY <1>2, <2>1
  <2> QED
    BY <2>1, <2>2, <2>3 DEF InputOf
<1> QED
  BY <1>3, <1>4 DEF Placed

\* The level a build probes is one that validate has read.
LEMMA ValidProbes ==
  ASSUME TreeInv, NEW index, Validated(index), CollectInputs(index) # Failure,
         \A l \in DOMAIN Discovered : Discovered[l].name = l
  PROVE  LevelProbed(CollectInputs(index))
<1> DEFINE found == {FoundAt(l) : l \in DOMAIN Discovered}
           keys == DOMAIN Discovered \cup ConfigKeys \cup UNION {Dependencies(m) : m \in found}
           inputs == UNION {InputOf(k, index) : k \in keys \ {BadKey}}
<1>1. CollectInputs(index) = inputs /\ ~(Failure \subseteq inputs)
  BY DEF CollectInputs
<1> HIDE DEF keys
<1>2. ASSUME NEW l \in LevelSet, l \in Ids(inputs)
      PROVE  levels[ResolveLevel(l)][l].is # "bad"
  <2>1. PICK i \in inputs : i.id = l
    BY <1>2 DEF Ids
  <2>2. PICK k \in keys \ {BadKey} : i \in InputOf(k, index)
    BY <2>1
  <2>3. InputOf(k, index) \subseteq inputs
    BY <2>2
  <2>4. i.alg # "error"
    BY <1>1, <2>2, <2>3, FailureIs
  <2>5. k = l
    BY <2>1, <2>2, <2>4, InputIs
  <2>6. ResolveLevel(l) # "none"
    <3>1. InputOf(l, index) # Failure
      BY <1>1, <2>3, <2>5
    <3> QED
      BY <3>1 DEF InputOf
  <2>7. l \in DOMAIN Discovered /\ FoundAt(l) = levels[ResolveLevel(l)][l]
    BY <2>6, ResolvedIsFound
  <2>8. LevelErrors(FoundAt(l), index) = {}
    BY <2>7 DEF Validated
  <2>9. \A m : m.is = "bad" => LevelErrors(m, index) # {}
    BY DEF LevelErrors
  <2> QED
    BY <2>7, <2>8, <2>9
<1>3. \A i \in DOMAIN Levels : Levels[i] \in LevelSet
  BY ContentAssumption
<1> HIDE DEF inputs
<1> QED
  BY <1>1, <1>2, <1>3 DEF LevelProbed

LEMMA ValidateIsEnough == TreeInv => ValidateCovers
<1> SUFFICES ASSUME TreeInv, NEW quake \in BOOLEAN, NEW index, Validated(index)
             PROVE  /\ CollectInputs(index) # Failure <=> Placed
                    /\ Placed /\ (\A l \in DOMAIN Discovered : Discovered[l].name = l)
                          => LevelProbed(CollectInputs(index))
  BY DEF ValidateCovers, Placed
<1>1. Placed => CollectInputs(index) # Failure
  BY ValidCollects DEF Placed
<1>2. CollectInputs(index) # Failure => Placed
  BY CollectedArePlaced
<1> QED
  BY <1>1, <1>2, ValidProbes

\* A new index file is as good as what is written.
LEMMA IndexWritten ==
  ASSUME MountsInv, IndexInv, NEW x, cached' = x,
         x.is \in {"absent", "unreadable", "index"}, x.knows \in -1..edits, Trusty(x),
         disk' = disk, stamp' = stamp, clock' = clock, game' = game, blind' = blind,
         swapped' = swapped, edits' \in {edits, edits + 1}, edits' <= MaxEdits
  PROVE  MountsInv' /\ IndexInv'
<1>1. MountsInv'
  BY MountsStay
<1>2. ClockInv'
  <2>1. edits \in 0..MaxEdits /\ MaxEdits \in Nat /\ blind \in 0..edits
    BY QuakeAssumption DEF IndexInv, ClockInv
  <2>2. edits' \in 0..MaxEdits /\ blind' \in 0..edits'
    BY <2>1
  <2> QED
    BY <2>2 DEF IndexInv, ClockInv
<1>3. Trusty(x)'
  BY QuietDisk
<1>4. Trusty(cached)'
  BY <1>3 DEF Trusty, Current, Outdated
<1>5. cached'.knows \in -1..edits'
  BY DEF IndexInv, ClockInv
<1> QED
  BY <1>1, <1>2, <1>4, <1>5 DEF IndexInv

\* The parts that an edit leaves: what was true of the files may not be now.
LEMMA EditStep ==
  ASSUME BuildInv, IndexInv', edits' = edits + 1, cached' = cached,
         \A x : x.knows \in -1..edits /\ Trusty(x) => Trusty(x)',
         output' = output, manifest' = manifest, build' = build, torn' = torn,
         settled' = settled,
         levels' \in [Layers -> [NameSet -> LevelToml]],
         files' \in [Layers -> [Files -> Contents \cup {0}]]
  PROVE  /\ TreeInv' /\ BuildIndexInv' /\ OutputInv' /\ HashesInv'
         /\ FreshInv' /\ SettledInv' /\ SkipInv'
<1>0. edits \in Nat /\ settled.edits \in -1..edits /\ (Busy => build.at \in -1..edits)
  BY QuakeAssumption DEF BuildInv, TreeInv, BuildTypeOK, IndexInv, ClockInv
<1>1. settled'.edits # edits' /\ (Busy' => build'.at # edits')
  BY <1>0 DEF Busy
<1>2. BuildTypeOK'
  BY <1>0 DEF BuildInv, TreeInv, BuildTypeOK
<1>3. IndexShape(cached)'
  BY DEF BuildInv, TreeInv, IndexShape
<1>4. TreeInv'
  BY <1>0, <1>2, <1>3 DEF BuildInv, TreeInv, Busy
<1>5. \A x : Served(x) => Served(x)'
  BY <1>0 DEF Served, IndexShape
<1>6. BuildIndexInv'
  BY <1>5 DEF BuildInv, BuildIndexInv, Busy
<1>7. OutputInv'
  BY DEF BuildInv, OutputInv, OutputOfManifest, Wrote
<1>8. HashesInv' /\ FreshInv' /\ SettledInv'
  BY <1>1 DEF HashesInv, FreshInv, SettledInv
<1>9. SkipInv'
  BY DEF BuildInv, SkipInv, Busy
<1> QED
  BY <1>4, <1>6, <1>7, <1>8, <1>9

LEMMA StillStep ==
  ASSUME BuildInv, disk' = disk, stamp' = stamp, edits' = edits, blind' = blind,
         cached' = cached, UNCHANGED bvars
  PROVE  /\ TreeInv' /\ BuildIndexInv' /\ OutputInv' /\ HashesInv'
         /\ FreshInv' /\ SettledInv' /\ SkipInv'
<1>0. /\ levels' = levels /\ files' = files /\ output' = output /\ manifest' = manifest
      /\ build' = build /\ torn' = torn /\ settled' = settled
  BY DEF bvars
<1>1. TreeInv'
  BY <1>0 DEF BuildInv, TreeInv, BuildTypeOK, IndexShape, Busy
<1>2. Fingerprint' = Fingerprint /\ \A x : Trusty(x) => Trusty(x)'
  BY QuietDisk
<1>3. \A x : CollectInputs(x)' = CollectInputs(x)
  BY <1>0, QuietTree
<1>4. \A i, k : InputsTrue(i, k) => InputsTrue(i, k)'
  BY <1>0, QuietFiles
<1>5. BuildIndexInv'
  BY <1>0, <1>2 DEF BuildInv, BuildIndexInv, Served, IndexShape, Busy
<1>6. OutputInv'
  BY <1>0 DEF BuildInv, OutputInv, OutputOfManifest, Wrote
<1>7. HashesInv'
  BY <1>0, <1>4 DEF BuildInv, HashesInv, Busy
<1>8. FreshInv'
  BY <1>0, <1>2, <1>3 DEF BuildInv, FreshInv, Busy, Wrote
<1>9. SettledInv'
  BY <1>0, <1>2, <1>3 DEF BuildInv, SettledInv, Accepted, Busy
<1>10. SkipInv'
  BY <1>0 DEF BuildInv, SkipInv, Busy
<1> QED
  BY <1>1, <1>5, <1>6, <1>7, <1>8, <1>9, <1>10

LEMMA UserEditsStep == BuildInv /\ UserEdits /\ UNCHANGED bvars => BuildInv'
<1> SUFFICES ASSUME BuildInv, UserEdits, UNCHANGED bvars PROVE BuildInv'
  OBVIOUS
<1>1. MountsInv' /\ IndexInv'
  BY EditsKeepMounts, IndexStep DEF BuildInv, QuakeNext
<1>2. /\ edits' \in {edits, edits + 1} /\ cached' = cached
      /\ \A x : x.knows \in -1..edits /\ Trusty(x) => Trusty(x)'
  BY EditsKeepTrust DEF BuildInv, IndexInv
<1>3. CASE Tick
  <2>1. disk' = disk /\ stamp' = stamp /\ edits' = edits /\ blind' = blind /\ cached' = cached
    BY <1>3 DEF Tick
  <2> QED
    BY <1>1, <2>1, StillStep DEF BuildInv
<1>4. CASE ~Tick
  <2>1. edits' = edits + 1
    <3>1. ASSUME NEW s \in Dirs, NEW i \in DOMAIN Names[s],
                 (\E d \in Contents : WriteFile(s, Names[s][i], d)) \/ RemoveFile(s, Names[s][i])
          PROVE  edits' = edits + 1
      BY <3>1 DEF WriteFile, RemoveFile, DirEdit
    <3>2. ASSUME NEW a \in Archives,
                 (\E p \in Packings[a] : Repack(a, p)) \/ Damage(a) \/ Delete(a)
          PROVE  edits' = edits + 1
      BY <3>2 DEF Repack, Damage, Delete, ArchiveEdit
    <3> QED
      BY <1>4, <3>1, <3>2 DEF UserEdits
  <2>2. /\ levels' = levels /\ files' = files /\ output' = output /\ manifest' = manifest
        /\ build' = build /\ torn' = torn /\ settled' = settled
    BY DEF bvars
  <2>3. /\ levels' \in [Layers -> [NameSet -> LevelToml]]
        /\ files' \in [Layers -> [Files -> Contents \cup {0}]]
    BY <2>2 DEF BuildInv, TreeInv
  <2> QED
    BY <1>1, <1>2, <2>1, <2>2, <2>3, EditStep DEF BuildInv
<1> QED
  BY <1>3, <1>4

LEMMA ContentEditStep == BuildInv /\ (EditLevel \/ EditFile) => BuildInv'
<1> SUFFICES ASSUME BuildInv, EditLevel \/ EditFile PROVE BuildInv'
  OBVIOUS
<1>1. /\ edits < MaxEdits /\ edits' = edits + 1
      /\ disk' = disk /\ stamp' = stamp /\ clock' = clock /\ game' = game /\ cached' = cached
      /\ blind' = blind /\ swapped' = swapped
      /\ output' = output /\ manifest' = manifest /\ build' = build /\ torn' = torn
      /\ settled' = settled
  BY DEF EditLevel, EditFile, ContentEdit
<1>2. MountsInv' /\ IndexInv'
  <2>1. PICK x : x = cached
    OBVIOUS
  <2>2. x.is \in {"absent", "unreadable", "index"} /\ x.knows \in -1..edits /\ Trusty(x)
    BY <2>1 DEF BuildInv, IndexInv
  <2>3. edits' <= MaxEdits
    BY <1>1, QuakeAssumption DEF BuildInv, IndexInv, ClockInv
  <2> QED
    BY <1>1, <2>1, <2>2, <2>3, IndexWritten DEF BuildInv
<1>3. \A x : Trusty(x) => Trusty(x)'
  BY <1>1, QuietDisk
<1>4. /\ levels \in [Layers -> [NameSet -> LevelToml]]
      /\ files \in [Layers -> [Files -> Contents \cup {0}]]
  BY DEF BuildInv, TreeInv
<1>5. levels' \in [Layers -> [NameSet -> LevelToml]]
  <2>1. CASE EditLevel
    <3>1. PICK at \in LevelEdits, m \in Manifests \cup {NoLevel} :
            levels' = [levels EXCEPT ![at[1]][at[2]] = m]
      BY <2>1 DEF EditLevel
    <3>2. at[1] \in Layers /\ at[2] \in NameSet
      BY ContentAssumption
    <3>3. m \in LevelToml
      BY ContentAssumption DEF NoLevel, LevelToml
    <3> HIDE DEF LevelToml
    <3> QED
      BY <1>4, <3>1, <3>2, <3>3
  <2>2. CASE EditFile
    BY <2>2, <1>4 DEF EditFile
  <2> QED
    BY <2>1, <2>2
<1>6. files' \in [Layers -> [Files -> Contents \cup {0}]]
  <2>1. CASE EditFile
    <3>1. PICK at \in FileEdits, d \in Contents \cup {0} :
            files' = [files EXCEPT ![at[1]][at[2]] = d]
      BY <2>1 DEF EditFile
    <3>2. at[1] \in Layers /\ at[2] \in Files
      BY ContentAssumption
    <3> QED
      BY <1>4, <3>1, <3>2
  <2>2. CASE EditLevel
    BY <2>2, <1>4 DEF EditLevel
  <2> QED
    BY <2>1, <2>2
<1> QED
  BY <1>1, <1>2, <1>3, <1>5, <1>6, EditStep DEF BuildInv

\* Of an index file that is there and of a scan, a build takes what serves.
LEMMA LoadedServes ==
  ASSUME BuildInv, Buildable, LoadOrBuild.is = "index"
  PROVE  /\ Served(LoadOrBuild) /\ LoadOrBuild.fingerprint = Fingerprint
         /\ LoadOrBuild.knows >= blind => LoadOrBuild.entries = BuiltEntries
         /\ Accepted => LoadOrBuild = cached
<1>1. ClockInv /\ Trusty(cached) /\ cached.knows \in -1..edits /\ IndexShape(cached)
  BY DEF BuildInv, IndexInv, TreeInv
<1>2. edits \in Nat
  BY <1>1 DEF ClockInv
<1>3. LoadOrBuild = IF Accepted THEN cached ELSE Built
  BY DEF LoadOrBuild, Unreadable, NoIndex
<1>4. CASE Accepted
  <2>1. cached.is = "index" /\ cached.fingerprint = Fingerprint
    BY <1>4 DEF Accepted
  <2>2. PICK x : x = cached
    OBVIOUS
  <2>3. ~Outdated(x)
    BY <1>1, <2>1, <2>2, OutdatedDiffers
  <2>4. x.knows >= blind => x.entries = BuiltEntries
    BY <1>1, <2>1, <2>2, <2>3 DEF Trusty, Current
  <2> QED
    BY <1>1, <1>3, <1>4, <2>1, <2>2, <2>4 DEF Served
<1>5. CASE ~Accepted
  <2>1. Current(Built) /\ Built.is = "index" /\ Built.knows = edits
    BY BuiltIsCurrent
  <2>2. IndexShape(Built)
    BY DEF IndexShape, Built
  <2>3. Served(Built)
    BY <1>2, <2>1, <2>2 DEF Served, Trusty
  <2>4. Built.fingerprint = Fingerprint /\ Built.entries = BuiltEntries
    BY DEF Built
  <2> QED
    BY <1>3, <1>5, <2>3, <2>4
<1> QED
  BY <1>4, <1>5

LEMMA BeginStep ==
  ASSUME BuildInv, NEW quake \in BOOLEAN, BuildBegin(quake)
  PROVE  BuildInv'
<1> DEFINE index == IF quake THEN LoadOrBuild ELSE NoIndex
           inputs == CollectInputs(index)
<1>1. /\ build.pc = "idle" /\ (quake => Buildable /\ index.is = "index") /\ inputs # Failure
      /\ build' = [pc |-> "stage", quake |-> quake, inputs |-> inputs, index |-> index,
                   previous |-> manifest, ran |-> FALSE, at |-> edits,
                   same |-> settled = [edits |-> edits, quake |-> quake]]
      /\ disk' = disk /\ stamp' = stamp /\ clock' = clock /\ edits' = edits /\ game' = game
      /\ cached' = cached /\ blind' = blind /\ swapped' = swapped
      /\ levels' = levels /\ files' = files /\ output' = output /\ manifest' = manifest
      /\ torn' = torn /\ settled' = settled
  BY DEF BuildBegin, qvars
<1>2. MountsInv' /\ IndexInv'
  BY MountsStep, IndexStep DEF BuildBegin, BuildInv
<1>3. IF quake
      THEN /\ Served(index) /\ index.fingerprint = Fingerprint
           /\ (index.knows >= blind => index.entries = BuiltEntries)
           /\ (Accepted => index = cached)
      ELSE index = NoIndex
  BY <1>1, LoadedServes
<1>4. InputsTrue(inputs, index.knows)
  <2>1. index.is = "index" /\ index.knows >= blind => index.entries = BuiltEntries
    BY <1>3 DEF NoIndex
  <2> HIDE DEF index
  <2> QED
    BY <1>1, <2>1, CollectedTrue
<1> HIDE DEF index
<1>5. PICK x, i : x = index /\ i = inputs
  OBVIOUS
<1>6. i = CollectInputs(x) /\ InputsTrue(i, x.knows)
  BY <1>4, <1>5
<1> HIDE DEF inputs
<1>7. /\ build'.pc = "stage" /\ build'.quake = quake /\ build'.inputs = i
      /\ build'.index = x /\ build'.previous = manifest /\ build'.ran = FALSE
      /\ build'.at = edits /\ build'.same = (settled = [edits |-> edits, quake |-> quake])
      /\ Busy' /\ ~Wrote' /\ ~Busy
  BY <1>1, <1>5 DEF Busy, Wrote
<1>8. Fingerprint' = Fingerprint /\ \A y : Trusty(y) => Trusty(y)'
  BY <1>1, QuietDisk
<1>9. \A y : CollectInputs(y)' = CollectInputs(y)
  BY <1>1, QuietTree
<1>10. \A j, k : InputsTrue(j, k) => InputsTrue(j, k)'
  BY <1>1, QuietFiles
<1>11. edits \in Nat
  BY QuakeAssumption DEF BuildInv, IndexInv, ClockInv
<1>12. TreeInv'
  <2>1. BuildTypeOK'
    BY <1>1, <1>7 DEF BuildInv, TreeInv, BuildTypeOK
  <2>2. build' = [pc |-> build'.pc, quake |-> build'.quake, inputs |-> build'.inputs,
                  index |-> build'.index, previous |-> build'.previous, ran |-> build'.ran,
                  at |-> build'.at, same |-> build'.same]
    BY <1>1
  <2>3. IndexShape(cached)'
    BY <1>1 DEF BuildInv, TreeInv, IndexShape
  <2>4. build'.at \in -1..edits'
    BY <1>1, <1>7, <1>11
  <2> QED
    BY <1>1, <1>7, <2>1, <2>2, <2>3, <2>4 DEF BuildInv, TreeInv
<1>13. BuildIndexInv'
  <2>1. IF quake THEN Served(x) ELSE x = NoIndex
    BY <1>3, <1>5
  <2>2. Served(x) => Served(x)'
    BY <1>1, <1>8 DEF Served, IndexShape
  <2> QED
    BY <1>7, <2>1, <2>2 DEF BuildIndexInv
<1>14. OutputInv'
  BY <1>1, <1>7 DEF BuildInv, OutputInv, OutputOfManifest, Wrote
<1>15. HashesInv'
  <2>1. InputsTrue(i, x.knows)'
    BY <1>6, <1>10
  <2> QED
    BY <1>1, <1>7, <1>10, <2>1 DEF BuildInv, HashesInv
<1>16. FreshInv'
  <2>1. i = CollectInputs(x)'
    BY <1>6, <1>9
  <2>2. quake => x.fingerprint = Fingerprint'
    BY <1>3, <1>5, <1>8
  <2> QED
    BY <1>7, <2>1, <2>2 DEF FreshInv
<1>17. SettledInv'
  <2>1. settled.edits = edits /\ settled.quake /\ quake => x = cached
    BY <1>3, <1>5 DEF BuildInv, SettledInv
  <2> QED
    BY <1>1, <1>7, <1>8, <1>9, <2>1 DEF BuildInv, SettledInv, Accepted
<1>18. SkipInv'
  <2>1. ASSUME build'.same
        PROVE  manifest.is = "whole" /\ manifest.inputs = i /\ output.is # "none"
    <3>0. settled = [edits |-> edits, quake |-> quake]
      BY <1>7, <2>1, Zenon
    <3>1. settled.edits = edits /\ settled.quake = quake
      BY <3>0
    <3>2. x = IF settled.quake THEN cached ELSE NoIndex
      BY <1>3, <1>5, <3>1 DEF BuildInv, SettledInv
    <3> QED
      BY <1>6, <3>1, <3>2 DEF BuildInv, SettledInv
  <2> QED
    BY <1>1, <1>7, <2>1 DEF SkipInv
<1> QED
  BY <1>2, <1>12, <1>13, <1>14, <1>15, <1>16, <1>17, <1>18 DEF BuildInv

LEMMA StageStep == BuildInv /\ BuildStage => BuildInv'
<1> SUFFICES ASSUME BuildInv, BuildStage PROVE BuildInv'
  OBVIOUS
<1>1. /\ build.pc = "stage"
      /\ disk' = disk /\ stamp' = stamp /\ clock' = clock /\ edits' = edits /\ game' = game
      /\ cached' = cached /\ blind' = blind /\ swapped' = swapped
      /\ levels' = levels /\ files' = files /\ manifest' = manifest /\ settled' = settled
  BY DEF BuildStage, qvars
<1>2. MountsInv' /\ IndexInv'
  BY MountsStep, IndexStep DEF BuildStage, BuildInv
<1>3. /\ build'.pc = "index" /\ build'.quake = build.quake /\ build'.inputs = build.inputs
      /\ build'.index = build.index /\ build'.previous = build.previous
      /\ build'.at = build.at /\ build'.same = build.same
      /\ \/ StageSkipped /\ build'.ran = build.ran /\ output' = output /\ torn' = torn
         \/ /\ ~StageSkipped /\ build'.ran = TRUE /\ torn' = TRUE
            /\ output' = [is |-> "whole", ids |-> Ids(build.inputs)]
      /\ build' = [pc |-> build'.pc, quake |-> build'.quake, inputs |-> build'.inputs,
                   index |-> build'.index, previous |-> build'.previous, ran |-> build'.ran,
                   at |-> build'.at, same |-> build'.same]
  <2>1. build = [pc |-> build.pc, quake |-> build.quake, inputs |-> build.inputs,
                 index |-> build.index, previous |-> build.previous, ran |-> build.ran,
                 at |-> build.at, same |-> build.same]
    BY DEF BuildInv, TreeInv
  <2> QED
    BY <2>1 DEF BuildStage
<1>4. Fingerprint' = Fingerprint /\ \A y : Trusty(y) => Trusty(y)'
  BY <1>1, QuietDisk
<1>5. \A y : CollectInputs(y)' = CollectInputs(y)
  BY <1>1, QuietTree
<1>6. \A j, k : InputsTrue(j, k) => InputsTrue(j, k)'
  BY <1>1, QuietFiles
<1>7. Busy /\ Busy' /\ Wrote' /\ ~Wrote
  BY <1>1, <1>3 DEF Busy, Wrote
<1>8. build.ran = FALSE /\ (manifest = build.previous \/ output.is = "none")
  <2>1. build.ran \in BOOLEAN
    BY DEF BuildInv, TreeInv, BuildTypeOK
  <2> QED
    BY <1>1, <2>1 DEF BuildInv, OutputInv
<1>9. TreeInv'
  <2>0. torn' \in BOOLEAN /\ build'.ran \in BOOLEAN /\ output'.is \in {"none", "whole", "cut"}
    <3>1. /\ output.is \in {"none", "whole", "cut"} /\ torn \in BOOLEAN
          /\ build.ran \in BOOLEAN
      BY DEF BuildInv, TreeInv, BuildTypeOK
    <3>2. torn' \in BOOLEAN /\ build'.ran \in BOOLEAN
      BY <1>3, <3>1, Zenon
    <3> QED
      BY <1>3, <3>1, <3>2
  <2>1. BuildTypeOK'
    BY <1>1, <1>3, <2>0 DEF BuildInv, TreeInv, BuildTypeOK
  <2>2. IndexShape(cached)'
    BY <1>1 DEF BuildInv, TreeInv, IndexShape
  <2> QED
    BY <1>1, <1>3, <1>7, <2>1, <2>2 DEF BuildInv, TreeInv
<1>10. BuildIndexInv'
  BY <1>1, <1>3, <1>4, <1>7 DEF BuildInv, BuildIndexInv, Served, IndexShape
<1>11. output'.is # "none"
  BY <1>3 DEF StageSkipped
<1>12. OutputInv'
  <2>1. CASE StageSkipped
    <3>1. manifest.is = "whole" /\ manifest.inputs = build.inputs
      BY <1>8, <2>1 DEF StageSkipped
    <3> QED
      BY <1>1, <1>3, <1>8, <2>1, <3>1 DEF BuildInv, OutputInv, OutputOfManifest
  <2>2. CASE ~StageSkipped
    BY <1>3, <2>2 DEF OutputInv, OutputOfManifest
  <2> QED
    BY <2>1, <2>2
<1>13. HashesInv'
  BY <1>1, <1>3, <1>6, <1>7 DEF BuildInv, HashesInv
<1>14. FreshInv'
  BY <1>1, <1>3, <1>4, <1>5, <1>7, <1>11 DEF BuildInv, FreshInv
<1>15. SettledInv'
  BY <1>1, <1>3, <1>4, <1>5, <1>7, <1>11 DEF BuildInv, SettledInv, Accepted
<1>16. SkipInv'
  <2>1. build.same /\ settled.edits # -1 => StageSkipped
    BY <1>1, <1>7 DEF BuildInv, SkipInv, StageSkipped
  <2> QED
    BY <1>1, <1>3, <1>8, <2>1 DEF SkipInv
<1> QED
  BY <1>2, <1>9, <1>10, <1>12, <1>13, <1>14, <1>15, <1>16 DEF BuildInv

LEMMA IndexWriteStep == BuildInv /\ BuildIndex => BuildInv'
<1> SUFFICES ASSUME BuildInv, BuildIndex PROVE BuildInv'
  OBVIOUS
<1>1. /\ build.pc = "index" /\ cached' = IF build.quake THEN build.index ELSE cached
      /\ disk' = disk /\ stamp' = stamp /\ clock' = clock /\ edits' = edits /\ game' = game
      /\ blind' = blind /\ swapped' = swapped /\ levels' = levels /\ files' = files
      /\ output' = output /\ manifest' = manifest /\ torn' = torn /\ settled' = settled
  BY DEF BuildIndex
<1>2. /\ build'.pc = "manifest" /\ build'.quake = build.quake /\ build'.inputs = build.inputs
      /\ build'.index = build.index /\ build'.previous = build.previous
      /\ build'.ran = build.ran /\ build'.at = build.at /\ build'.same = build.same
      /\ build' = [pc |-> build'.pc, quake |-> build'.quake, inputs |-> build'.inputs,
                   index |-> build'.index, previous |-> build'.previous, ran |-> build'.ran,
                   at |-> build'.at, same |-> build'.same]
  <2>1. build = [pc |-> build.pc, quake |-> build.quake, inputs |-> build.inputs,
                 index |-> build.index, previous |-> build.previous, ran |-> build.ran,
                 at |-> build.at, same |-> build.same]
    BY DEF BuildInv, TreeInv
  <2> QED
    BY <2>1 DEF BuildIndex
<1>3. Fingerprint' = Fingerprint /\ \A y : Trusty(y) => Trusty(y)'
  BY <1>1, QuietDisk
<1>4. \A y : CollectInputs(y)' = CollectInputs(y)
  BY <1>1, QuietTree
<1>5. \A j, k : InputsTrue(j, k) => InputsTrue(j, k)'
  BY <1>1, QuietFiles
<1>6. Busy /\ Busy' /\ Wrote' /\ Wrote
  BY <1>1, <1>2 DEF Busy, Wrote
<1>7. edits \in Nat /\ edits <= MaxEdits
  BY QuakeAssumption DEF BuildInv, IndexInv, ClockInv
<1>8. PICK x : x = cached'
  OBVIOUS
<1>9. /\ x.is \in {"absent", "unreadable", "index"} /\ x.knows \in -1..edits
      /\ Trusty(x) /\ IndexShape(x)
  <2>1. CASE build.quake
    <3>1. x = build.index
      BY <1>1, <1>8, <2>1
    <3>2. Served(x)
      BY <1>6, <2>1, <3>1 DEF BuildInv, BuildIndexInv
    <3> QED
      BY <3>2 DEF Served
  <2>2. CASE ~build.quake
    <3>1. x = cached
      BY <1>1, <1>8, <2>2
    <3> QED
      BY <3>1 DEF BuildInv, IndexInv, TreeInv
  <2> QED
    BY <2>1, <2>2
<1>10. MountsInv' /\ IndexInv'
  BY <1>1, <1>7, <1>8, <1>9, IndexWritten DEF BuildInv
<1>11. TreeInv'
  <2>1. BuildTypeOK'
    BY <1>1, <1>2 DEF BuildInv, TreeInv, BuildTypeOK
  <2>2. IndexShape(cached)'
    BY <1>8, <1>9 DEF IndexShape
  <2> QED
    BY <1>1, <1>2, <1>6, <2>1, <2>2 DEF BuildInv, TreeInv
<1>12. BuildIndexInv'
  BY <1>1, <1>2, <1>3, <1>6 DEF BuildInv, BuildIndexInv, Served, IndexShape
<1>13. OutputInv'
  BY <1>1, <1>2, <1>6 DEF BuildInv, OutputInv, OutputOfManifest
<1>14. HashesInv'
  BY <1>1, <1>2, <1>5, <1>6 DEF BuildInv, HashesInv
<1>15. FreshInv'
  BY <1>1, <1>2, <1>3, <1>4, <1>6 DEF BuildInv, FreshInv
<1>16. SettledInv'
  <2>1. settled.edits = edits /\ settled.quake => cached' = cached
    BY <1>1, <1>6 DEF BuildInv, SettledInv
  <2> QED
    BY <1>1, <1>2, <1>3, <1>4, <1>6, <2>1 DEF BuildInv, SettledInv, Accepted
<1>17. SkipInv'
  BY <1>1, <1>2, <1>6 DEF BuildInv, SkipInv
<1> QED
  BY <1>10, <1>11, <1>12, <1>13, <1>14, <1>15, <1>16, <1>17 DEF BuildInv

LEMMA ManifestStep == BuildInv /\ BuildManifest => BuildInv'
<1> SUFFICES ASSUME BuildInv, BuildManifest PROVE BuildInv'
  OBVIOUS
<1>1. /\ build.pc = "manifest"
      /\ manifest' = [is |-> "whole", inputs |-> build.inputs, knows |-> build.index.knows]
      /\ torn' = (torn /\ ~build.ran) /\ build' = NoBuild
      /\ settled' = [edits |-> build.at, quake |-> build.quake]
      /\ disk' = disk /\ stamp' = stamp /\ clock' = clock /\ edits' = edits /\ game' = game
      /\ cached' = cached /\ blind' = blind /\ swapped' = swapped
      /\ levels' = levels /\ files' = files /\ output' = output
  BY DEF BuildManifest, qvars
<1>2. MountsInv' /\ IndexInv'
  BY MountsStep, IndexStep DEF BuildManifest, BuildInv
<1>3. Fingerprint' = Fingerprint /\ \A y : Trusty(y) => Trusty(y)'
  BY <1>1, QuietDisk
<1>4. \A y : CollectInputs(y)' = CollectInputs(y)
  BY <1>1, QuietTree
<1>5. \A j, k : InputsTrue(j, k) => InputsTrue(j, k)'
  BY <1>1, QuietFiles
<1>6. Busy /\ Wrote /\ ~Busy' /\ ~Wrote' /\ build'.pc = "idle" /\ build'.quake \in BOOLEAN
      /\ build'.ran \in BOOLEAN /\ build'.same = FALSE
  BY <1>1 DEF Busy, Wrote, NoBuild
<1>7. TreeInv'
  <2>1. BuildTypeOK'
    BY <1>1, <1>6 DEF BuildInv, TreeInv, BuildTypeOK
  <2>2. IndexShape(cached)'
    BY <1>1 DEF BuildInv, TreeInv, IndexShape
  <2>3. build' = [pc |-> build'.pc, quake |-> build'.quake, inputs |-> build'.inputs,
                  index |-> build'.index, previous |-> build'.previous, ran |-> build'.ran,
                  at |-> build'.at, same |-> build'.same]
    BY <1>1 DEF NoBuild
  <2> QED
    BY <1>1, <1>6, <2>1, <2>2, <2>3 DEF BuildInv, TreeInv
<1>8. BuildIndexInv' /\ FreshInv' /\ SkipInv'
  BY <1>6 DEF BuildIndexInv, FreshInv, SkipInv
<1>9. OutputInv'
  <2>1. build.ran \in BOOLEAN /\ torn \in BOOLEAN
    BY DEF BuildInv, TreeInv, BuildTypeOK
  <2>2. CASE build.ran
    <3>1. output.is = "none" \/ output = [is |-> "whole", ids |-> Ids(build.inputs)]
      BY <1>6, <2>2 DEF BuildInv, OutputInv
    <3> QED
      BY <1>1, <1>6, <3>1 DEF OutputInv, OutputOfManifest
  <2>3. CASE ~build.ran
    <3>1. output.is = "none" \/ (manifest.is = "whole" /\ manifest.inputs = build.inputs)
      BY <1>6, <2>3 DEF BuildInv, OutputInv
    <3>2. torn' <=> torn
      BY <1>1, <2>3
    <3> QED
      BY <1>1, <1>6, <3>1, <3>2 DEF BuildInv, OutputInv, OutputOfManifest
  <2> QED
    BY <2>2, <2>3
<1>10. PICK x, i : x = build.index /\ i = build.inputs
  OBVIOUS
<1>11. HashesInv'
  <2>1. build.at = edits => InputsTrue(i, x.knows)
    BY <1>6, <1>10 DEF BuildInv, HashesInv
  <2> QED
    BY <1>1, <1>5, <1>6, <1>10, <2>1 DEF HashesInv
<1>12. SettledInv'
  <2>1. ASSUME build.at = edits
        PROVE  /\ i = CollectInputs(x) /\ output.is # "none"
               /\ (build.quake => x.fingerprint = Fingerprint /\ cached = x)
    BY <1>1, <1>6, <1>10, <2>1 DEF BuildInv, FreshInv
  <2>2. IF build.quake THEN x.is = "index" ELSE x = NoIndex
    BY <1>6, <1>10 DEF BuildInv, BuildIndexInv, Served
  <2> QED
    BY <1>1, <1>3, <1>4, <1>6, <1>10, <2>1, <2>2 DEF SettledInv, Accepted
<1> QED
  BY <1>2, <1>7, <1>8, <1>9, <1>11, <1>12 DEF BuildInv

LEMMA CutsHaveShape ==
  ASSUME NEW index, IndexShape(index), NEW c \in CutsOf(index)
  PROVE  IndexShape(c)
<1>1. IndexShape(Unreadable)
  BY DEF IndexShape, Unreadable, NoIndex
<1>2. \A n : IndexShape(CutIndex(index, n))
  BY DEF IndexShape, CutIndex
<1>3. c = Unreadable \/ \E n \in 0..(Len(index.entries) - 1) : c = CutIndex(index, n)
  BY DEF CutsOf
<1> QED
  BY <1>1, <1>2, <1>3

LEMMA DiesStep == BuildInv /\ BuildDies => BuildInv'
<1> SUFFICES ASSUME BuildInv, BuildDies PROVE BuildInv'
  OBVIOUS
<1>1. /\ Busy /\ build' = NoBuild
      /\ disk' = disk /\ stamp' = stamp /\ clock' = clock /\ edits' = edits /\ game' = game
      /\ blind' = blind /\ swapped' = swapped /\ levels' = levels /\ files' = files
  BY DEF BuildDies, Busy
<1>2. \/ /\ output' = output /\ cached' = cached /\ manifest' = manifest /\ torn' = torn
         /\ settled' = settled
      \/ /\ output' = [is |-> "cut", ids |-> {}] /\ torn' = TRUE
         /\ cached' = cached /\ manifest' = manifest /\ settled' = settled
      \/ /\ build.quake /\ cached' \in CutsOf(build.index) /\ settled' = Unsettled
         /\ output' = output /\ manifest' = manifest /\ torn' = torn
      \/ /\ manifest' = NoManifest /\ settled' = Unsettled
         /\ output' = output /\ cached' = cached /\ torn' = torn
  BY DEF BuildDies
<1>3. Fingerprint' = Fingerprint /\ \A y : Trusty(y) => Trusty(y)'
  BY <1>1, QuietDisk
<1>4. \A y : CollectInputs(y)' = CollectInputs(y)
  BY <1>1, QuietTree
<1>5. \A j, k : InputsTrue(j, k) => InputsTrue(j, k)'
  BY <1>1, QuietFiles
<1>6. ~Busy' /\ ~Wrote' /\ build'.pc = "idle" /\ build'.quake \in BOOLEAN
      /\ build'.ran \in BOOLEAN /\ build'.same = FALSE
  BY <1>1 DEF Busy, Wrote, NoBuild
<1>7. edits \in Nat /\ edits <= MaxEdits /\ blind \in Nat
  BY QuakeAssumption DEF BuildInv, IndexInv, ClockInv
<1>8. PICK x : x = cached'
  OBVIOUS
<1>9. /\ x.is \in {"absent", "unreadable", "index"} /\ x.knows \in -1..edits
      /\ Trusty(x) /\ IndexShape(x)
  <2>1. CASE cached' = cached
    BY <1>8, <2>1 DEF BuildInv, IndexInv, TreeInv
  <2>2. CASE build.quake /\ cached' \in CutsOf(build.index)
    <3>1. PICK y : y = build.index
      OBVIOUS
    <3>2. Served(y)
      BY <1>1, <2>2, <3>1 DEF BuildInv, BuildIndexInv
    <3>3. y.is = "index" /\ IndexShape(y) /\ x \in CutsOf(y)
      BY <1>8, <2>2, <3>1, <3>2 DEF Served
    <3>4. IndexShape(x)
      BY <3>3, CutsHaveShape
    <3>5. /\ x.is \in {"unreadable", "index"} /\ x.knows \in {-1, 0}
          /\ (x.is = "index" => x.knows = -1)
      BY <3>3, CutsKnowNothing DEF IndexShape
    <3> QED
      BY <1>7, <3>4, <3>5 DEF Trusty
  <2> QED
    BY <1>2, <2>1, <2>2
<1>10. MountsInv' /\ IndexInv'
  BY <1>1, <1>7, <1>8, <1>9, IndexWritten DEF BuildInv
<1>11. \/ /\ settled' = settled /\ cached' = cached /\ manifest' = manifest
          /\ (output.is # "none" => output'.is # "none")
       \/ settled'.edits = -1
  BY <1>2 DEF Unsettled
<1>12. TreeInv'
  <2>1. settled'.edits \in -1..edits
    <3>1. settled.edits \in -1..edits
      BY DEF BuildInv, TreeInv, BuildTypeOK
    <3> QED
      BY <1>2, <1>7, <3>1 DEF Unsettled
  <2>2. output'.is \in {"none", "whole", "cut"} /\ manifest'.is \in {"none", "whole"}
        /\ torn' \in BOOLEAN
    <3>1. /\ output.is \in {"none", "whole", "cut"} /\ manifest.is \in {"none", "whole"}
          /\ torn \in BOOLEAN /\ NoManifest.is = "none"
      BY DEF BuildInv, TreeInv, BuildTypeOK, NoManifest
    <3>2. torn' \in BOOLEAN
      BY <1>2, <3>1, Zenon
    <3> QED
      BY <1>2, <3>1, <3>2
  <2>3. BuildTypeOK'
    BY <1>1, <1>6, <2>1, <2>2 DEF BuildInv, TreeInv, BuildTypeOK
  <2>4. IndexShape(cached)'
    BY <1>8, <1>9 DEF IndexShape
  <2>5. build' = [pc |-> build'.pc, quake |-> build'.quake, inputs |-> build'.inputs,
                  index |-> build'.index, previous |-> build'.previous, ran |-> build'.ran,
                  at |-> build'.at, same |-> build'.same]
    BY <1>1 DEF NoBuild
  <2> QED
    BY <1>1, <1>6, <2>3, <2>4, <2>5 DEF BuildInv, TreeInv
<1>13. BuildIndexInv' /\ FreshInv' /\ SkipInv'
  BY <1>6 DEF BuildIndexInv, FreshInv, SkipInv
<1>14. OutputInv'
  <2>1. (manifest.is = "whole" => OutputOfManifest) /\ NoManifest.is # "whole"
    BY DEF BuildInv, OutputInv, NoManifest
  <2>2. manifest'.is = "whole" => OutputOfManifest'
    <3>1. CASE output' = output /\ manifest' = manifest /\ torn' = torn
      BY <2>1, <3>1 DEF OutputOfManifest
    <3>2. CASE manifest' = manifest /\ torn' = TRUE
      BY <3>2 DEF OutputOfManifest
    <3>3. CASE manifest' = NoManifest
      BY <2>1, <3>3
    <3> QED
      BY <1>2, <3>1, <3>2, <3>3
  <2> QED
    BY <1>6, <2>2 DEF OutputInv
<1>15. HashesInv'
  BY <1>1, <1>5, <1>6, <1>7, <1>11 DEF BuildInv, HashesInv
<1>16. SettledInv'
  BY <1>1, <1>3, <1>4, <1>6, <1>7, <1>11 DEF BuildInv, SettledInv, Accepted
<1> QED
  BY <1>10, <1>12, <1>13, <1>14, <1>15, <1>16 DEF BuildInv

\* tools quake index and content clean leave nothing settled.
LEMMA UnsettleStep ==
  ASSUME BuildInv, MountsInv', IndexInv', IndexShape(cached)', Unsettle,
         disk' = disk, stamp' = stamp, blind' = blind, edits' \in {edits, edits + 1},
         levels' = levels, files' = files,
         \/ output' = output /\ manifest' = manifest /\ torn' = torn
         \/ output' = NoOutput /\ manifest' = NoManifest /\ torn' = FALSE
  PROVE  BuildInv'
<1>1. settled'.edits = -1
  BY DEF Unsettle, Unsettled
<1>2. /\ build'.pc = build.pc /\ build'.quake = build.quake /\ build'.inputs = build.inputs
      /\ build'.index = build.index /\ build'.previous = build.previous
      /\ build'.ran = build.ran /\ build'.same = build.same
      /\ build'.at = IF build.pc = "idle" THEN 0 ELSE -1
      /\ build' = [pc |-> build'.pc, quake |-> build'.quake, inputs |-> build'.inputs,
                   index |-> build'.index, previous |-> build'.previous, ran |-> build'.ran,
                   at |-> build'.at, same |-> build'.same]
  <2>1. build = [pc |-> build.pc, quake |-> build.quake, inputs |-> build.inputs,
                 index |-> build.index, previous |-> build.previous, ran |-> build.ran,
                 at |-> build.at, same |-> build.same]
    BY DEF BuildInv, TreeInv
  <2> QED
    BY <2>1 DEF Unsettle
<1>3. edits \in Nat /\ edits' \in Nat
  BY QuakeAssumption DEF BuildInv, IndexInv, ClockInv
<1>4. (Busy' <=> Busy) /\ (Wrote' <=> Wrote) /\ (Busy' => build'.at = -1)
  BY <1>2 DEF Busy, Wrote
<1>5. TreeInv'
  <2>0. /\ output.is \in {"none", "whole", "cut"} /\ manifest.is \in {"none", "whole"}
        /\ torn \in BOOLEAN /\ NoOutput.is = "none" /\ NoManifest.is = "none"
    BY DEF BuildInv, TreeInv, BuildTypeOK, NoManifest, NoOutput
  <2>1. output'.is \in {"none", "whole", "cut"} /\ manifest'.is \in {"none", "whole"}
        /\ torn' \in BOOLEAN
    BY <2>0, Zenon
  <2>2. settled'.edits \in -1..edits' /\ (Busy' => build'.at \in -1..edits')
    BY <1>1, <1>3, <1>4
  <2>3. BuildTypeOK'
    BY <1>2, <2>1, <2>2 DEF BuildInv, TreeInv, BuildTypeOK
  <2> QED
    BY <1>2, <1>4, <2>2, <2>3 DEF BuildInv, TreeInv
<1>6. BuildIndexInv'
  <2>1. \A x : Trusty(x) => Trusty(x)'
    BY QuietDisk
  <2>2. \A x : Served(x) => Served(x)'
    BY <1>3, <2>1 DEF Served, IndexShape
  <2> QED
    BY <1>2, <1>4, <2>2 DEF BuildInv, BuildIndexInv
<1>7. OutputInv'
  <2>1. CASE output' = output /\ manifest' = manifest /\ torn' = torn
    BY <1>2, <1>4, <2>1 DEF BuildInv, OutputInv, OutputOfManifest
  <2>2. CASE output' = NoOutput /\ manifest' = NoManifest /\ torn' = FALSE
    BY <1>2, <1>4, <2>2 DEF BuildInv, OutputInv, OutputOfManifest, NoOutput
  <2> QED
    BY <2>1, <2>2
<1>8. HashesInv' /\ FreshInv' /\ SettledInv' /\ SkipInv'
  BY <1>1, <1>3, <1>4 DEF HashesInv, FreshInv, SettledInv, SkipInv
<1> QED
  BY <1>5, <1>6, <1>7, <1>8 DEF BuildInv

LEMMA ToolStep == BuildInv /\ ToolIndexStep => BuildInv'
<1> SUFFICES ASSUME BuildInv, ToolIndexStep PROVE BuildInv'
  OBVIOUS
<1>1. MountsInv' /\ IndexInv'
  BY MountsStep, IndexStep DEF ToolIndexStep, BuildInv, QuakeNext
<1>2. /\ disk' = disk /\ stamp' = stamp /\ blind' = blind /\ edits' \in {edits, edits + 1}
      /\ Unsettle /\ levels' = levels /\ files' = files
      /\ output' = output /\ manifest' = manifest /\ torn' = torn
      /\ cached' \in {Built} \cup CutsOf(Built)
  BY DEF ToolIndexStep, QuakeIndexTool, QuakeIndexKilled
<1>3. IndexShape(cached)'
  <2>1. PICK b, x : b = Built /\ x = cached'
    OBVIOUS
  <2>2. IndexShape(b)
    BY <2>1 DEF IndexShape, Built
  <2>3. x = b \/ x \in CutsOf(b)
    BY <1>2, <2>1
  <2>4. IndexShape(x)
    BY <2>2, <2>3, CutsHaveShape
  <2> QED
    BY <2>1, <2>4 DEF IndexShape
<1> QED
  BY <1>1, <1>2, <1>3, UnsettleStep

LEMMA CleanStep == BuildInv /\ ContentClean => BuildInv'
<1> SUFFICES ASSUME BuildInv, ContentClean PROVE BuildInv'
  OBVIOUS
<1>1. /\ disk' = disk /\ stamp' = stamp /\ clock' = clock /\ edits' = edits /\ game' = game
      /\ blind' = blind /\ swapped' = swapped /\ Unsettle /\ levels' = levels /\ files' = files
      /\ output' = NoOutput /\ manifest' = NoManifest /\ torn' = FALSE /\ cached' = NoIndex
  BY DEF ContentClean
<1>2. edits \in Nat /\ edits <= MaxEdits
  BY QuakeAssumption DEF BuildInv, IndexInv, ClockInv
<1>3. NoIndex.is = "absent" /\ NoIndex.knows = 0 /\ IndexShape(NoIndex)
  BY DEF NoIndex, IndexShape
<1>4. Trusty(NoIndex)
  BY <1>3 DEF Trusty
<1>5. MountsInv' /\ IndexInv'
  <2>1. NoIndex.knows \in -1..edits
    BY <1>2, <1>3
  <2> QED
    BY <1>1, <1>2, <1>3, <1>4, <2>1, IndexWritten DEF BuildInv
<1>6. IndexShape(cached)'
  BY <1>1, <1>3 DEF IndexShape
<1> QED
  BY <1>1, <1>5, <1>6, UnsettleStep

LEMMA BuildStarts == BuildInit => BuildInv
<1> SUFFICES ASSUME BuildInit PROVE BuildInv
  OBVIOUS
<1>1. /\ QuakeInit /\ output = NoOutput /\ manifest = NoManifest /\ build = NoBuild
      /\ torn = FALSE /\ settled = Unsettled /\ cached = NoIndex /\ edits = 0
  BY DEF BuildInit, QuakeInit
<1>2. MountsInv /\ IndexInv
  BY <1>1, MountsInit, IndexInit
<1>3. /\ levels \in [Layers -> [NameSet -> LevelToml]]
      /\ files \in [Layers -> [Files -> Contents \cup {0}]]
  BY ContentAssumption DEF BuildInit
<1>4. ~Busy /\ ~Wrote /\ build.pc = "idle" /\ settled.edits = -1 /\ output.is = "none"
      /\ manifest.is = "none"
  BY <1>1 DEF Busy, Wrote, NoBuild, Unsettled, NoOutput, NoManifest
<1>5. TreeInv
  <2>1. BuildTypeOK
    <3>1. build.quake \in BOOLEAN /\ build.ran \in BOOLEAN /\ build.same \in BOOLEAN
      BY <1>1 DEF NoBuild
    <3>2. torn \in BOOLEAN
      BY <1>1
    <3>3. settled.edits \in -1..edits
      BY <1>1, <1>4
    <3> QED
      BY <1>3, <1>4, <3>1, <3>2, <3>3 DEF BuildTypeOK
  <2>2. IndexShape(cached)
    BY <1>1 DEF IndexShape, NoIndex
  <2> QED
    BY <1>1, <1>3, <1>4, <2>1, <2>2 DEF TreeInv, NoBuild
<1>6. BuildIndexInv /\ OutputInv /\ FreshInv /\ SkipInv
  BY <1>4 DEF BuildIndexInv, OutputInv, FreshInv, SkipInv
<1>7. HashesInv /\ SettledInv
  BY <1>1, <1>4 DEF HashesInv, SettledInv
<1> QED
  BY <1>2, <1>5, <1>6, <1>7 DEF BuildInv

LEMMA BuildInvStep == BuildInv /\ [BuildNext]_vars => BuildInv'
<1> SUFFICES ASSUME BuildInv, [BuildNext]_vars PROVE BuildInv'
  OBVIOUS
<1>1. CASE UserEdits /\ UNCHANGED bvars
  BY <1>1, UserEditsStep
<1>2. CASE EditLevel \/ EditFile
  BY <1>2, ContentEditStep
<1>3. CASE ToolIndexStep
  BY <1>3, ToolStep
<1>4. CASE BuildSteps
  BY <1>4, BeginStep, StageStep, IndexWriteStep, ManifestStep, DiesStep DEF BuildSteps
<1>5. CASE ContentClean
  BY <1>5, CleanStep
<1>6. CASE UNCHANGED vars
  <2>1. UNCHANGED qvars /\ UNCHANGED bvars
    BY <1>6 DEF vars
  <2>2. MountsInv' /\ IndexInv'
    BY <2>1, MountsStep, IndexStep DEF BuildInv
  <2>3. disk' = disk /\ stamp' = stamp /\ edits' = edits /\ blind' = blind /\ cached' = cached
    BY <2>1 DEF qvars
  <2> QED
    BY <2>1, <2>2, <2>3, StillStep DEF BuildInv
<1> QED
  BY <1>1, <1>2, <1>3, <1>4, <1>5, <1>6 DEF BuildNext

LEMMA BuildInvTells == BuildInv => BuildsTell
<1> SUFFICES ASSUME BuildInv PROVE BuildsTell
  OBVIOUS
<1>1. BuildTypeOK /\ ValidateCovers
  BY ValidateIsEnough DEF BuildInv, TreeInv
<1>2. ManifestTrue
  <2>1. manifest.is = "whole" => OutputOfManifest
    BY DEF BuildInv, OutputInv
  <2>2. manifest.is = "whole" /\ settled.edits = edits
          => InputsTrue(manifest.inputs, manifest.knows)
    BY DEF BuildInv, HashesInv
  <2> QED
    BY <2>1, <2>2 DEF ManifestTrue, InputsTrue
<1>3. SecondBuildIdle
  <2>1. CASE Busy
    BY <2>1 DEF BuildInv, SkipInv, SecondBuildIdle
  <2>2. CASE ~Busy
    BY <2>2 DEF BuildInv, TreeInv, SecondBuildIdle
  <2> QED
    BY <2>1, <2>2
<1> QED
  BY <1>1, <1>2, <1>3 DEF BuildsTell

(* A build leaves what its manifest says, does nothing when nothing was    *)
(* changed, and can be run where validate has passed; the state is typed   *)
(* (tools main.rs:1159, 1807, 1864, 2062).                                 *)
THEOREM BuildsTellOfTheirInputs == BuildSpec => []BuildsTell
<1>1. BuildInit => BuildInv
  BY BuildStarts
<1>2. BuildInv /\ [BuildNext]_vars => BuildInv'
  BY BuildInvStep
<1>3. BuildInv => BuildsTell
  BY BuildInvTells
<1> QED
  BY <1>1, <1>2, <1>3, PTL DEF BuildSpec

(* The tools, killed or not, keep the index file as it must be: what it    *)
(* says, if its fingerprint is that of the directory, a scan would say,    *)
(* but for the changes the fingerprint misses (quake_index.rs:155).        *)
THEOREM ToolsKeepTheIndex == BuildSpec => []IndexFresh
<1>1. BuildInit => BuildInv
  BY BuildStarts
<1>2. BuildInv /\ [BuildNext]_vars => BuildInv'
  BY BuildInvStep
<1>3. BuildInv => IndexFresh
  BY TrustyIsFresh DEF BuildInv
<1> QED
  BY <1>1, <1>2, <1>3, PTL DEF BuildSpec

(***************************************************************************)
(* The runner that starts these tools (RunnerGui): its lanes, what it says *)
(* of a manifest and its statistics.                                       *)
(***************************************************************************)

(* What a log keeps of a stream when lines are added and dropped: each line *)
(* of the stream in b is that at e in a, and what a has more of it is before. *)
KeepsEnd(e, a, b, r, s) ==
  /\ \A i \in From(b, r, s) : e[i] \in From(a, r, s) /\ b[i] = a[e[i]]
  /\ \A i, j \in From(b, r, s) : i < j => e[i] < e[j]
  /\ \A i \in From(a, r, s) :
        (\E k \in From(b, r, s) : e[k] = i) \/ (\A k \in From(b, r, s) : i < e[k])
KeepsAll(e, a, b, r, s) == \A i \in From(a, r, s) : \E k \in From(b, r, s) : e[k] = i

\* Then what was an end of a stream is an end, and what was all of it is all of
\* it when no line was lost.
LEMMA KeptLines ==
  ASSUME NEW a, NEW b, NEW r, NEW s, NEW texts, NEW last, NEW e,
         DOMAIN a \subseteq Int, DOMAIN b \subseteq Int, last \in Nat,
         KeepsEnd(e, a, b, r, s), EndOf(a, r, s, texts, last)
  PROVE  /\ EndOf(b, r, s, texts, last)
         /\ KeepsAll(e, a, b, r, s) /\ AllOf(a, r, s, last) => AllOf(b, r, s, last)
<1>0. /\ \A i \in From(b, r, s) : e[i] \in From(a, r, s) /\ b[i] = a[e[i]]
      /\ \A i, j \in From(b, r, s) : i < j => e[i] < e[j]
      /\ \A i \in From(a, r, s) :
            (\E k \in From(b, r, s) : e[k] = i) \/ (\A k \in From(b, r, s) : i < e[k])
  BY DEF KeepsEnd
<1>1. \A i \in From(b, r, s) : b[i].nth \in 1 .. last /\ b[i].text = texts[b[i].nth]
  BY <1>0 DEF EndOf
<1>2. \A i, j \in From(b, r, s) : i < j => b[i].nth < b[j].nth
  BY <1>0 DEF EndOf
<1>3. \A n \in 1 .. last : \/ \E i \in From(b, r, s) : b[i].nth = n
                           \/ \A i \in From(b, r, s) : n < b[i].nth
  <2> SUFFICES ASSUME NEW n \in 1 .. last
               PROVE  \/ \E i \in From(b, r, s) : b[i].nth = n
                      \/ \A i \in From(b, r, s) : n < b[i].nth
    OBVIOUS
  <2>1. CASE \A i \in From(a, r, s) : n < a[i].nth
    BY <1>0, <2>1
  <2>2. CASE \E i \in From(a, r, s) : a[i].nth = n
    <3>1. PICK i \in From(a, r, s) : a[i].nth = n
      BY <2>2
    <3>2. CASE \E k \in From(b, r, s) : e[k] = i
      BY <1>0, <3>1, <3>2
    <3>3. CASE \A k \in From(b, r, s) : i < e[k]
      BY <1>0, <3>1, <3>3 DEF EndOf
    <3> QED
      BY <1>0, <3>2, <3>3
  <2> QED
    BY <2>1, <2>2 DEF EndOf
<1>4. ASSUME KeepsAll(e, a, b, r, s), AllOf(a, r, s, last)
      PROVE  AllOf(b, r, s, last)
  BY <1>0, <1>4 DEF AllOf, KeepsAll
<1> QED
  BY <1>1, <1>2, <1>3, <1>4 DEF EndOf

(* Sequences.                                                              *)
LEMMA Concatenated ==
  ASSUME NEW S, NEW x \in Seq(S), NEW y \in Seq(S)
  PROVE  /\ x \o y \in Seq(S) /\ Len(x \o y) = Len(x) + Len(y)
         /\ Len(x) \in Nat /\ Len(y) \in Nat
         /\ DOMAIN (x \o y) = 1 .. Len(x) + Len(y)
         /\ \A i \in 1 .. Len(x) : (x \o y)[i] = x[i]
         /\ \A i \in Len(x) + 1 .. Len(x) + Len(y) : (x \o y)[i] = y[i - Len(x)]
OBVIOUS

\* A sequence without its first elements.
LEMMA CutOff ==
  ASSUME NEW S, NEW x \in Seq(S), NEW k \in 1 .. Len(x) + 1
  PROVE  /\ SubSeq(x, k, Len(x)) \in Seq(S)
         /\ Len(SubSeq(x, k, Len(x))) = Len(x) + 1 - k
         /\ DOMAIN SubSeq(x, k, Len(x)) = 1 .. Len(x) + 1 - k
         /\ \A i \in 1 .. Len(x) + 1 - k : SubSeq(x, k, Len(x))[i] = x[i + k - 1]
OBVIOUS

\* A sequence with one element more.
LEMMA Appended ==
  ASSUME NEW S, NEW x \in Seq(S), NEW z \in S
  PROVE  /\ Append(x, z) \in Seq(S) /\ Len(Append(x, z)) = Len(x) + 1
         /\ DOMAIN Append(x, z) = 1 .. Len(x) + 1 /\ Append(x, z)[Len(x) + 1] = z
         /\ \A i \in 1 .. Len(x) : Append(x, z)[i] = x[i]
OBVIOUS

\* The strings; of its own the panel says four, which the provers are not
\* able to tell are among them.
Spoken == STRING \cup {"Process wait failed", "Process stop failed",
                      "Failed to start process", "Process already running."}
LineType == [run : Nat, stream : Streams \cup {"system"}, nth : Nat, text : Spoken]
Lines == Seq(LineType)

\* Two sequences of lines in one.
LEMMA Joined ==
  ASSUME NEW x \in Lines, NEW y \in Lines
  PROVE  /\ x \o y \in Lines /\ Len(x \o y) = Len(x) + Len(y)
         /\ Len(x) \in Nat /\ Len(y) \in Nat
         /\ DOMAIN (x \o y) = 1 .. Len(x) + Len(y)
         /\ \A i \in 1 .. Len(x) : (x \o y)[i] = x[i]
         /\ \A i \in Len(x) + 1 .. Len(x) + Len(y) : (x \o y)[i] = y[i - Len(x)]
<1>1. x \in Seq(LineType) /\ y \in Seq(LineType)
  BY DEF Lines
<1> QED
  BY <1>1, Concatenated DEF Lines

\* What a sequence of lines is.
LEMMA LinesAre ==
  ASSUME NEW x \in Lines
  PROVE  /\ Len(x) \in Nat /\ DOMAIN x = 1 .. Len(x) /\ \A i \in DOMAIN x : x[i] \in LineType
         /\ x = [i \in 1 .. Len(x) |-> x[i]]
BY DEF Lines

\* A line of another stream, or of none, is put in.
LEMMA LinePutIn ==
  ASSUME NEW x \in Lines, NEW y \in Lines, NEW z \in LineType,
         NEW r, NEW s, NEW texts, NEW last \in Nat,
         ~(z.run = r /\ z.stream = s), EndOf(x \o y, r, s, texts, last)
  PROVE  /\ EndOf(Append(x, z) \o y, r, s, texts, last)
         /\ AllOf(x \o y, r, s, last) => AllOf(Append(x, z) \o y, r, s, last)
<1> DEFINE a == x \o y
           b == Append(x, z) \o y
           e == [i \in From(b, r, s) |-> IF i <= Len(x) THEN i ELSE i - 1]
<1>0. /\ Append(x, z) \in Lines /\ Len(Append(x, z)) = Len(x) + 1
      /\ \A i \in 1 .. Len(x) : Append(x, z)[i] = x[i]
  BY Appended DEF Lines
<1>1. /\ Len(x) \in Nat /\ Len(y) \in Nat
      /\ DOMAIN a = 1 .. Len(x) + Len(y)
      /\ \A i \in 1 .. Len(x) : a[i] = x[i]
      /\ \A i \in Len(x) + 1 .. Len(x) + Len(y) : a[i] = y[i - Len(x)]
  BY Concatenated DEF Lines
<1>1a. /\ DOMAIN b = 1 .. Len(x) + 1 + Len(y)
       /\ \A i \in 1 .. Len(x) + 1 : b[i] = Append(x, z)[i]
       /\ \A i \in Len(x) + 1 + 1 .. Len(x) + 1 + Len(y) : b[i] = y[i - (Len(x) + 1)]
  <2> DEFINE u == Append(x, z)
  <2>1. u \in Seq(LineType) /\ y \in Seq(LineType) /\ Len(u) = Len(x) + 1
    BY <1>0 DEF Lines
  <2> HIDE DEF u
  <2>2. /\ DOMAIN (u \o y) = 1 .. Len(u) + Len(y)
        /\ \A i \in 1 .. Len(u) : (u \o y)[i] = u[i]
        /\ \A i \in Len(u) + 1 .. Len(u) + Len(y) : (u \o y)[i] = y[i - Len(u)]
    BY <2>1, Concatenated
  <2> QED
    BY <2>1, <2>2 DEF u
<1>2a. /\ \A i \in 1 .. Len(x) : b[i] = a[i]
       /\ b[Len(x) + 1] = z
  BY <1>0, <1>1, <1>1a, Appended DEF Lines
<1>2. \A i \in Len(x) + 2 .. Len(x) + 1 + Len(y) : b[i] = a[i - 1]
  <2> SUFFICES ASSUME NEW i \in Len(x) + 2 .. Len(x) + 1 + Len(y) PROVE b[i] = a[i - 1]
    OBVIOUS
  <2> HIDE DEF a, b
  <2>1. b[i] = y[i - (Len(x) + 1)]
    BY <1>1, <1>1a
  <2>2. a[i - 1] = y[i - 1 - Len(x)]
    BY <1>1
  <2>3. i - (Len(x) + 1) = i - 1 - Len(x)
    BY <1>1
  <2> QED
    BY <2>1, <2>2, <2>3
<1> HIDE DEF a, b
<1>3. \A i \in From(b, r, s) : i \in DOMAIN b /\ i # Len(x) + 1
  BY <1>2a DEF From
<1>4. \A i \in From(b, r, s) : e[i] \in From(a, r, s) /\ b[i] = a[e[i]]
  <2> SUFFICES ASSUME NEW i \in From(b, r, s) PROVE e[i] \in From(a, r, s) /\ b[i] = a[e[i]]
    OBVIOUS
  <2>1. i \in 1 .. Len(x) + 1 + Len(y) /\ i # Len(x) + 1
    BY <1>1a, <1>3
  <2>2. b[i].run = r /\ b[i].stream = s
    BY DEF From
  <2>3. CASE i <= Len(x)
    BY <1>1, <1>2a, <2>1, <2>2, <2>3 DEF From
  <2>4. CASE i > Len(x)
    <3>1. /\ i \in Len(x) + 2 .. Len(x) + 1 + Len(y) /\ i - 1 \in 1 .. Len(x) + Len(y)
          /\ e[i] = i - 1
      BY <1>1, <2>1, <2>4
    <3> QED
      BY <1>1, <1>2, <2>2, <3>1 DEF From
  <2> QED
    BY <1>1, <2>1, <2>3, <2>4
<1>5. \A i, j \in From(b, r, s) : i < j => e[i] < e[j]
  BY <1>1, <1>1a, <1>3
<1>6. \A i \in From(a, r, s) : \E k \in From(b, r, s) : e[k] = i
  <2> SUFFICES ASSUME NEW i \in From(a, r, s) PROVE \E k \in From(b, r, s) : e[k] = i
    OBVIOUS
  <2>1. i \in 1 .. Len(x) + Len(y)
    BY <1>1 DEF From
  <2>2. CASE i <= Len(x)
    <3>1. i \in From(b, r, s)
      BY <1>1, <1>1a, <1>2a, <2>1, <2>2 DEF From
    <3> QED
      BY <3>1, <2>2
  <2>3. CASE i > Len(x)
    <3>1. i + 1 \in Len(x) + 2 .. Len(x) + 1 + Len(y) /\ (i + 1) - 1 = i
      BY <1>1, <2>1, <2>3
    <3>2. i + 1 \in From(b, r, s)
      BY <1>1, <1>1a, <1>2, <3>1 DEF From
    <3>3. e[i + 1] = i
      BY <3>1, <3>2, <2>3, <1>1
    <3> QED
      BY <3>2, <3>3
  <2> QED
    BY <1>1, <2>1, <2>2, <2>3
<1>7. EndOf(a, r, s, texts, last)
  BY DEF a
<1> HIDE DEF e
<1>8. DOMAIN a \subseteq Int /\ DOMAIN b \subseteq Int
  BY <1>1, <1>1a
<1>9. EndOf(b, r, s, texts, last) /\ (AllOf(a, r, s, last) => AllOf(b, r, s, last))
  <2>1. KeepsEnd(e, a, b, r, s) /\ KeepsAll(e, a, b, r, s)
    BY <1>4, <1>5, <1>6 DEF KeepsEnd, KeepsAll
  <2> QED
    BY <1>7, <1>8, <2>1, KeptLines
<1> QED
  BY <1>9 DEF a, b

\* The first lines are dropped.
LEMMA LinesDropped ==
  ASSUME NEW x \in Lines, NEW y \in Lines, NEW k \in 1 .. Len(x) + 1,
         NEW r, NEW s, NEW texts, NEW last \in Nat, EndOf(x \o y, r, s, texts, last)
  PROVE  /\ EndOf(SubSeq(x, k, Len(x)) \o y, r, s, texts, last)
         /\ k = 1 /\ AllOf(x \o y, r, s, last) => AllOf(SubSeq(x, k, Len(x)) \o y, r, s, last)
<1> DEFINE a == x \o y
           b == SubSeq(x, k, Len(x)) \o y
           e == [i \in From(b, r, s) |-> i + k - 1]
<1>1. /\ Len(x) \in Nat /\ Len(y) \in Nat /\ k \in Nat
      /\ DOMAIN a = 1 .. Len(x) + Len(y)
      /\ \A i \in 1 .. Len(x) : a[i] = x[i]
      /\ \A i \in Len(x) + 1 .. Len(x) + Len(y) : a[i] = y[i - Len(x)]
  BY Concatenated DEF Lines
<1>2. /\ SubSeq(x, k, Len(x)) \in Lines
      /\ Len(SubSeq(x, k, Len(x))) = Len(x) + 1 - k
      /\ \A i \in 1 .. Len(x) + 1 - k : SubSeq(x, k, Len(x))[i] = x[i + k - 1]
  BY CutOff DEF Lines
<1>3. /\ DOMAIN b = 1 .. Len(x) + 1 - k + Len(y)
      /\ \A i \in 1 .. Len(x) + 1 - k : b[i] = SubSeq(x, k, Len(x))[i]
      /\ \A i \in Len(x) + 1 - k + 1 .. Len(x) + 1 - k + Len(y) : b[i] = y[i - (Len(x) + 1 - k)]
  <2> DEFINE u == SubSeq(x, k, Len(x))
  <2>1. u \in Seq(LineType) /\ y \in Seq(LineType) /\ Len(u) = Len(x) + 1 - k
    BY <1>2 DEF Lines
  <2> HIDE DEF u
  <2>2. /\ DOMAIN (u \o y) = 1 .. Len(u) + Len(y)
        /\ \A i \in 1 .. Len(u) : (u \o y)[i] = u[i]
        /\ \A i \in Len(u) + 1 .. Len(u) + Len(y) : (u \o y)[i] = y[i - Len(u)]
    BY <2>1, Concatenated
  <2> QED
    BY <2>1, <2>2 DEF u
<1> HIDE DEF a, b
<1>4. \A i \in 1 .. Len(x) + 1 - k + Len(y) : b[i] = a[i + k - 1] /\ i + k - 1 \in DOMAIN a
  <2> SUFFICES ASSUME NEW i \in 1 .. Len(x) + 1 - k + Len(y)
               PROVE  b[i] = a[i + k - 1] /\ i + k - 1 \in DOMAIN a
    OBVIOUS
  <2>1. CASE i <= Len(x) + 1 - k
    <3>1. i \in 1 .. Len(x) + 1 - k /\ i + k - 1 \in 1 .. Len(x)
      BY <1>1, <2>1
    <3>2. b[i] = x[i + k - 1]
      BY <1>2, <1>3, <3>1
    <3>3. a[i + k - 1] = x[i + k - 1] /\ i + k - 1 \in DOMAIN a
      BY <1>1, <3>1
    <3> QED
      BY <3>2, <3>3
  <2>2. CASE i > Len(x) + 1 - k
    <3>1. /\ i \in Len(x) + 1 - k + 1 .. Len(x) + 1 - k + Len(y)
          /\ i + k - 1 \in Len(x) + 1 .. Len(x) + Len(y)
          /\ i - (Len(x) + 1 - k) = i + k - 1 - Len(x)
      BY <1>1, <2>2
    <3>2. b[i] = y[i - (Len(x) + 1 - k)]
      BY <1>3, <3>1
    <3>3. a[i + k - 1] = y[i + k - 1 - Len(x)]
      BY <1>1, <3>1
    <3> QED
      BY <1>1, <3>1, <3>2, <3>3
  <2> QED
    BY <1>1, <2>1, <2>2
<1>5. \A i \in From(b, r, s) : i \in DOMAIN b /\ i \in Int
  BY <1>1, <1>3 DEF From
<1>6. \A i \in From(b, r, s) : e[i] \in From(a, r, s) /\ b[i] = a[e[i]]
  BY <1>3, <1>4, <1>5 DEF From
<1>7. \A i, j \in From(b, r, s) : i < j => e[i] < e[j]
  BY <1>1, <1>5
<1>8. \A i \in From(a, r, s) : IF i < k THEN \A j \in From(b, r, s) : i < e[j]
                               ELSE \E j \in From(b, r, s) : e[j] = i
  <2> SUFFICES ASSUME NEW i \in From(a, r, s)
               PROVE  IF i < k THEN \A j \in From(b, r, s) : i < e[j]
                      ELSE \E j \in From(b, r, s) : e[j] = i
    OBVIOUS
  <2>1. i \in 1 .. Len(x) + Len(y)
    BY <1>1 DEF From
  <2>2. CASE i < k
    BY <1>1, <1>3, <1>5, <2>1, <2>2
  <2>3. CASE i >= k
    <3>1. i - k + 1 \in DOMAIN b /\ (i - k + 1) + k - 1 = i
      BY <1>1, <1>3, <2>1, <2>3
    <3>2. i - k + 1 \in From(b, r, s)
      BY <1>3, <1>4, <3>1 DEF From
    <3> QED
      BY <3>1, <3>2, <2>3, <2>1, <1>1
  <2> QED
    BY <1>1, <2>1, <2>2, <2>3
<1>9. EndOf(a, r, s, texts, last) /\ DOMAIN a \subseteq Int /\ DOMAIN b \subseteq Int
  BY <1>1, <1>3 DEF a
<1>9a. \A i \in From(a, r, s) : i \in Int /\ i >= 1
  BY <1>1 DEF From
<1> HIDE DEF e
<1>10. KeepsEnd(e, a, b, r, s)
  BY <1>6, <1>7, <1>8 DEF KeepsEnd
<1>11. k = 1 => KeepsAll(e, a, b, r, s)
  BY <1>8, <1>9a DEF KeepsAll
<1>12. /\ EndOf(b, r, s, texts, last)
       /\ k = 1 /\ AllOf(a, r, s, last) => AllOf(b, r, s, last)
  BY <1>9, <1>10, <1>11, KeptLines
<1> QED
  BY <1>12 DEF a, b

\* The next line comes last.
LEMMA LineAdded ==
  ASSUME NEW a \in Lines, NEW z \in LineType, NEW r, NEW s, NEW texts, NEW last \in Nat,
         z = Line(r, s, last + 1, texts[last + 1]), EndOf(a, r, s, texts, last)
  PROVE  /\ EndOf(Append(a, z), r, s, texts, last + 1)
         /\ AllOf(a, r, s, last) => AllOf(Append(a, z), r, s, last + 1)
<1> DEFINE b == Append(a, z)
           n == Len(a) + 1
<1>1. /\ n \in Nat /\ n >= 1 /\ DOMAIN a = 1 .. n - 1 /\ DOMAIN b = 1 .. n /\ b[n] = z
      /\ \A i \in 1 .. n - 1 : b[i] = a[i]
  BY Appended DEF Lines
<1>2. z.run = r /\ z.stream = s /\ z.nth = last + 1 /\ z.text = texts[last + 1]
  BY DEF Line
<1> HIDE DEF b, n
<1>3. From(b, r, s) = From(a, r, s) \cup {n}
  <2>1. \A i : i \in 1 .. n <=> i \in 1 .. n - 1 \/ i = n
    BY <1>1
  <2> QED
    BY <1>1, <1>2, <2>1 DEF From
<1>4. \A i \in From(a, r, s) : i \in 1 .. n - 1 /\ b[i] = a[i]
  BY <1>1 DEF From
<1>5. \A i \in From(b, r, s) : b[i].nth \in 1 .. last + 1 /\ b[i].text = texts[b[i].nth]
  BY <1>1, <1>2, <1>3, <1>4 DEF EndOf
<1>6. \A i, j \in From(b, r, s) : i < j => b[i].nth < b[j].nth
  BY <1>1, <1>2, <1>3, <1>4 DEF EndOf
<1>7. \A m \in 1 .. last + 1 : \/ \E i \in From(b, r, s) : b[i].nth = m
                               \/ \A i \in From(b, r, s) : m < b[i].nth
  BY <1>1, <1>2, <1>3, <1>4 DEF EndOf
<1>8. AllOf(a, r, s, last) => AllOf(b, r, s, last + 1)
  <2> SUFFICES ASSUME AllOf(a, r, s, last), NEW m \in 1 .. last + 1
               PROVE  \E i \in From(b, r, s) : b[i].nth = m
    BY DEF AllOf
  <2>1. CASE m = last + 1
    BY <1>1, <1>2, <1>3, <2>1
  <2>2. CASE m \in 1 .. last
    BY <1>3, <1>4, <2>2 DEF AllOf
  <2> QED
    BY <2>1, <2>2
<1> QED
  BY <1>5, <1>6, <1>7, <1>8 DEF EndOf, b

(* What a log keeps is an end of what it was given.                        *)
LEMMA LatestIs ==
  ASSUME NEW x \in Lines
  PROVE  \E k \in 1 .. Len(x) + 1 :
           /\ Latest(x) = SubSeq(x, k, Len(x)) /\ (Len(x) <= LogMax => k = 1)
           /\ Latest(x) \in Lines /\ Len(Latest(x)) <= LogMax /\ Len(Latest(x)) <= Len(x)
           /\ \A i \in DOMAIN Latest(x) : \E j \in DOMAIN x : Latest(x)[i] = x[j]
<1> DEFINE k == IF Len(x) > LogMax THEN Len(x) - LogMax + 1 ELSE 1
<1>1. Len(x) \in Nat /\ LogMax \in Nat /\ DOMAIN x = 1 .. Len(x)
  BY GuiAssumption DEF Lines
<1>2. k \in 1 .. Len(x) + 1 /\ (Len(x) <= LogMax => k = 1) /\ Len(x) + 1 - k <= LogMax
  BY <1>1
<1>3. Latest(x) = SubSeq(x, k, Len(x))
  BY DEF Latest
<1> HIDE DEF k
<1>4. /\ SubSeq(x, k, Len(x)) \in Lines /\ Len(SubSeq(x, k, Len(x))) = Len(x) + 1 - k
      /\ DOMAIN SubSeq(x, k, Len(x)) = 1 .. Len(x) + 1 - k
      /\ \A i \in 1 .. Len(x) + 1 - k : SubSeq(x, k, Len(x))[i] = x[i + k - 1]
  BY <1>2, CutOff DEF Lines
<1>5. \A i \in 1 .. Len(x) + 1 - k : i + k - 1 \in DOMAIN x
  BY <1>1, <1>2
<1> QED
  BY <1>2, <1>3, <1>4, <1>5

\* Sequences put together in either order.
LEMMA Regrouped ==
  ASSUME NEW x \in Lines, NEW y \in Lines, NEW z \in Lines
  PROVE  x \o (y \o z) = (x \o y) \o z
<1>1. /\ x \o y \in Lines /\ y \o z \in Lines /\ Len(x \o y) = Len(x) + Len(y)
      /\ Len(y \o z) = Len(y) + Len(z) /\ Len(x) \in Nat /\ Len(y) \in Nat /\ Len(z) \in Nat
  BY Joined
<1> DEFINE a == x \o (y \o z)
           b == (x \o y) \o z
           n == Len(x) + Len(y) + Len(z)
<1>2. /\ a \in Lines /\ DOMAIN a = 1 .. n /\ \A i \in 1 .. Len(x) : a[i] = x[i]
      /\ \A i \in Len(x) + 1 .. n : a[i] = (y \o z)[i - Len(x)]
  <2> DEFINE u == y \o z
  <2>1. u \in Lines /\ Len(u) = Len(y) + Len(z)
    BY <1>1
  <2> HIDE DEF u
  <2>2. /\ x \o u \in Lines /\ DOMAIN (x \o u) = 1 .. Len(x) + Len(u)
        /\ \A i \in 1 .. Len(x) : (x \o u)[i] = x[i]
        /\ \A i \in Len(x) + 1 .. Len(x) + Len(u) : (x \o u)[i] = u[i - Len(x)]
    BY <2>1, Joined
  <2>3. Len(x) + Len(u) = n
    BY <1>1, <2>1
  <2> QED
    BY <2>2, <2>3 DEF u
<1>3. /\ b \in Lines /\ DOMAIN b = 1 .. n /\ \A i \in 1 .. Len(x) + Len(y) : b[i] = (x \o y)[i]
      /\ \A i \in Len(x) + Len(y) + 1 .. n : b[i] = z[i - (Len(x) + Len(y))]
  <2> DEFINE u == x \o y
  <2>1. u \in Lines /\ Len(u) = Len(x) + Len(y)
    BY <1>1
  <2> HIDE DEF u
  <2>2. /\ u \o z \in Lines /\ DOMAIN (u \o z) = 1 .. Len(u) + Len(z)
        /\ \A i \in 1 .. Len(u) : (u \o z)[i] = u[i]
        /\ \A i \in Len(u) + 1 .. Len(u) + Len(z) : (u \o z)[i] = z[i - Len(u)]
    BY <2>1, Joined
  <2> QED
    BY <2>1, <2>2 DEF u
<1>4. /\ \A i \in 1 .. Len(x) : (x \o y)[i] = x[i]
      /\ \A i \in Len(x) + 1 .. Len(x) + Len(y) : (x \o y)[i] = y[i - Len(x)]
      /\ \A i \in 1 .. Len(y) : (y \o z)[i] = y[i]
      /\ \A i \in Len(y) + 1 .. Len(y) + Len(z) : (y \o z)[i] = z[i - Len(y)]
  BY Joined
<1> HIDE DEF a, b
<1>5. \A i \in 1 .. n : a[i] = b[i]
  <2> SUFFICES ASSUME NEW i \in 1 .. n PROVE a[i] = b[i]
    OBVIOUS
  <2>1. CASE i <= Len(x)
    <3>1. i \in 1 .. Len(x) /\ i \in 1 .. Len(x) + Len(y)
      BY <1>1, <2>1
    <3>2. a[i] = x[i]
      BY <1>2, <3>1
    <3>3. b[i] = x[i]
      BY <1>3, <1>4, <3>1
    <3> QED
      BY <3>2, <3>3
  <2>2. CASE i > Len(x) /\ i <= Len(x) + Len(y)
    <3>1. i - Len(x) \in 1 .. Len(y) /\ i \in Len(x) + 1 .. n
      BY <1>1, <2>2
    <3>2. a[i] = y[i - Len(x)]
      BY <1>2, <1>4, <3>1
    <3>3. b[i] = y[i - Len(x)]
      BY <1>1, <1>3, <1>4, <2>2
    <3> QED
      BY <3>2, <3>3
  <2>3. CASE i > Len(x) + Len(y)
    <3>1. /\ i - Len(x) \in Len(y) + 1 .. Len(y) + Len(z) /\ i \in Len(x) + 1 .. n
          /\ i - Len(x) - Len(y) = i - (Len(x) + Len(y))
          /\ i \in Len(x) + Len(y) + 1 .. n
      BY <1>1, <2>3
    <3>2. a[i] = (y \o z)[i - Len(x)]
      BY <1>2, <3>1
    <3>3. (y \o z)[i - Len(x)] = z[i - Len(x) - Len(y)]
      BY <1>4, <3>1
    <3>4. b[i] = z[i - (Len(x) + Len(y))]
      BY <1>3, <3>1
    <3> QED
      BY <3>1, <3>2, <3>3, <3>4
  <2> QED
    BY <1>1, <2>1, <2>2, <2>3
<1>6. a = [i \in 1 .. n |-> a[i]] /\ b = [i \in 1 .. n |-> b[i]]
  <2>1. Len(a) = n /\ Len(b) = n
    BY <1>1, <1>2, <1>3, LinesAre
  <2> QED
    BY <1>2, <1>3, <2>1, LinesAre
<1> QED
  BY <1>5, <1>6 DEF a, b

-------------------------------------------------------------------------------
(* A lane and the programs it is about.                                    *)
LaneType ==
  [logs : Lines, child : Nat, channel : Nat, chan : Lines, exit : {"none", "done"}]
ProcType ==
  [lane : Lanes, job : UNION {Jobs[l] : l \in Lanes}, root : Roots,
   todo : [Streams -> Seq(STRING)], pipe : [Streams -> Lines],
   wrote : BOOLEAN, ended : BOOLEAN]

Texts(p, s) == Prints[p.job][s]
Told(p, s) == Len(Texts(p, s)) - Len(p.todo[s])

\* The lines a program still has are those it has not printed; what is in
\* its pipes is its own.
ProcOK(r, p) ==
  /\ p.job \in Jobs[p.lane]
  /\ \A s \in Streams :
       /\ Len(p.todo[s]) <= Len(Texts(p, s))
       /\ \A k \in 1 .. Len(p.todo[s]) : p.todo[s][k] = Texts(p, s)[Told(p, s) + k]
       /\ \A k \in DOMAIN p.pipe[s] : p.pipe[s][k].run = r /\ p.pipe[s][k].stream = s

SeenOf(lane, p, s) == lane.logs \o (lane.chan \o p.pipe[s])
StreamOK(lane, p, r, s, w) ==
  /\ EndOf(SeenOf(lane, p, s), r, s, Texts(p, s), Told(p, s))
  /\ w => AllOf(SeenOf(lane, p, s), r, s, Told(p, s))

LaneOK(l, lane, ps, w) ==
  /\ lane.child \in {0, lane.channel} /\ lane.channel \in 0 .. Len(ps)
  /\ Len(lane.logs) <= LogMax
  /\ \A i \in DOMAIN lane.logs : lane.logs[i].run \in {0, lane.channel}
  /\ \A i \in DOMAIN lane.chan : lane.chan[i].run \in {0, lane.channel}
  /\ lane.channel # 0 =>
       /\ ps[lane.channel].lane = l
       /\ \A s \in Streams : StreamOK(lane, ps[lane.channel], lane.channel, s, w)
  /\ lane.channel = 0 => \A r \in DOMAIN ps : ps[r].lane # l

\* How much a program has printed, and what.
LEMMA ToldTyped ==
  ASSUME NEW p \in ProcType, NEW r, ProcOK(r, p), NEW s \in Streams
  PROVE  Told(p, s) \in Nat /\ Texts(p, s) \in Seq(STRING)
<1>1. Texts(p, s) \in Seq(STRING) /\ p.todo[s] \in Seq(STRING)
  BY GuiAssumption DEF ProcOK, ProcType, Texts
<1>2. Len(p.todo[s]) <= Len(Texts(p, s))
  BY DEF ProcOK
<1> QED
  BY <1>1, <1>2 DEF Told

\* The system's own lines are of no run.
LEMMA SystemPushed ==
  ASSUME NEW l \in Lanes, NEW lane \in LaneType, NEW ps \in Seq(ProcType), NEW w,
         \A r \in DOMAIN ps : ProcOK(r, ps[r]),
         LaneOK(l, lane, ps, w), NEW t \in Spoken
  PROVE  /\ PushLine(lane, System(t)) \in LaneType
         /\ LaneOK(l, PushLine(lane, System(t)), ps, w /\ ~Overflows(lane, 1))
<1> DEFINE z == System(t)
           x == Append(lane.logs, z)
           new == PushLine(lane, z)
<1>1. z \in LineType /\ z.run = 0 /\ z.stream = "system"
  BY DEF System, Line, LineType
<1>2. /\ x \in Lines /\ Len(x) = Len(lane.logs) + 1 /\ DOMAIN x = 1 .. Len(lane.logs) + 1
      /\ x[Len(lane.logs) + 1] = z /\ \A i \in 1 .. Len(lane.logs) : x[i] = lane.logs[i]
      /\ lane.logs \in Lines /\ lane.chan \in Lines
  <2>1. lane.logs \in Lines /\ lane.chan \in Lines
    BY DEF LaneType
  <2> QED
    BY <1>1, <2>1, Appended DEF Lines
<1>3. /\ new.logs = Latest(x) /\ new.child = lane.child /\ new.channel = lane.channel
      /\ new.chan = lane.chan
      /\ new = [logs |-> Latest(x), child |-> lane.child, channel |-> lane.channel,
                chan |-> lane.chan, exit |-> lane.exit]
  BY DEF PushLine, LaneType
<1> HIDE DEF x, z, new
<1>4. PICK k \in 1 .. Len(x) + 1 :
        /\ Latest(x) = SubSeq(x, k, Len(x)) /\ (Len(x) <= LogMax => k = 1)
        /\ Latest(x) \in Lines /\ Len(Latest(x)) <= LogMax /\ Len(Latest(x)) <= Len(x)
        /\ \A i \in DOMAIN Latest(x) : \E j \in DOMAIN x : Latest(x)[i] = x[j]
  BY <1>2, LatestIs
<1>5. new \in LaneType
  BY <1>3, <1>4 DEF LaneType
<1>6. \A i \in DOMAIN x : x[i].run \in {0, lane.channel}
  <2>1. \A i \in 1 .. Len(lane.logs) : lane.logs[i].run \in {0, lane.channel}
    BY <1>2 DEF LaneOK, Lines
  <2> QED
    BY <1>1, <1>2, <2>1
<1>7. \A i \in DOMAIN new.logs : new.logs[i].run \in {0, new.channel}
  BY <1>3, <1>4, <1>6
<1>8. ASSUME lane.channel # 0, NEW s \in Streams
      PROVE  StreamOK(new, ps[lane.channel], lane.channel, s, w /\ ~Overflows(lane, 1))
  <2> DEFINE p == ps[lane.channel]
             y == lane.chan \o p.pipe[s]
             r == lane.channel
  <2>1. p \in ProcType /\ ProcOK(r, p)
    BY <1>8 DEF LaneOK
  <2>2. y \in Lines
    BY <1>2, <2>1, Joined DEF ProcType
  <2>3. Told(p, s) \in Nat
    BY <2>1, ToldTyped
  <2>4. /\ EndOf(lane.logs \o y, r, s, Texts(p, s), Told(p, s))
        /\ w => AllOf(lane.logs \o y, r, s, Told(p, s))
    BY <1>8 DEF LaneOK, StreamOK, SeenOf
  <2>5. ~(z.run = r /\ z.stream = s)
    BY <1>1, <1>8
  <2> HIDE DEF p, y, r
  <2>6. /\ EndOf(x \o y, r, s, Texts(p, s), Told(p, s))
        /\ w => AllOf(x \o y, r, s, Told(p, s))
    BY <1>1, <1>2, <2>2, <2>3, <2>4, <2>5, LinePutIn DEF x
  <2>7. /\ EndOf(Latest(x) \o y, r, s, Texts(p, s), Told(p, s))
        /\ k = 1 /\ w => AllOf(Latest(x) \o y, r, s, Told(p, s))
    BY <1>2, <1>4, <2>2, <2>3, <2>6, LinesDropped
  <2>8. ~Overflows(lane, 1) => k = 1
    BY <1>2, <1>4, GuiAssumption DEF Overflows, Lines
  <2> QED
    BY <1>3, <2>7, <2>8 DEF StreamOK, SeenOf, p, y, r
<1>9. LaneOK(l, new, ps, w /\ ~Overflows(lane, 1))
  BY <1>3, <1>4, <1>7, <1>8 DEF LaneOK
<1> QED
  BY <1>5, <1>9 DEF new, z

\* A poll takes over what has arrived.
LEMMA DrainedOK ==
  ASSUME NEW l \in Lanes, NEW lane \in LaneType, NEW ps \in Seq(ProcType), NEW w,
         \A r \in DOMAIN ps : ProcOK(r, ps[r]), LaneOK(l, lane, ps, w)
  PROVE  /\ Drained(lane) \in LaneType
         /\ LaneOK(l, Drained(lane), ps, w /\ ~Overflows(lane, Len(lane.chan)))
<1> DEFINE u == lane.logs
           v == lane.chan
           x == u \o v
           new == Drained(lane)
<1>1. u \in Lines /\ v \in Lines /\ lane \in [logs : Lines, child : Nat, channel : Nat,
                                            chan : Lines, exit : {"none", "done"}]
  BY DEF LaneType
<1>3. new = [logs |-> Latest(x), child |-> lane.child, channel |-> lane.channel,
             chan |-> <<>>, exit |-> lane.exit]
  <2> DEFINE m == [lane EXCEPT !.logs = Latest(x)]
  <2>1. m = [logs |-> Latest(x), child |-> lane.child, channel |-> lane.channel,
             chan |-> lane.chan, exit |-> lane.exit]
    BY <1>1
  <2>2. new = [m EXCEPT !.chan = <<>>]
    BY DEF Drained
  <2> HIDE DEF m
  <2> QED
    BY <2>1, <2>2
<1>3a. /\ new.logs = Latest(x) /\ new.child = lane.child /\ new.channel = lane.channel
       /\ new.chan = <<>> /\ new.exit = lane.exit
  BY <1>3
<1>3b. Overflows(lane, Len(lane.chan)) <=> Len(u) + Len(v) > LogMax
  BY DEF Overflows
<1>3c. lane.logs = u /\ lane.chan = v
  OBVIOUS
<1> HIDE DEF x, new, u, v
<1>2. /\ x \in Lines /\ Len(x) = Len(u) + Len(v) /\ DOMAIN x = 1 .. Len(u) + Len(v)
      /\ \A i \in 1 .. Len(u) : x[i] = u[i]
      /\ \A i \in Len(u) + 1 .. Len(u) + Len(v) : x[i] = v[i - Len(u)]
      /\ Len(u) \in Nat /\ Len(v) \in Nat
  BY <1>1, Joined DEF x
<1>4. PICK k \in 1 .. Len(x) + 1 :
        /\ Latest(x) = SubSeq(x, k, Len(x)) /\ (Len(x) <= LogMax => k = 1)
        /\ Latest(x) \in Lines /\ Len(Latest(x)) <= LogMax /\ Len(Latest(x)) <= Len(x)
        /\ \A i \in DOMAIN Latest(x) : \E j \in DOMAIN x : Latest(x)[i] = x[j]
  BY <1>2, LatestIs
<1>5. <<>> \in Lines /\ new \in LaneType
  BY <1>1, <1>3, <1>4 DEF LaneType, Lines
<1>6. \A i \in DOMAIN x : x[i].run \in {0, lane.channel}
  <2>1. /\ \A i \in 1 .. Len(u) : u[i].run \in {0, lane.channel}
        /\ \A i \in 1 .. Len(v) : v[i].run \in {0, lane.channel}
    <3>1. DOMAIN u = 1 .. Len(u) /\ DOMAIN v = 1 .. Len(v)
      BY <1>1, LinesAre
    <3> QED
      BY <1>3c, <3>1 DEF LaneOK
  <2>2. \A i \in Len(u) + 1 .. Len(u) + Len(v) : i - Len(u) \in 1 .. Len(v)
    BY <1>2
  <2>3. \A i \in DOMAIN x : i \in 1 .. Len(u) \/ i \in Len(u) + 1 .. Len(u) + Len(v)
    BY <1>2
  <2> QED
    BY <1>2, <2>1, <2>2, <2>3
<1>7. \A i \in DOMAIN new.logs : new.logs[i].run \in {0, new.channel}
  BY <1>3a, <1>4, <1>6
<1>8. ASSUME lane.channel # 0, NEW s \in Streams
      PROVE  StreamOK(new, ps[lane.channel], lane.channel, s, w /\ ~Overflows(lane, Len(lane.chan)))
  <2> DEFINE p == ps[lane.channel]
             y == p.pipe[s]
             r == lane.channel
  <2>1. p \in ProcType /\ ProcOK(r, p)
    BY <1>8 DEF LaneOK, LaneType
  <2>2. y \in Lines
    BY <2>1 DEF ProcType
  <2>3. Told(p, s) \in Nat
    BY <2>1, ToldTyped
  <2>4. /\ EndOf(u \o (v \o y), r, s, Texts(p, s), Told(p, s))
        /\ w => AllOf(u \o (v \o y), r, s, Told(p, s))
    BY <1>3c, <1>8 DEF LaneOK, StreamOK, SeenOf
  <2> HIDE DEF p, y, r
  <2>5. u \o (v \o y) = x \o y
    BY <1>1, <2>2, Regrouped DEF x
  <2>6. /\ EndOf(x \o y, r, s, Texts(p, s), Told(p, s))
        /\ w => AllOf(x \o y, r, s, Told(p, s))
    BY <2>4, <2>5
  <2>7. /\ EndOf(Latest(x) \o y, r, s, Texts(p, s), Told(p, s))
        /\ k = 1 /\ w => AllOf(Latest(x) \o y, r, s, Told(p, s))
    BY <1>2, <1>4, <2>2, <2>3, <2>6, LinesDropped
  <2>8. ~Overflows(lane, Len(lane.chan)) => k = 1
    BY <1>2, <1>3b, <1>4, GuiAssumption
  <2>9. new.logs \o (new.chan \o y) = Latest(x) \o y
    BY <1>3a, <2>2 DEF Lines
  <2> QED
    BY <2>7, <2>8, <2>9 DEF StreamOK, SeenOf, p, y, r
<1>9. LaneOK(l, new, ps, w /\ ~Overflows(lane, Len(lane.chan)))
  <2>1. \A i \in DOMAIN new.chan : new.chan[i].run \in {0, new.channel}
    BY <1>3a
  <2> QED
    BY <1>3a, <1>4, <1>7, <1>8, <2>1 DEF LaneOK
<1> QED
  BY <1>5, <1>9 DEF new

\* A line added to the last of three sequences.
LEMMA Pushed ==
  ASSUME NEW x \in Lines, NEW y \in Lines, NEW z \in LineType
  PROVE  /\ x \o Append(y, z) = Append(x \o y, z)
         /\ Append(x, z) \in Lines
<1>1. Append(y, z) = y \o <<z>> /\ <<z>> \in Lines
  BY DEF Lines
<1>2. x \o (y \o <<z>>) = (x \o y) \o <<z>>
  BY <1>1, Regrouped
<1>3. x \o y \in Lines
  BY Joined
<1>4. Append(x \o y, z) = (x \o y) \o <<z>>
  BY <1>3 DEF Lines
<1>5. Append(x, z) \in Lines
  BY DEF Lines
<1> QED
  BY <1>1, <1>2, <1>4, <1>5

\* A line handed on from a sequence to the one before it.
LEMMA Taken ==
  ASSUME NEW x \in Lines, NEW y \in Lines, y # <<>>
  PROVE  /\ Head(y) \in LineType /\ Tail(y) \in Lines
         /\ Append(x, Head(y)) \o Tail(y) = x \o y
<1>1. Head(y) \in LineType /\ Tail(y) \in Lines /\ y = <<Head(y)>> \o Tail(y)
  <2>1. y \in Seq(LineType)
    BY DEF Lines
  <2>2. Head(y) \in LineType /\ Tail(y) \in Seq(LineType)
    BY <2>1
  <2>3. y = <<Head(y)>> \o Tail(y)
    BY <2>1
  <2> QED
    BY <2>2, <2>3 DEF Lines
<1>2. <<Head(y)>> \in Lines /\ Append(x, Head(y)) = x \o <<Head(y)>>
  BY <1>1 DEF Lines
<1>3. x \o (<<Head(y)>> \o Tail(y)) = (x \o <<Head(y)>>) \o Tail(y)
  BY <1>1, <1>2, Regrouped
<1> QED
  BY <1>1, <1>2, <1>3

\* With its child a lane gives up nothing else.
LEMMA ChildLeft ==
  ASSUME NEW l \in Lanes, NEW lane \in LaneType, NEW ps, NEW w, NEW x \in LaneType,
         x.logs = lane.logs, x.chan = lane.chan, x.channel = lane.channel, x.child = 0,
         LaneOK(l, lane, ps, w)
  PROVE  LaneOK(l, x, ps, w)
BY DEF LaneOK, StreamOK, SeenOf

\* A lane whose child has ended has the log and the channel it had.
LEMMA LaneGoesOn ==
  ASSUME NEW lane \in LaneType
  PROVE  /\ Ended(lane) \in LaneType /\ [lane EXCEPT !.child = 0] \in LaneType
         /\ Ended(lane).logs = lane.logs /\ Ended(lane).chan = lane.chan
         /\ Ended(lane).channel = lane.channel /\ Ended(lane).child = 0
         /\ [lane EXCEPT !.child = 0].logs = lane.logs
         /\ [lane EXCEPT !.child = 0].chan = lane.chan
         /\ [lane EXCEPT !.child = 0].channel = lane.channel
         /\ [lane EXCEPT !.child = 0].child = 0
<1> DEFINE m == [lane EXCEPT !.child = 0]
<1>1. m = [logs |-> lane.logs, child |-> 0, channel |-> lane.channel, chan |-> lane.chan,
           exit |-> lane.exit]
  BY DEF LaneType
<1>2. m \in LaneType
  BY <1>1 DEF LaneType
<1>3. Ended(lane) = [m EXCEPT !.exit = "done"]
  BY DEF Ended
<1> HIDE DEF m
<1>4. Ended(lane) = [logs |-> lane.logs, child |-> 0, channel |-> lane.channel,
                     chan |-> lane.chan, exit |-> "done"]
  BY <1>1, <1>3
<1>5. Ended(lane) \in LaneType
  BY <1>4 DEF LaneType
<1> QED
  BY <1>1, <1>2, <1>4, <1>5 DEF m

\* A lane that forgets its child says so in its log and loses no other line.
LEMMA AbandonedOK ==
  ASSUME NEW l \in Lanes, NEW lane \in LaneType, NEW ps \in Seq(ProcType), NEW w,
         \A r \in DOMAIN ps : ProcOK(r, ps[r]), LaneOK(l, lane, ps, w), NEW t \in Spoken
  PROVE  /\ Abandoned(lane, t) \in LaneType /\ Abandoned(lane, t).child = 0
         /\ LaneOK(l, Abandoned(lane, t), ps, w /\ ~Overflows(lane, 1))
<1> DEFINE m == PushLine(lane, System(t))
           v == w /\ ~Overflows(lane, 1)
<1>1. m \in LaneType /\ LaneOK(l, m, ps, v)
  BY SystemPushed
<1>2. Abandoned(lane, t) = [m EXCEPT !.child = 0]
  BY DEF Abandoned
<1> HIDE DEF m, v
<1>3. /\ Abandoned(lane, t) \in LaneType /\ Abandoned(lane, t).logs = m.logs
      /\ Abandoned(lane, t).chan = m.chan /\ Abandoned(lane, t).channel = m.channel
      /\ Abandoned(lane, t).child = 0
  BY <1>1, <1>2, LaneGoesOn
<1>4. LaneOK(l, Abandoned(lane, t), ps, v)
  BY <1>1, <1>3, ChildLeft
<1> QED
  BY <1>3, <1>4 DEF v

\* What a poll leaves of a lane.
LEMMA PolledOK ==
  ASSUME NEW l \in Lanes, NEW lane \in LaneType, procs \in Seq(ProcType), NEW w,
         \A r \in DOMAIN procs : ProcOK(r, procs[r]), LaneOK(l, lane, procs, w),
         NEW fails, fails => lane.child # 0
  PROVE  /\ Poll(lane, fails) \in LaneType
         /\ LaneOK(l, Poll(lane, fails), procs, w /\ ~Overflows(lane, Len(lane.chan) + Some(fails)))
         /\ Poll(lane, fails).child =
              IF fails \/ (lane.child # 0 /\ procs[lane.child].ended) THEN 0 ELSE lane.child
<1> DEFINE m == Drained(lane)
           u == lane.logs
           v == lane.chan
           x == u \o v
<1>1. /\ m \in LaneType /\ LaneOK(l, m, procs, w /\ ~Overflows(lane, Len(lane.chan)))
  BY DrainedOK
<1>2. u \in Lines /\ v \in Lines /\ m.logs = Latest(x) /\ m.child = lane.child
  <2>1. lane \in [logs : Lines, child : Nat, channel : Nat, chan : Lines, exit : {"none", "done"}]
    BY DEF LaneType
  <2>2. \A q : [lane EXCEPT !.logs = q, !.chan = <<>>].logs = q
             /\ [lane EXCEPT !.logs = q, !.chan = <<>>].child = lane.child
    BY <2>1
  <2> QED
    BY <2>1, <2>2 DEF Drained
<1>3. /\ Overflows(lane, Len(lane.chan)) <=> Len(u) + Len(v) > LogMax
      /\ Overflows(lane, Len(lane.chan) + 1) <=> Len(u) + (Len(v) + 1) > LogMax
      /\ Overflows(m, 1) <=> Len(m.logs) + 1 > LogMax
  BY DEF Overflows
<1> HIDE DEF u, v, m, x
<1>4. /\ x \in Lines /\ Len(x) = Len(u) + Len(v) /\ Len(u) \in Nat /\ Len(v) \in Nat
      /\ Len(m.logs) <= Len(x) /\ Len(m.logs) \in Nat /\ LogMax \in Nat
  <2>1. /\ x \in Lines /\ Len(x) = Len(u) + Len(v) /\ Len(u) \in Nat /\ Len(v) \in Nat
    BY <1>2, Joined DEF x
  <2>2. Latest(x) \in Lines /\ Len(Latest(x)) <= Len(x)
    BY <2>1, LatestIs
  <2> QED
    BY <1>2, <2>1, <2>2, LinesAre, GuiAssumption
<1>5. ~Overflows(lane, Len(lane.chan) + 1) => ~Overflows(lane, Len(lane.chan)) /\ ~Overflows(m, 1)
  BY <1>3, <1>4
<1>6. Poll(lane, fails) = Waited(m, fails)
  BY DEF Poll, m
<1>7. CASE fails
  <2> DEFINE t == "Process wait failed"
             o == w /\ ~Overflows(lane, Len(lane.chan))
  <2>1. Poll(lane, fails) = Abandoned(m, t)
    BY <1>2, <1>6, <1>7 DEF Waited
  <2>2. Some(fails) = 1
    BY <1>7 DEF Some
  <2>3. t \in Spoken
    BY DEF Spoken
  <2>4. LaneOK(l, m, procs, o)
    BY <1>1
  <2> HIDE DEF t, o
  <2>5. /\ Abandoned(m, t) \in LaneType /\ Abandoned(m, t).child = 0
        /\ LaneOK(l, Abandoned(m, t), procs, o /\ ~Overflows(m, 1))
    BY <1>1, <2>3, <2>4, AbandonedOK
  <2>6. w /\ ~Overflows(lane, Len(lane.chan) + 1) => o /\ ~Overflows(m, 1)
    BY <1>5 DEF o
  <2>7. LaneOK(l, Abandoned(m, t), procs, w /\ ~Overflows(lane, Len(lane.chan) + 1))
    BY <2>5, <2>6 DEF LaneOK, StreamOK
  <2> QED
    BY <1>7, <2>1, <2>2, <2>5, <2>7
<1>8. CASE ~fails
  <2>1. Some(fails) = 0 /\ Len(lane.chan) + 0 = Len(lane.chan)
    BY <1>2, <1>8, <1>4 DEF Some, v
  <2>2. CASE lane.child # 0 /\ procs[lane.child].ended
    <3>1. Poll(lane, fails) = Ended(m)
      BY <1>2, <1>6, <1>8, <2>2 DEF Waited
    <3>2. /\ Ended(m) \in LaneType /\ Ended(m).child = 0
          /\ LaneOK(l, Ended(m), procs, w /\ ~Overflows(lane, Len(lane.chan)))
      BY <1>1, LaneGoesOn, ChildLeft
    <3> QED
      BY <2>1, <2>2, <3>1, <3>2
  <2>3. CASE ~(lane.child # 0 /\ procs[lane.child].ended)
    <3>1. Poll(lane, fails) = m
      BY <1>2, <1>6, <1>8, <2>3 DEF Waited
    <3> QED
      BY <1>1, <1>2, <1>8, <2>1, <2>3, <3>1
  <2> QED
    BY <2>2, <2>3
<1> QED
  BY <1>7, <1>8

\* An emptied log.
LEMMA ClearedOK ==
  ASSUME NEW l \in Lanes, NEW lane \in LaneType, NEW ps \in Seq(ProcType), NEW w,
         \A r \in DOMAIN ps : ProcOK(r, ps[r]), LaneOK(l, lane, ps, w)
  PROVE  /\ [lane EXCEPT !.logs = <<>>] \in LaneType
         /\ [lane EXCEPT !.logs = <<>>].child = lane.child
         /\ LaneOK(l, [lane EXCEPT !.logs = <<>>], ps, FALSE)
<1> DEFINE new == [lane EXCEPT !.logs = <<>>]
           u == lane.logs
           v == lane.chan
<1>1. new = [logs |-> <<>>, child |-> lane.child, channel |-> lane.channel, chan |-> v,
             exit |-> lane.exit]
  BY DEF LaneType
<1>2. <<>> \in Lines /\ u \in Lines /\ v \in Lines /\ new \in LaneType
  <2>1. u \in Lines /\ v \in Lines
    BY DEF LaneType
  <2>2. <<>> \in Lines
    BY DEF Lines
  <2>3. new \in LaneType
    BY <1>1, <2>1, <2>2 DEF LaneType
  <2> QED
    BY <2>1, <2>2, <2>3
<1>3. /\ new.child = lane.child /\ new.channel = lane.channel /\ new.chan = lane.chan
      /\ new.logs = <<>> /\ lane.chan = v /\ lane.logs = u
  BY <1>1
<1> HIDE DEF new, u, v
<1>4. ASSUME lane.channel # 0, NEW s \in Streams
      PROVE  StreamOK(new, ps[lane.channel], lane.channel, s, FALSE)
  <2> DEFINE p == ps[lane.channel]
             y == v \o p.pipe[s]
             r == lane.channel
  <2>1. p \in ProcType /\ ProcOK(r, p)
    BY <1>4 DEF LaneOK, LaneType
  <2>2. y \in Lines
    BY <1>2, <2>1, Joined DEF ProcType
  <2>3. Told(p, s) \in Nat
    BY <2>1, ToldTyped
  <2>4. EndOf(u \o y, r, s, Texts(p, s), Told(p, s))
    BY <1>3, <1>4 DEF LaneOK, StreamOK, SeenOf
  <2> HIDE DEF p, y, r
  <2>5. /\ Len(u) + 1 \in 1 .. Len(u) + 1 /\ SubSeq(u, Len(u) + 1, Len(u)) = <<>>
    BY <1>2 DEF Lines
  <2>6. EndOf(<<>> \o y, r, s, Texts(p, s), Told(p, s))
    BY <1>2, <2>2, <2>3, <2>4, <2>5, LinesDropped
  <2> QED
    BY <1>3, <2>6 DEF StreamOK, SeenOf, p, y, r
<1>5. Len(<<>>) <= LogMax
  BY GuiAssumption
<1>6. \A i \in DOMAIN new.logs : new.logs[i].run \in {0, new.channel}
  BY <1>3
<1>7. LaneOK(l, new, ps, FALSE)
  BY <1>3, <1>4, <1>5, <1>6 DEF LaneOK
<1> QED
  BY <1>2, <1>3, <1>7 DEF new

\* A log that need not be whole is still the end of a stream.
LEMMA LaneWeaker ==
  ASSUME NEW l, NEW lane, NEW ps, NEW w, NEW v, LaneOK(l, lane, ps, w), v => w
  PROVE  LaneOK(l, lane, ps, v)
BY DEF LaneOK, StreamOK

\* A start that fails clears the log, which then is not whole.
LEMMA NotSpawnedOK ==
  ASSUME NEW l \in Lanes, NEW lane \in LaneType, NEW ps \in Seq(ProcType), NEW w,
         \A r \in DOMAIN ps : ProcOK(r, ps[r]), LaneOK(l, lane, ps, w)
  PROVE  /\ NotSpawned(lane) \in LaneType /\ NotSpawned(lane).child = lane.child
         /\ LaneOK(l, NotSpawned(lane), ps, FALSE)
<1> DEFINE m == [lane EXCEPT !.logs = <<>>]
           t == "Failed to start process"
<1>1. m \in LaneType /\ m.child = lane.child /\ LaneOK(l, m, ps, FALSE)
  BY ClearedOK
<1>2. NotSpawned(lane) = PushLine(m, System(t)) /\ t \in Spoken
  BY DEF NotSpawned, Spoken
<1> HIDE DEF m, t
<1>3. /\ PushLine(m, System(t)) \in LaneType
      /\ LaneOK(l, PushLine(m, System(t)), ps, FALSE /\ ~Overflows(m, 1))
  BY <1>1, <1>2, SystemPushed
<1>4. PushLine(m, System(t)).child = m.child
  BY <1>1 DEF PushLine, LaneType
<1>5. LaneOK(l, PushLine(m, System(t)), ps, FALSE)
  BY <1>3, LaneWeaker
<1> QED
  BY <1>1, <1>2, <1>3, <1>4, <1>5

\* A lane that has started a program has seen nothing of it.
Fresh(l, j, root) ==
  [lane |-> l, job |-> j, root |-> root, todo |-> Prints[j],
   pipe |-> [s \in Streams |-> <<>>], wrote |-> FALSE, ended |-> FALSE]

\* A program that was just started has printed nothing.
LEMMA FreshOK ==
  ASSUME NEW l \in Lanes, NEW j \in Jobs[l], NEW root \in Roots, NEW r
  PROVE  /\ Fresh(l, j, root) \in ProcType /\ ProcOK(r, Fresh(l, j, root))
         /\ Fresh(l, j, root).lane = l /\ ~Fresh(l, j, root).ended
         /\ \A s \in Streams : /\ Told(Fresh(l, j, root), s) = 0
                              /\ Fresh(l, j, root).pipe[s] = <<>>
<1> DEFINE p == Fresh(l, j, root)
<1>1. /\ p.lane = l /\ p.job = j /\ p.root = root /\ p.todo = Prints[j]
      /\ p.pipe = [s \in Streams |-> <<>>] /\ p.wrote = FALSE /\ p.ended = FALSE
      /\ p = [lane |-> l, job |-> j, root |-> root, todo |-> Prints[j],
              pipe |-> [s \in Streams |-> <<>>], wrote |-> FALSE, ended |-> FALSE]
  BY DEF Fresh
<1>2. Prints[j] \in [Streams -> Seq(STRING)]
  BY GuiAssumption
<1>3. <<>> \in Lines /\ [s \in Streams |-> <<>>] \in [Streams -> Lines]
  BY DEF Lines
<1>4. j \in UNION {Jobs[k] : k \in Lanes}
  OBVIOUS
<1> HIDE DEF p
<1>5. p \in ProcType
  BY <1>1, <1>2, <1>3, <1>4 DEF ProcType
<1>6. \A s \in Streams : /\ Told(p, s) = 0 /\ Texts(p, s) = p.todo[s] /\ p.todo[s] \in Seq(STRING)
                          /\ p.pipe[s] = <<>>
  BY <1>1, <1>2 DEF Told, Texts
<1>7. \A s \in Streams :
        /\ Len(p.todo[s]) <= Len(Texts(p, s))
        /\ \A k \in 1 .. Len(p.todo[s]) : p.todo[s][k] = Texts(p, s)[Told(p, s) + k]
        /\ \A k \in DOMAIN p.pipe[s] : p.pipe[s][k].run = r /\ p.pipe[s][k].stream = s
  BY <1>6
<1>8. ProcOK(r, p)
  BY <1>1, <1>7 DEF ProcOK
<1> QED
  BY <1>1, <1>5, <1>6, <1>8 DEF p

\* A start leaves a true lane, and the others as they were.
LEMMA StartedOK ==
  ASSUME NEW ps \in Seq(ProcType), \A r \in DOMAIN ps : ProcOK(r, ps[r]),
         NEW l \in Lanes, NEW j \in Jobs[l], NEW root \in Roots
  PROVE  /\ Append(ps, Fresh(l, j, root)) \in Seq(ProcType)
         /\ \A r \in DOMAIN Append(ps, Fresh(l, j, root)) :
               ProcOK(r, Append(ps, Fresh(l, j, root))[r])
         /\ Started(Len(ps) + 1) \in LaneType /\ Started(Len(ps) + 1).child = Len(ps) + 1
         /\ LaneOK(l, Started(Len(ps) + 1), Append(ps, Fresh(l, j, root)), TRUE)
         /\ \A w : \A k \in Lanes \ {l}, lane \in LaneType :
               LaneOK(k, lane, ps, w) => LaneOK(k, lane, Append(ps, Fresh(l, j, root)), w)
<1> DEFINE n == Len(ps) + 1
           p == Fresh(l, j, root)
           qs == Append(ps, p)
           new == Started(n)
<1>1. /\ p \in ProcType /\ ProcOK(n, p) /\ p.lane = l
      /\ \A s \in Streams : Told(p, s) = 0 /\ p.pipe[s] = <<>>
  BY FreshOK
<1> HIDE DEF p
<1>2. /\ qs \in Seq(ProcType) /\ Len(qs) = n /\ DOMAIN qs = 1 .. n /\ qs[n] = p
      /\ \A i \in 1 .. Len(ps) : qs[i] = ps[i]
      /\ Len(ps) \in Nat /\ DOMAIN ps = 1 .. Len(ps)
  BY <1>1
<1>3. \A r \in DOMAIN qs : ProcOK(r, qs[r])
  BY <1>1, <1>2
<1>4. new = [logs |-> <<>>, child |-> n, channel |-> n, chan |-> <<>>, exit |-> "none"]
  <2> DEFINE m == [NewLane EXCEPT !.child = n]
  <2>1. m = [logs |-> <<>>, child |-> n, channel |-> 0, chan |-> <<>>, exit |-> "none"]
    BY DEF NewLane
  <2>2. new = [m EXCEPT !.channel = n]
    BY DEF Started
  <2> HIDE DEF m
  <2> QED
    BY <2>1, <2>2
<1>5. new \in LaneType
  <2>1. <<>> \in Lines
    BY DEF Lines
  <2> QED
    BY <1>2, <1>4, <2>1 DEF LaneType
<1>6. /\ new.logs = <<>> /\ new.chan = <<>> /\ new.child = n /\ new.channel = n
  BY <1>4
<1> HIDE DEF new, qs, n
<1>7. n \in Nat /\ n # 0
  BY <1>2 DEF n
<1>8. ASSUME NEW s \in Streams PROVE StreamOK(new, p, n, s, TRUE)
  <2>1. SeenOf(new, p, s) = <<>> /\ Told(p, s) = 0
    BY <1>1, <1>6 DEF SeenOf
  <2>2. From(<<>>, n, s) = {} /\ 1 .. 0 = {}
    BY DEF From
  <2>3. EndOf(<<>>, n, s, Texts(p, s), 0) /\ AllOf(<<>>, n, s, 0)
    BY <2>2 DEF EndOf, AllOf
  <2> QED
    BY <2>1, <2>3 DEF StreamOK
<1>9. LaneOK(l, new, qs, TRUE)
  <2>1. n \in 0 .. Len(qs) /\ Len(<<>>) <= LogMax
    BY <1>2, <1>7, GuiAssumption
  <2>2. qs[new.channel] = p /\ qs[new.channel].lane = l
    BY <1>1, <1>2, <1>6
  <2>3. \A s \in Streams : StreamOK(new, qs[new.channel], new.channel, s, TRUE)
    BY <1>6, <1>8, <2>2
  <2>4. /\ \A i \in DOMAIN new.logs : new.logs[i].run \in {0, new.channel}
        /\ \A i \in DOMAIN new.chan : new.chan[i].run \in {0, new.channel}
    BY <1>6
  <2>5. Len(new.logs) <= LogMax /\ new.child \in {0, new.channel} /\ new.channel \in 0 .. Len(qs)
    BY <1>6, <2>1
  <2> QED
    BY <1>6, <1>7, <2>2, <2>3, <2>4, <2>5 DEF LaneOK
<1>10. ASSUME NEW k \in Lanes \ {l}, NEW lane \in LaneType, NEW w, LaneOK(k, lane, ps, w)
       PROVE  LaneOK(k, lane, qs, w)
  <2>1. lane.channel \in 0 .. Len(ps) /\ lane.channel \in 0 .. Len(qs)
    BY <1>2, <1>10 DEF LaneOK, n
  <2>2. lane.channel # 0 => qs[lane.channel] = ps[lane.channel]
    BY <1>2, <2>1
  <2>3. lane.channel = 0 => \A r \in DOMAIN qs : qs[r].lane # k
    <3>1. \A r \in 1 .. n : r = n \/ r \in 1 .. Len(ps)
      BY <1>2 DEF n
    <3> QED
      BY <1>1, <1>2, <1>10, <3>1 DEF LaneOK
  <2> QED
    BY <1>10, <2>1, <2>2, <2>3 DEF LaneOK
<1> QED
  BY <1>2, <1>3, <1>5, <1>6, <1>9, <1>10 DEF new, qs, n, p

\* What a lane shows of a program does not depend on whether it has written
\* or ended.
Alike(ps, qs) ==
  /\ qs \in Seq(ProcType) /\ Len(qs) = Len(ps)
  /\ \A r \in DOMAIN ps :
       /\ qs[r].lane = ps[r].lane /\ qs[r].job = ps[r].job
       /\ qs[r].todo = ps[r].todo /\ qs[r].pipe = ps[r].pipe

\* Programs that differ in no pipe leave every lane true.
LEMMA AlikeOK ==
  ASSUME NEW ps \in Seq(ProcType), NEW qs, Alike(ps, qs),
         \A r \in DOMAIN ps : ProcOK(r, ps[r])
  PROVE  /\ \A r \in DOMAIN qs : ProcOK(r, qs[r])
         /\ \A w : \A l \in Lanes, lane \in LaneType :
               LaneOK(l, lane, ps, w) => LaneOK(l, lane, qs, w)
<1>1. /\ qs \in Seq(ProcType) /\ Len(qs) = Len(ps) /\ DOMAIN qs = DOMAIN ps
      /\ DOMAIN ps = 1 .. Len(ps) /\ Len(ps) \in Nat
  BY DEF Alike
<1>2. \A r \in DOMAIN ps, s \in Streams :
        /\ Texts(qs[r], s) = Texts(ps[r], s) /\ Told(qs[r], s) = Told(ps[r], s)
  BY DEF Alike, Texts, Told
<1>3. \A r \in DOMAIN qs : ProcOK(r, qs[r])
  BY <1>1, <1>2 DEF Alike, ProcOK
<1>4. ASSUME NEW l \in Lanes, NEW lane \in LaneType, NEW w, LaneOK(l, lane, ps, w)
      PROVE  LaneOK(l, lane, qs, w)
  <2>1. lane.channel \in 0 .. Len(ps)
    BY <1>4 DEF LaneOK
  <2>2. ASSUME lane.channel # 0, NEW s \in Streams
        PROVE  StreamOK(lane, qs[lane.channel], lane.channel, s, w)
    <3>1. lane.channel \in DOMAIN ps
      BY <1>1, <2>1, <2>2
    <3>2. StreamOK(lane, ps[lane.channel], lane.channel, s, w)
      BY <1>4, <2>2 DEF LaneOK
    <3> QED
      BY <1>2, <3>1, <3>2 DEF Alike, StreamOK, SeenOf
  <2>3. lane.channel # 0 => qs[lane.channel].lane = l
    BY <1>1, <1>4, <2>1 DEF LaneOK, Alike
  <2>4. lane.channel = 0 => \A r \in DOMAIN qs : qs[r].lane # l
    BY <1>1, <1>4 DEF LaneOK, Alike
  <2> QED
    BY <1>1, <1>4, <2>1, <2>2, <2>3, <2>4 DEF LaneOK
<1> QED
  BY <1>3, <1>4

\* One program's pipes change, and what it still has to print.
Piped(p, todo, pipe) == [p EXCEPT !.todo = todo, !.pipe = pipe]

\* A program with other pipes.
LEMMA PipedIs ==
  ASSUME NEW p \in ProcType, NEW todo \in [Streams -> Seq(STRING)],
         NEW pipe \in [Streams -> Lines]
  PROVE  /\ Piped(p, todo, pipe) \in ProcType
         /\ Piped(p, todo, pipe).todo = todo /\ Piped(p, todo, pipe).pipe = pipe
         /\ Piped(p, todo, pipe).lane = p.lane /\ Piped(p, todo, pipe).job = p.job
         /\ Piped(p, todo, pipe).root = p.root /\ Piped(p, todo, pipe).wrote = p.wrote
         /\ Piped(p, todo, pipe).ended = p.ended
<1> DEFINE m == [p EXCEPT !.todo = todo]
<1>0. p = [lane |-> p.lane, job |-> p.job, root |-> p.root, todo |-> p.todo, pipe |-> p.pipe,
           wrote |-> p.wrote, ended |-> p.ended]
  BY DEF ProcType
<1>0a. m = [lane |-> p.lane, job |-> p.job, root |-> p.root, todo |-> todo, pipe |-> p.pipe,
            wrote |-> p.wrote, ended |-> p.ended]
  BY <1>0
<1>0b. Piped(p, todo, pipe) = [m EXCEPT !.pipe = pipe]
  BY DEF Piped
<1> HIDE DEF m
<1>1. Piped(p, todo, pipe) =
        [lane |-> p.lane, job |-> p.job, root |-> p.root, todo |-> todo, pipe |-> pipe,
         wrote |-> p.wrote, ended |-> p.ended]
  BY <1>0a, <1>0b
<1>2. /\ p.lane \in Lanes /\ p.job \in UNION {Jobs[l] : l \in Lanes} /\ p.root \in Roots
      /\ p.wrote \in BOOLEAN /\ p.ended \in BOOLEAN
  BY DEF ProcType
<1> QED
  BY <1>1, <1>2 DEF ProcType

\* A sequence without its first element.
LEMMA TailOf ==
  ASSUME NEW S, NEW x \in Seq(S), x # <<>>
  PROVE  /\ Head(x) = x[1] /\ Head(x) \in S /\ Tail(x) \in Seq(S)
         /\ Len(x) \in Nat \ {0} /\ Len(Tail(x)) = Len(x) - 1 /\ 1 \in 1 .. Len(x)
         /\ DOMAIN Tail(x) = 1 .. Len(x) - 1
         /\ \A k \in 1 .. Len(x) - 1 : Tail(x)[k] = x[k + 1] /\ k + 1 \in 1 .. Len(x)
OBVIOUS

\* A line printed is the next of its stream, in whatever lane it will be seen.
LEMMA PrintedOK ==
  ASSUME NEW ps \in Seq(ProcType), \A k \in DOMAIN ps : ProcOK(k, ps[k]),
         NEW r \in DOMAIN ps, NEW s \in Streams, ps[r].todo[s] # <<>>,
         NEW q, NEW z, z = Line(r, s, Told(ps[r], s) + 1, Head(ps[r].todo[s])),
         q = Piped(ps[r], [ps[r].todo EXCEPT ![s] = Tail(ps[r].todo[s])],
                   [ps[r].pipe EXCEPT ![s] = Append(ps[r].pipe[s], z)])
  PROVE  /\ [ps EXCEPT ![r] = q] \in Seq(ProcType) /\ Len([ps EXCEPT ![r] = q]) = Len(ps)
         /\ q.lane = ps[r].lane /\ q.ended = ps[r].ended
         /\ \A k \in DOMAIN [ps EXCEPT ![r] = q] : ProcOK(k, [ps EXCEPT ![r] = q][k])
         /\ \A w : \A l \in Lanes, lane \in LaneType :
               LaneOK(l, lane, ps, w) => LaneOK(l, lane, [ps EXCEPT ![r] = q], w)
<1> DEFINE p == ps[r]
           n == Told(p, s)
           qs == [ps EXCEPT ![r] = q]
           td == p.todo[s]
           tx == Texts(p, s)
           v == p.pipe[s]
           todo == [p.todo EXCEPT ![s] = Tail(td)]
           pipe == [p.pipe EXCEPT ![s] = Append(v, z)]
<1>1. /\ p \in ProcType /\ ProcOK(r, p) /\ r \in Nat /\ p = ps[r]
      /\ z = Line(r, s, n + 1, Head(td)) /\ q = Piped(p, todo, pipe) /\ td # <<>>
      /\ p.todo[s] = td /\ p.pipe[s] = v /\ Texts(p, s) = tx /\ Told(p, s) = n
  OBVIOUS
<1> HIDE DEF p, n
<1>2. n \in Nat /\ tx \in Seq(STRING) /\ Len(tx) \in Nat
  BY <1>1, ToldTyped
<1>3. /\ p.todo \in [Streams -> Seq(STRING)] /\ p.pipe \in [Streams -> Lines]
      /\ td \in Seq(STRING) /\ v \in Lines
  BY <1>1 DEF ProcType
<1>4. /\ Len(td) <= Len(tx) /\ \A k \in 1 .. Len(td) : td[k] = tx[n + k]
      /\ \A k \in DOMAIN v : v[k].run = r /\ v[k].stream = s
      /\ n = Len(tx) - Len(td)
  BY <1>1 DEF ProcOK, Told
<1> HIDE DEF td, tx, v
<1>5. /\ Head(td) = td[1] /\ Head(td) \in STRING /\ Tail(td) \in Seq(STRING)
      /\ Len(td) \in Nat \ {0} /\ Len(Tail(td)) = Len(td) - 1 /\ 1 \in 1 .. Len(td)
      /\ \A k \in 1 .. Len(td) - 1 : Tail(td)[k] = td[k + 1] /\ k + 1 \in 1 .. Len(td)
  BY <1>1, <1>3, TailOf
<1>5a. Head(td) = tx[n + 1]
  BY <1>4, <1>5
<1>6. z \in LineType /\ z = Line(r, s, n + 1, tx[n + 1]) /\ z.run = r /\ z.stream = s
  <2>1. Head(td) \in Spoken /\ n + 1 \in Nat /\ r \in Nat /\ s \in Streams
    <3>1. Head(td) \in Spoken
      BY <1>5 DEF Spoken
    <3>2. r \in Nat
      BY <1>1
    <3>3. n + 1 \in Nat
      BY <1>2
    <3> QED
      BY <3>1, <3>2, <3>3
  <2>2. z = [run |-> r, stream |-> s, nth |-> n + 1, text |-> Head(td)]
    BY <1>1 DEF Line
  <2>3. z \in LineType
    BY <2>1, <2>2 DEF LineType
  <2> QED
    BY <1>1, <1>5a, <2>2, <2>3
<1>7. Append(v, z) \in Lines /\ DOMAIN Append(v, z) = 1 .. Len(v) + 1
      /\ Append(v, z)[Len(v) + 1] = z
      /\ \A i \in 1 .. Len(v) : Append(v, z)[i] = v[i]
      /\ DOMAIN v = 1 .. Len(v) /\ Len(v) \in Nat
  BY <1>3, <1>6, Appended DEF Lines
<1>8. /\ todo \in [Streams -> Seq(STRING)] /\ pipe \in [Streams -> Lines]
      /\ todo[s] = Tail(td) /\ pipe[s] = Append(v, z)
      /\ \A t \in Streams \ {s} : todo[t] = p.todo[t] /\ pipe[t] = p.pipe[t]
  BY <1>3, <1>5, <1>7
<1> HIDE DEF todo, pipe
<1>9. /\ q \in ProcType /\ q.todo = todo /\ q.pipe = pipe /\ q.lane = p.lane /\ q.job = p.job
      /\ q.ended = p.ended
  <2>1. p \in ProcType /\ todo \in [Streams -> Seq(STRING)] /\ pipe \in [Streams -> Lines]
    BY <1>1, <1>8
  <2>2. /\ Piped(p, todo, pipe) \in ProcType
        /\ Piped(p, todo, pipe).todo = todo /\ Piped(p, todo, pipe).pipe = pipe
        /\ Piped(p, todo, pipe).lane = p.lane /\ Piped(p, todo, pipe).job = p.job
        /\ Piped(p, todo, pipe).ended = p.ended
    BY <2>1, PipedIs
  <2>3. q = Piped(p, todo, pipe)
    BY <1>1
  <2> QED
    BY <2>2, <2>3
<1>10. /\ Texts(q, s) = tx /\ Told(q, s) = n + 1 /\ q.todo[s] = Tail(td)
       /\ q.pipe[s] = Append(v, z)
       /\ \A t \in Streams \ {s} :
            /\ Texts(q, t) = Texts(p, t) /\ Told(q, t) = Told(p, t)
            /\ q.todo[t] = p.todo[t] /\ q.pipe[t] = p.pipe[t]
  <2>1. \A t \in Streams : Texts(q, t) = Texts(p, t)
    BY <1>9 DEF Texts
  <2>2. q.todo[s] = Tail(td) /\ q.pipe[s] = Append(v, z)
    BY <1>8, <1>9
  <2>3. Told(q, s) = Len(tx) - Len(Tail(td))
    BY <1>1, <2>1, <2>2 DEF Told
  <2>4. Told(q, s) = n + 1
    BY <1>2, <1>4, <1>5, <2>3
  <2>5. \A t \in Streams \ {s} : q.todo[t] = p.todo[t] /\ q.pipe[t] = p.pipe[t]
    BY <1>8, <1>9
  <2>6. \A t \in Streams \ {s} : Told(q, t) = Told(p, t)
    BY <2>1, <2>5 DEF Told
  <2> QED
    BY <1>1, <2>1, <2>2, <2>4, <2>5, <2>6
<1>11. ProcOK(r, q)
  <2>1. ASSUME NEW k \in 1 .. Len(Tail(td)) PROVE Tail(td)[k] = tx[(n + 1) + k]
    <3>1. k \in 1 .. Len(td) - 1 /\ n + (k + 1) = (n + 1) + k
      BY <1>2, <1>5
    <3>2. Tail(td)[k] = td[k + 1] /\ td[k + 1] = tx[n + (k + 1)]
      BY <1>4, <1>5, <3>1
    <3> QED
      BY <3>1, <3>2
  <2>2. \A k \in DOMAIN Append(v, z) : Append(v, z)[k].run = r /\ Append(v, z)[k].stream = s
    BY <1>4, <1>6, <1>7
  <2>3. Len(Tail(td)) <= Len(tx)
    BY <1>2, <1>4, <1>5
  <2>4. ASSUME NEW t \in Streams
        PROVE /\ Len(q.todo[t]) <= Len(Texts(q, t))
              /\ \A k \in 1 .. Len(q.todo[t]) : q.todo[t][k] = Texts(q, t)[Told(q, t) + k]
              /\ \A k \in DOMAIN q.pipe[t] : q.pipe[t][k].run = r /\ q.pipe[t][k].stream = t
    <3>1. CASE t = s
      <4>1. /\ Len(q.todo[s]) <= Len(Texts(q, s))
            /\ \A k \in 1 .. Len(q.todo[s]) : q.todo[s][k] = Texts(q, s)[Told(q, s) + k]
        BY <1>10, <2>1, <2>3
      <4>2. \A k \in DOMAIN q.pipe[s] : q.pipe[s][k].run = r /\ q.pipe[s][k].stream = s
        BY <1>10, <2>2
      <4> QED
        BY <3>1, <4>1, <4>2
    <3>2. CASE t # s
      <4>1. /\ Len(p.todo[t]) <= Len(Texts(p, t))
            /\ \A k \in 1 .. Len(p.todo[t]) : p.todo[t][k] = Texts(p, t)[Told(p, t) + k]
            /\ \A k \in DOMAIN p.pipe[t] : p.pipe[t][k].run = r /\ p.pipe[t][k].stream = t
        BY <1>1 DEF ProcOK
      <4>2. /\ Texts(q, t) = Texts(p, t) /\ Told(q, t) = Told(p, t)
            /\ q.todo[t] = p.todo[t] /\ q.pipe[t] = p.pipe[t]
        BY <1>10, <3>2
      <4> QED
        BY <4>1, <4>2
    <3> QED
      BY <3>1, <3>2
  <2>5. q.job \in Jobs[q.lane]
    BY <1>1, <1>9 DEF ProcOK
  <2> QED
    BY <2>4, <2>5 DEF ProcOK
<1>12. /\ qs \in Seq(ProcType) /\ Len(qs) = Len(ps) /\ DOMAIN qs = DOMAIN ps /\ qs[r] = q
       /\ \A k \in DOMAIN ps \ {r} : qs[k] = ps[k]
  BY <1>9
<1>13. ps[r] = p
  BY <1>1
<1> HIDE DEF qs
<1>14. \A k \in DOMAIN qs : ProcOK(k, qs[k])
  BY <1>11, <1>12
<1>15. ASSUME NEW l \in Lanes, NEW lane \in LaneType, NEW w, LaneOK(l, lane, ps, w)
       PROVE  LaneOK(l, lane, qs, w)
  <2>1. /\ lane.channel \in 0 .. Len(ps) /\ DOMAIN ps = 1 .. Len(ps)
        /\ (lane.channel # 0 => lane.channel \in DOMAIN ps /\ ps[lane.channel].lane = l)
    BY <1>15 DEF LaneOK
  <2>2. \A k \in DOMAIN ps : qs[k].lane = ps[k].lane
    BY <1>9, <1>12, <1>13
  <2>3. ASSUME lane.channel = r, NEW t \in Streams
        PROVE  StreamOK(lane, q, r, t, w)
    <3>1. lane.channel # 0
      BY <1>12, <2>1, <2>3
    <3>2. StreamOK(lane, p, r, t, w)
      BY <1>13, <1>15, <2>3, <3>1 DEF LaneOK
    <3>3. CASE t # s
      BY <1>10, <3>2, <3>3 DEF StreamOK, SeenOf
    <3>4. CASE t = s
      <4> DEFINE x == lane.logs
                 y == lane.chan
                 a == x \o (y \o v)
      <4>1. x \in Lines /\ y \in Lines /\ v \in Lines
        BY <1>3 DEF LaneType
      <4>2. SeenOf(lane, p, s) = a /\ SeenOf(lane, q, s) = x \o (y \o Append(v, z))
        BY <1>1, <1>10 DEF SeenOf
      <4> HIDE DEF x, y
      <4>3. y \o v \in Lines /\ a \in Lines
        BY <4>1, Joined
      <4>4. x \o (y \o Append(v, z)) = Append(a, z)
        <5>1. y \o Append(v, z) = Append(y \o v, z)
          BY <1>6, <4>1, Pushed
        <5>2. x \o Append(y \o v, z) = Append(x \o (y \o v), z)
          BY <1>6, <4>1, <4>3, Pushed
        <5> QED
          BY <5>1, <5>2
      <4> HIDE DEF a
      <4>5. EndOf(a, r, s, tx, n) /\ (w => AllOf(a, r, s, n))
        BY <1>1, <3>2, <3>4, <4>2 DEF StreamOK
      <4>6. /\ EndOf(Append(a, z), r, s, tx, n + 1)
            /\ w => AllOf(Append(a, z), r, s, n + 1)
        BY <1>2, <1>6, <4>3, <4>5, LineAdded
      <4> QED
        BY <1>10, <3>4, <4>2, <4>4, <4>6 DEF StreamOK
    <3> QED
      BY <3>3, <3>4
  <2>4. ASSUME lane.channel # 0, NEW t \in Streams
        PROVE  StreamOK(lane, qs[lane.channel], lane.channel, t, w)
    <3>1. CASE lane.channel = r
      BY <1>12, <2>3, <3>1
    <3>2. CASE lane.channel # r
      <4>1. qs[lane.channel] = ps[lane.channel]
        BY <1>12, <2>1, <2>4, <3>2
      <4> QED
        BY <1>15, <2>4, <4>1 DEF LaneOK
    <3> QED
      BY <3>1, <3>2
  <2>5. lane.channel = 0 => \A k \in DOMAIN qs : qs[k].lane # l
    BY <1>12, <1>15, <2>2 DEF LaneOK
  <2>6. lane.channel # 0 => qs[lane.channel].lane = l
    BY <2>1, <2>2
  <2> QED
    BY <1>12, <1>15, <2>4, <2>5, <2>6 DEF LaneOK
<1> QED
  BY <1>9, <1>12, <1>13, <1>14, <1>15 DEF qs

Receives(new, lane, z) ==
  /\ new.logs = lane.logs /\ new.chan = Append(lane.chan, z)
  /\ new.child = lane.child /\ new.channel = lane.channel

Forwarded(p, s) == Piped(p, p.todo, [p.pipe EXCEPT ![s] = Tail(p.pipe[s])])

\* What becomes of the lanes when a line z of program r is forwarded.
Forwards(ps, qs, r, z) ==
  /\ \A w : \A l \in Lanes, lane \in LaneType :
        LaneOK(l, lane, ps, w) /\ lane.channel # r => LaneOK(l, lane, qs, w)
  /\ \A w : \A l \in Lanes, lane \in LaneType, new \in LaneType :
        LaneOK(l, lane, ps, w) /\ lane.channel = r /\ Receives(new, lane, z)
          => LaneOK(l, new, qs, w)

\* A forwarded line goes to the lane whose channel is the program's, and to
\* no other: each program has its own lane.
LEMMA ForwardedOK ==
  ASSUME NEW ps \in Seq(ProcType), \A k \in DOMAIN ps : ProcOK(k, ps[k]),
         NEW r \in DOMAIN ps, NEW s \in Streams, ps[r].pipe[s] # <<>>,
         NEW q, q = Forwarded(ps[r], s),
         NEW qs, qs = [ps EXCEPT ![r] = q]
  PROVE  /\ qs \in Seq(ProcType) /\ Len(qs) = Len(ps)
         /\ q.lane = ps[r].lane /\ q.ended = ps[r].ended
         /\ \A k \in DOMAIN qs : ProcOK(k, qs[k])
         /\ Head(ps[r].pipe[s]) \in LineType
         /\ Forwards(ps, qs, r, Head(ps[r].pipe[s]))
<1> DEFINE p == ps[r]
           v == p.pipe[s]
           pipe == [p.pipe EXCEPT ![s] = Tail(v)]
           z == Head(v)
<1>1. /\ p \in ProcType /\ ProcOK(r, p) /\ r \in Nat /\ p = ps[r] /\ r \in 1 .. Len(ps)
      /\ q = Piped(p, p.todo, pipe) /\ p.pipe[s] = v /\ v # <<>> /\ Head(ps[r].pipe[s]) = z
  BY DEF Forwarded
<1> HIDE DEF p
<1>2. /\ p.todo \in [Streams -> Seq(STRING)] /\ p.pipe \in [Streams -> Lines] /\ v \in Lines
  BY <1>1 DEF ProcType
<1>3. \A k \in DOMAIN v : v[k].run = r /\ v[k].stream = s
  BY <1>1 DEF ProcOK
<1> HIDE DEF v
<1>4. /\ z = v[1] /\ z \in LineType /\ Tail(v) \in Lines
      /\ Len(v) \in Nat \ {0} /\ 1 \in 1 .. Len(v) /\ DOMAIN Tail(v) = 1 .. Len(v) - 1
      /\ \A k \in 1 .. Len(v) - 1 : Tail(v)[k] = v[k + 1] /\ k + 1 \in 1 .. Len(v)
  BY <1>1, <1>2, TailOf DEF Lines
<1>5. DOMAIN v = 1 .. Len(v)
  BY <1>2, LinesAre
<1> HIDE DEF z
<1>6. z.run = r /\ z.stream = s
  BY <1>3, <1>4, <1>5
<1>7. pipe \in [Streams -> Lines] /\ pipe[s] = Tail(v) /\ \A t \in Streams \ {s} : pipe[t] = p.pipe[t]
  BY <1>2, <1>4
<1> HIDE DEF pipe
<1>8. /\ q \in ProcType /\ q.todo = p.todo /\ q.pipe = pipe /\ q.lane = p.lane /\ q.job = p.job
      /\ q.ended = p.ended
  <2>1. /\ Piped(p, p.todo, pipe) \in ProcType
        /\ Piped(p, p.todo, pipe).todo = p.todo /\ Piped(p, p.todo, pipe).pipe = pipe
        /\ Piped(p, p.todo, pipe).lane = p.lane /\ Piped(p, p.todo, pipe).job = p.job
        /\ Piped(p, p.todo, pipe).ended = p.ended
    <3>1. p \in ProcType /\ p.todo \in [Streams -> Seq(STRING)] /\ pipe \in [Streams -> Lines]
      BY <1>1, <1>2, <1>7
    <3> QED
      BY <3>1, PipedIs
  <2>2. q = Piped(p, p.todo, pipe)
    BY <1>1
  <2> QED
    BY <2>1, <2>2
<1>9. \A t \in Streams : Texts(q, t) = Texts(p, t) /\ Told(q, t) = Told(p, t)
  BY <1>8 DEF Texts, Told
<1>10. ProcOK(r, q)
  <2>1. \A k \in DOMAIN Tail(v) : Tail(v)[k].run = r /\ Tail(v)[k].stream = s
    BY <1>3, <1>4, <1>5
  <2>2. ASSUME NEW t \in Streams
        PROVE /\ Len(q.todo[t]) <= Len(Texts(q, t))
              /\ \A k \in 1 .. Len(q.todo[t]) : q.todo[t][k] = Texts(q, t)[Told(q, t) + k]
              /\ \A k \in DOMAIN q.pipe[t] : q.pipe[t][k].run = r /\ q.pipe[t][k].stream = t
    <3>1. /\ Len(p.todo[t]) <= Len(Texts(p, t))
          /\ \A k \in 1 .. Len(p.todo[t]) : p.todo[t][k] = Texts(p, t)[Told(p, t) + k]
          /\ \A k \in DOMAIN p.pipe[t] : p.pipe[t][k].run = r /\ p.pipe[t][k].stream = t
      BY <1>1 DEF ProcOK
    <3>2. q.todo[t] = p.todo[t]
      BY <1>8
    <3>3. \A k \in DOMAIN q.pipe[t] : q.pipe[t][k].run = r /\ q.pipe[t][k].stream = t
      <4>1. CASE t = s
        <5>1. q.pipe[s] = Tail(v)
          BY <1>7, <1>8
        <5> QED
          BY <2>1, <4>1, <5>1
      <4>2. CASE t # s
        <5>1. q.pipe[t] = p.pipe[t]
          BY <1>7, <1>8, <4>2
        <5> QED
          BY <3>1, <5>1
      <4> QED
        BY <4>1, <4>2
    <3>4. Texts(q, t) = Texts(p, t) /\ Told(q, t) = Told(p, t)
      BY <1>9
    <3> QED
      BY <3>1, <3>2, <3>3, <3>4
  <2>3. q.job \in Jobs[q.lane]
    BY <1>1, <1>8 DEF ProcOK
  <2> QED
    BY <2>2, <2>3 DEF ProcOK
<1>12. /\ qs \in Seq(ProcType) /\ Len(qs) = Len(ps) /\ DOMAIN qs = DOMAIN ps /\ qs[r] = q
       /\ DOMAIN ps = 1 .. Len(ps) /\ \A k \in DOMAIN ps \ {r} : qs[k] = ps[k]
  BY <1>8
<1>13. \A k \in DOMAIN qs : ProcOK(k, qs[k])
  BY <1>10, <1>12
<1>14. \A k \in DOMAIN ps : qs[k].lane = ps[k].lane
  BY <1>1, <1>8, <1>12
<1>15. ASSUME NEW l \in Lanes, NEW lane \in LaneType, NEW w, LaneOK(l, lane, ps, w),
              lane.channel # r
       PROVE  LaneOK(l, lane, qs, w)
  <2>1. /\ lane.channel \in 0 .. Len(ps)
        /\ (lane.channel # 0 => lane.channel \in DOMAIN ps /\ ps[lane.channel].lane = l)
    BY <1>12, <1>15 DEF LaneOK
  <2>2. lane.channel # 0 => qs[lane.channel] = ps[lane.channel]
    BY <1>12, <1>15, <2>1
  <2>3. lane.channel = 0 => \A k \in DOMAIN qs : qs[k].lane # l
    BY <1>12, <1>14, <1>15 DEF LaneOK
  <2> QED
    BY <1>12, <1>15, <2>1, <2>2, <2>3 DEF LaneOK
<1>17. q.lane = ps[r].lane /\ q.ended = ps[r].ended /\ Head(ps[r].pipe[s]) = z
  BY <1>1, <1>8
<1>16. ASSUME NEW l \in Lanes, NEW lane \in LaneType, NEW new \in LaneType, NEW w,
              LaneOK(l, lane, ps, w), lane.channel = r, Receives(new, lane, Head(ps[r].pipe[s]))
       PROVE  LaneOK(l, new, qs, w)
  <2>0. /\ new.logs = lane.logs /\ new.chan = Append(lane.chan, z)
        /\ new.child = lane.child /\ new.channel = lane.channel
    BY <1>16, <1>17 DEF Receives
  <2> DEFINE x == lane.logs
             y == lane.chan
  <2>1. x \in Lines /\ y \in Lines /\ new.chan = Append(y, z)
    BY <1>16, <2>0 DEF LaneType
  <2>2. /\ r # 0 /\ ps[r].lane = l /\ \A t \in Streams : StreamOK(lane, p, r, t, w)
        /\ \A i \in DOMAIN y : y[i].run \in {0, r}
    BY <1>1, <1>16 DEF LaneOK
  <2> HIDE DEF x, y
  <2>3. ASSUME NEW t \in Streams PROVE StreamOK(new, q, r, t, w)
    <3> DEFINE u == p.pipe[t]
               n == Told(p, t)
               tx == Texts(p, t)
    <3>1. u \in Lines /\ n \in Nat
      BY <1>1, <1>2, ToldTyped
    <3>2. SeenOf(lane, p, t) = x \o (y \o u)
      BY DEF SeenOf, x, y
    <3>3. EndOf(x \o (y \o u), r, t, tx, n) /\ (w => AllOf(x \o (y \o u), r, t, n))
      BY <2>2, <3>2 DEF StreamOK
    <3>4. Texts(q, t) = tx /\ Told(q, t) = n
      BY <1>9
    <3> HIDE DEF u, n, tx
    <3>5. CASE t = s
      <4>1. SeenOf(new, q, t) = x \o (Append(y, z) \o Tail(v))
        <5>1. q.pipe[t] = Tail(v)
          BY <1>7, <1>8, <3>5
        <5> QED
          BY <1>16, <2>0, <2>1, <5>1 DEF SeenOf, x
      <4>2. Append(y, z) \o Tail(v) = y \o v
        BY <1>1, <1>2, <2>1, Taken DEF z
      <4>3. v = u
        BY <1>1, <3>5 DEF u
      <4> QED
        BY <3>3, <3>4, <4>1, <4>2, <4>3 DEF StreamOK
    <3>6. CASE t # s
      <4>1. SeenOf(new, q, t) = x \o (Append(y, z) \o u)
        <5>1. q.pipe[t] = u
          BY <1>7, <1>8, <3>6 DEF u
        <5> QED
          BY <1>16, <2>0, <2>1, <5>1 DEF SeenOf, x
      <4>2. /\ Append(y, z) \in Lines /\ x \o Append(y, z) = Append(x \o y, z)
            /\ x \o y \in Lines
        <5>1. Append(y, z) \in Lines /\ x \o Append(y, z) = Append(x \o y, z)
          BY <1>4, <2>1, Pushed
        <5>2. x \o y \in Lines
          BY <2>1, Joined
        <5> QED
          BY <5>1, <5>2
      <4>3. /\ x \o (Append(y, z) \o u) = Append(x \o y, z) \o u
            /\ x \o (y \o u) = (x \o y) \o u
        <5> DEFINE a == Append(y, z)
        <5>1. a \in Lines /\ x \in Lines /\ u \in Lines /\ x \o a = Append(x \o y, z)
          BY <2>1, <3>1, <4>2
        <5> HIDE DEF a
        <5>2. x \o (a \o u) = (x \o a) \o u
          BY <5>1, Regrouped
        <5>3. x \o (y \o u) = (x \o y) \o u
          BY <2>1, <3>1, Regrouped
        <5> QED
          BY <5>1, <5>2, <5>3 DEF a
      <4>4. EndOf((x \o y) \o u, r, t, tx, n) /\ (w => AllOf((x \o y) \o u, r, t, n))
        BY <3>3, <4>3
      <4>5. ~(z.run = r /\ z.stream = t)
        BY <1>6, <3>6
      <4>6. /\ EndOf(Append(x \o y, z) \o u, r, t, tx, n)
            /\ w => AllOf(Append(x \o y, z) \o u, r, t, n)
        BY <1>4, <3>1, <4>2, <4>4, <4>5, LinePutIn
      <4> QED
        BY <3>4, <4>1, <4>3, <4>6 DEF StreamOK
    <3> QED
      BY <3>5, <3>6
  <2>4. \A i \in DOMAIN new.chan : new.chan[i].run \in {0, r}
    <3>1. /\ DOMAIN Append(y, z) = 1 .. Len(y) + 1 /\ Append(y, z)[Len(y) + 1] = z
          /\ \A i \in 1 .. Len(y) : Append(y, z)[i] = y[i]
          /\ DOMAIN y = 1 .. Len(y) /\ Len(y) \in Nat
      BY <1>4, <2>1, Appended, LinesAre DEF Lines
    <3> QED
      BY <1>6, <2>1, <2>2, <3>1
  <2>5. qs[r] = q /\ q.lane = l
    BY <1>1, <1>8, <1>12, <2>2
  <2>6. /\ new.child \in {0, new.channel} /\ new.channel = r /\ r \in 0 .. Len(qs)
        /\ \A i \in DOMAIN new.logs : new.logs[i].run \in {0, r}
        /\ Len(new.logs) <= LogMax
    BY <1>1, <1>12, <1>16, <2>0 DEF LaneOK
  <2>7. \A t \in Streams : StreamOK(new, qs[new.channel], new.channel, t, w)
    BY <2>3, <2>5, <2>6
  <2> QED
    BY <2>2, <2>4, <2>5, <2>6, <2>7 DEF LaneOK
<1>18. Forwards(ps, qs, r, Head(ps[r].pipe[s]))
  BY <1>15, <1>16 DEF Forwards
<1>20. /\ qs \in Seq(ProcType) /\ Len(qs) = Len(ps)
  BY <1>12
<1>21. Head(ps[r].pipe[s]) \in LineType
  BY <1>4, <1>17
<1>22. q.lane = ps[r].lane /\ q.ended = ps[r].ended
  BY <1>17
<1> QED
  BY <1>13, <1>18, <1>20, <1>21, <1>22

-------------------------------------------------------------------------------
(* The inductive invariant.                                                *)
Tabs == {Tab[l] : l \in Lanes}
GuiShape(g) ==
  /\ g = [root |-> g.root, tab |-> g.tab, lanes |-> g.lanes, shown |-> g.shown,
          ran |-> g.ran, stats |-> g.stats]
  /\ g.root \in Roots \cup {"none"} /\ g.tab \in Tabs /\ g.lanes \in [Lanes -> LaneType]
  /\ g.stats.len \in Nat

ProcsOK(ps) == ps \in Seq(ProcType) /\ \A r \in DOMAIN ps : ProcOK(r, ps[r])
LanesOK(lanes, ps, w) == \A l \in Lanes : LaneOK(l, lanes[l], ps, w[l])
LanesHold ==
  /\ GuiShape(gui) /\ ProcsOK(procs) /\ DOMAIN whole = Lanes
  /\ LanesOK(gui.lanes, procs, whole)
  /\ \A root \in Roots : manifests[root] \in 0 .. Len(procs)
  /\ DOMAIN manifests = Roots
  /\ phase \in {"events", "drawing", "late", "closing", "leaving", "gone"}
  /\ refusals \in Nat

\* A program that runs is watched by its lane, or a wait for it has failed.
Watched(ps, lanes, refused, un) ==
  \A r \in DOMAIN ps : ~ps[r].ended =>
    \/ lanes[ps[r].lane].child = r
    \/ refused # 0 /\ (ps[r].lane = "tools" => un # {})
\* While it draws, the panel knows whether the tools lane runs.
RanTrue == phase = "drawing" => (gui.ran <=> gui.lanes["tools"].child # 0)
\* The statistics are of the log when it had as many lines.
StatsOf(stats, logs) ==
  stats.len <= Len(logs) /\ (stats.len = Len(logs) => stats.lines = Extract(logs))
StatsLooked ==
  /\ ~shrunk => StatsOf(gui.stats, gui.lanes["pallet"].logs)
  /\ phase \in Drawing => gui.stats.len = Len(gui.lanes["pallet"].logs)
Gone == phase = "gone" => \A l \in Lanes : gui.lanes[l].child = 0

GuiInv ==
  /\ LanesHold
  /\ Watched(procs, gui.lanes, refusals, unnoticed)
  /\ ManifestTold /\ RanTrue
  /\ StatsLooked
  /\ Gone

\* The window's record after the manifest was read.
LEMMA RefreshedIs ==
  ASSUME NEW g, GuiShape(g)
  PROVE  /\ GuiShape(Refreshed(g)) /\ Refreshed(g).shown = Manifest(g.root)
         /\ Refreshed(g).root = g.root /\ Refreshed(g).tab = g.tab
         /\ Refreshed(g).lanes = g.lanes /\ Refreshed(g).ran = g.ran
         /\ Refreshed(g).stats = g.stats
<1> DEFINE m == Manifest(g.root)
<1>1. Refreshed(g) = [g EXCEPT !.shown = m]
  BY DEF Refreshed
<1> HIDE DEF m
<1>2. g = [root |-> g.root, tab |-> g.tab, lanes |-> g.lanes, shown |-> g.shown,
          ran |-> g.ran, stats |-> g.stats]
  BY DEF GuiShape
<1>3. Refreshed(g) = [root |-> g.root, tab |-> g.tab, lanes |-> g.lanes, shown |-> m,
                      ran |-> g.ran, stats |-> g.stats]
  BY <1>1, <1>2
<1> QED
  BY <1>3 DEF GuiShape, m

\* The window's record after it was drawn.
LEMMA DrawnIs ==
  ASSUME NEW g, GuiShape(g)
  PROVE  /\ GuiShape(Drawn(g))
         /\ Drawn(g).root = g.root /\ Drawn(g).tab = g.tab
         /\ Drawn(g).lanes = g.lanes /\ Drawn(g).ran = g.ran
         /\ Drawn(g).stats = g.stats
         /\ \/ ~(g.tab = "tools" /\ g.shown = NotLooked) /\ Drawn(g).shown = g.shown
            \/ Drawn(g).shown = Manifest(g.root)
<1>1. CASE g.tab = "tools" /\ g.shown = NotLooked
  <2>1. Drawn(g) = Refreshed(g)
    BY <1>1 DEF Drawn
  <2> QED
    BY <2>1, RefreshedIs
<1>2. CASE ~(g.tab = "tools" /\ g.shown = NotLooked)
  <2>1. Drawn(g) = g
    BY <1>2 DEF Drawn
  <2> QED
    BY <1>2, <2>1
<1> QED
  BY <1>1, <1>2

\* The window's record with one lane changed.
LEMMA WithLaneIs ==
  ASSUME GuiShape(gui), NEW l \in Lanes, NEW new \in LaneType
  PROVE  /\ GuiShape(WithLane(l, new))
         /\ WithLane(l, new).lanes = [gui.lanes EXCEPT ![l] = new]
         /\ WithLane(l, new).lanes[l] = new
         /\ \A k \in Lanes \ {l} : WithLane(l, new).lanes[k] = gui.lanes[k]
         /\ WithLane(l, new).root = gui.root /\ WithLane(l, new).tab = gui.tab
         /\ WithLane(l, new).shown = gui.shown /\ WithLane(l, new).ran = gui.ran
         /\ WithLane(l, new).stats = gui.stats
<1> DEFINE m == [gui.lanes EXCEPT ![l] = new]
<1>1. gui.lanes \in [Lanes -> LaneType]
  BY DEF GuiShape
<1>2. m \in [Lanes -> LaneType] /\ m[l] = new /\ \A k \in Lanes \ {l} : m[k] = gui.lanes[k]
  BY <1>1
<1>3. WithLane(l, new) = [gui EXCEPT !.lanes = m]
  BY DEF WithLane
<1> HIDE DEF m
<1>4. gui = [root |-> gui.root, tab |-> gui.tab, lanes |-> gui.lanes, shown |-> gui.shown,
          ran |-> gui.ran, stats |-> gui.stats]
  BY DEF GuiShape
<1>5. WithLane(l, new) = [root |-> gui.root, tab |-> gui.tab, lanes |-> m, shown |-> gui.shown,
                          ran |-> gui.ran, stats |-> gui.stats]
  BY <1>3, <1>4
<1> QED
  BY <1>2, <1>5 DEF GuiShape, m

\* What a manifest says of its root.
LEMMA ManifestIs ==
  ASSUME NEW root
  PROVE  Manifest(root).root = root /\ Manifest(root) # NotLooked
<1>1. CASE root = "none" \/ manifests[root] = 0
  BY <1>1 DEF Manifest, NotLooked
<1>2. CASE ~(root = "none" \/ manifests[root] = 0)
  BY <1>2 DEF Manifest, NotLooked
<1> QED
  BY <1>1, <1>2

\* A frame ends with the manifest looked up that the tab shows.
LEMMA FrameTold ==
  ASSUME ManifestTold, RanTrue, EndsFrame, NEW g, GuiShape(g), g.ran = gui.ran,
         (g.root = gui.root /\ g.shown = gui.shown) \/ g.shown = NotLooked,
         Draws(g), manifests' = manifests, unnoticed' = unnoticed
  PROVE  ManifestTold' /\ RanTrue'
<1>1. phase \in Drawing /\ phase' \in {"events", "leaving"} /\ (phase' = "events" => phase = "drawing")
  BY DEF EndsFrame, Drawing
<1>2. /\ gui'.root = g.root /\ gui'.tab = g.tab /\ gui'.ran = gui.ran
      /\ \/ ~(g.tab = "tools" /\ g.shown = NotLooked) /\ gui'.shown = g.shown
         \/ gui'.shown = Manifest(g.root)
  BY DrawnIs DEF Draws
<1>3. Manifest(gui.root)' = Manifest(gui'.root)
  BY DEF Manifest
<1>4. NotLooked' = NotLooked
  BY DEF NotLooked
<1>5. RanTrue'
  BY <1>1 DEF RanTrue
<1>6. gui'.shown # NotLooked => gui'.shown.root = gui'.root
  <2>1. gui.shown # NotLooked => gui.shown.root = gui.root
    BY DEF ManifestTold
  <2> QED
    BY <1>2, <2>1, ManifestIs
<1>7. gui'.tab = "tools" /\ phase' = "events" => gui'.shown # NotLooked
  BY <1>2, ManifestIs
<1>8. ASSUME gui'.shown # NotLooked, gui'.shown # Manifest(gui'.root), phase' \in {"events", "drawing"}
      PROVE  gui'.ran \/ unnoticed' # {}
  <2>1. gui'.shown = g.shown /\ g.shown = gui.shown /\ g.root = gui.root /\ phase = "drawing"
    BY <1>1, <1>2, <1>8
  <2>2. gui.ran \/ gui.lanes["tools"].child # 0 \/ unnoticed # {}
    BY <1>2, <1>8, <2>1 DEF ManifestTold
  <2>3. gui.lanes["tools"].child # 0 => gui.ran
    BY <2>1 DEF RanTrue
  <2> QED
    BY <1>2, <2>2, <2>3
<1> QED
  BY <1>3, <1>4, <1>5, <1>6, <1>7, <1>8 DEF ManifestTold

\* Statistics stay those of the log while a frame only adds to it.
LEMMA FrameStats ==
  ASSUME StatsLooked, EndsFrame, gui'.stats = gui.stats,
         ~shrunk' => /\ ~shrunk
                     /\ \/ gui'.lanes["pallet"].logs = gui.lanes["pallet"].logs
                        \/ Len(gui'.lanes["pallet"].logs) > Len(gui.lanes["pallet"].logs),
         gui.lanes["pallet"].logs \in Lines, gui'.lanes["pallet"].logs \in Lines
  PROVE  StatsLooked'
<1> DEFINE u == gui.lanes["pallet"].logs
           v == gui'.lanes["pallet"].logs
<1>1. phase \in Drawing /\ phase' \notin Drawing
  BY DEF EndsFrame, Drawing
<1>2. Len(u) \in Nat /\ Len(v) \in Nat
  BY DEF Lines
<1>3. gui.stats.len = Len(u) /\ (~shrunk => StatsOf(gui.stats, u))
  BY <1>1 DEF StatsLooked
<1>4. ~shrunk' => ~shrunk /\ (v = u \/ Len(v) > Len(u))
  OBVIOUS
<1> HIDE DEF u, v
<1>5. ~shrunk' => StatsOf(gui.stats, v)
  BY <1>2, <1>3, <1>4 DEF StatsOf
<1>6. Drawing' = Drawing
  BY DEF Drawing
<1> QED
  BY <1>1, <1>5, <1>6 DEF StatsLooked, v

\* A frame that changes one lane, and with it perhaps the programs.
LEMMA LaneFrame ==
  ASSUME GuiInv, EndsFrame, NEW l \in Lanes, NEW new \in LaneType,
         Draws(WithLane(l, new)), ProcsOK(procs'), Len(procs') >= Len(procs),
         LaneOK(l, new, procs', whole'[l]),
         \A k \in Lanes \ {l} : LaneOK(k, gui.lanes[k], procs', whole'[k]),
         DOMAIN whole' = Lanes, manifests' = manifests, unnoticed' = unnoticed,
         refusals' \in Nat,
         Watched(procs', WithLane(l, new).lanes, refusals', unnoticed),
         ~shrunk' => ~shrunk /\ (l = "pallet" => \/ new.logs = gui.lanes[l].logs
                                               \/ Len(new.logs) > Len(gui.lanes[l].logs))
  PROVE  GuiInv'
<1> DEFINE g == WithLane(l, new)
<1>1. /\ GuiShape(gui) /\ gui.lanes \in [Lanes -> LaneType] /\ ManifestTold /\ RanTrue
      /\ StatsLooked /\ procs \in Seq(ProcType)
      /\ \A root \in Roots : manifests[root] \in 0 .. Len(procs)
      /\ DOMAIN manifests = Roots
  BY DEF GuiInv, LanesHold, GuiShape, ProcsOK
<1>2. /\ GuiShape(g) /\ g.lanes[l] = new /\ \A k \in Lanes \ {l} : g.lanes[k] = gui.lanes[k]
      /\ g.root = gui.root /\ g.shown = gui.shown /\ g.ran = gui.ran /\ g.stats = gui.stats
  BY <1>1, WithLaneIs
<1>3. Draws(g) /\ gui' = Drawn(g)
  BY DEF Draws
<1> HIDE DEF g
<1>4. GuiShape(gui') /\ gui'.lanes = g.lanes /\ gui'.stats = gui.stats
  BY <1>2, <1>3, DrawnIs
<1>5. ManifestTold' /\ RanTrue'
  BY <1>1, <1>2, <1>3, FrameTold
<1>6. \A k \in Lanes : LaneOK(k, gui'.lanes[k], procs', whole'[k])
  BY <1>2, <1>4
<1>7. phase \in Drawing /\ phase' \in {"events", "leaving"}
  BY DEF EndsFrame, Drawing
<1>8. Len(procs) \in Nat /\ Len(procs') \in Nat
  BY <1>1 DEF ProcsOK
<1>9. \A root \in Roots : manifests'[root] \in 0 .. Len(procs')
  BY <1>1, <1>8
<1>10. GuiShape(gui)' = GuiShape(gui')
  BY DEF GuiShape, Tabs, LaneType, LineType, Lines, Tab
<1>11. ProcsOK(procs)' = ProcsOK(procs')
  OBVIOUS
<1>12. LanesOK(gui.lanes, procs, whole)'
  BY <1>6 DEF LanesOK
<1>13. LanesHold'
  BY <1>1, <1>4, <1>7, <1>9, <1>10, <1>12 DEF LanesHold
<1>14. Watched(procs', gui'.lanes, refusals', unnoticed')
  BY <1>4 DEF g
<1>15. StatsLooked'
  <2> DEFINE u == gui.lanes["pallet"].logs
             v == gui'.lanes["pallet"].logs
  <2>1. "pallet" \in Lanes
    BY GuiAssumption
  <2>2. u \in Lines /\ v \in Lines
    BY <1>1, <1>4, <2>1 DEF GuiShape, LaneType
  <2>3. ~shrunk' => ~shrunk /\ (v = u \/ Len(v) > Len(u))
    <3>1. CASE l = "pallet"
      BY <1>2, <1>4, <3>1
    <3>2. CASE l # "pallet"
      <4>1. v = u
        BY <1>2, <1>4, <2>1, <3>2
      <4> QED
        BY <4>1
    <3> QED
      BY <3>1, <3>2
  <2>4. gui'.stats = gui.stats
    BY <1>4
  <2> QED
    BY <1>1, <2>2, <2>3, <2>4, FrameStats
<1>16. Gone'
  BY <1>7 DEF Gone
<1> QED
  BY <1>5, <1>13, <1>14, <1>15, <1>16 DEF GuiInv

\* A line pushed into a log with room makes it longer.
LEMMA PushedGrows ==
  ASSUME NEW lane \in LaneType, NEW t \in Spoken
  PROVE  /\ PushLine(lane, System(t)).child = lane.child
         /\ PushLine(lane, System(t)).logs = Latest(Append(lane.logs, System(t)))
         /\ ~Overflows(lane, 1) =>
              Len(PushLine(lane, System(t)).logs) = Len(lane.logs) + 1
<1> DEFINE z == System(t)
           u == lane.logs
<1>1. z \in LineType
  BY DEF System, Line, LineType
<1>2. u \in Lines /\ lane.logs = u
  BY DEF LaneType
<1>3. PushLine(lane, z).child = lane.child /\ PushLine(lane, z).logs = Latest(Append(u, z))
  BY DEF PushLine, LaneType
<1>4. Overflows(lane, 1) <=> Len(u) + 1 > LogMax
  BY DEF Overflows
<1> HIDE DEF z, u
<1>5. /\ Append(u, z) \in Lines /\ Len(Append(u, z)) = Len(u) + 1 /\ Len(u) \in Nat
  BY <1>1, <1>2, Appended DEF Lines
<1>6. PICK k \in 1 .. Len(Append(u, z)) + 1 :
        /\ Latest(Append(u, z)) = SubSeq(Append(u, z), k, Len(Append(u, z)))
        /\ (Len(Append(u, z)) <= LogMax => k = 1)
  BY <1>5, LatestIs
<1>7. ~Overflows(lane, 1) => Len(Latest(Append(u, z))) = Len(u) + 1
  <2> SUFFICES ASSUME ~Overflows(lane, 1) PROVE Len(Latest(Append(u, z))) = Len(u) + 1
    OBVIOUS
  <2>1. k = 1
    BY <1>4, <1>5, <1>6, GuiAssumption
  <2> DEFINE x == Append(u, z)
  <2> HIDE DEF x
  <2>2. x \in Lines => Len(SubSeq(x, 1, Len(x))) = Len(x)
    BY CutOff DEF Lines
  <2> QED
    BY <1>5, <1>6, <2>1, <2>2 DEF x
<1> QED
  BY <1>2, <1>3, <1>7 DEF z

\* A log that does not overflow grows by what was received.
LEMMA DrainedGrows ==
  ASSUME NEW lane \in LaneType, ~Overflows(lane, Len(lane.chan))
  PROVE  /\ Len(Drained(lane).logs) = Len(lane.logs) + Len(lane.chan)
         /\ Drained(lane).chan = <<>>
         /\ lane.chan = <<>> => Drained(lane).logs = lane.logs
<1> DEFINE u == lane.logs
           v == lane.chan
           x == u \o v
<1>1. u \in Lines /\ v \in Lines
  BY DEF LaneType
<1>2. Drained(lane).logs = Latest(x) /\ Drained(lane).chan = <<>>
  <2>1. lane \in [logs : Lines, child : Nat, channel : Nat, chan : Lines, exit : {"none", "done"}]
    BY DEF LaneType
  <2>2. \A q : [lane EXCEPT !.logs = q, !.chan = <<>>].logs = q
             /\ [lane EXCEPT !.logs = q, !.chan = <<>>].chan = <<>>
    BY <2>1
  <2> QED
    BY <2>2 DEF Drained
<1>3. Len(u) + Len(v) <= LogMax \/ Overflows(lane, Len(lane.chan))
  <2>1. Len(u) \in Nat /\ Len(v) \in Nat
    BY <1>1 DEF Lines
  <2>2. Overflows(lane, Len(lane.chan)) <=> Len(u) + Len(v) > LogMax
    BY DEF Overflows
  <2> HIDE DEF u, v
  <2> QED
    BY <2>1, <2>2, GuiAssumption
<1>4. lane.logs = u /\ lane.chan = v
  OBVIOUS
<1> HIDE DEF u, v, x
<1>5. x \in Lines /\ Len(x) = Len(u) + Len(v) /\ Len(u) \in Nat /\ Len(v) \in Nat
  BY <1>1, Joined DEF x
<1>6. Latest(x) = SubSeq(x, 1, Len(x))
  BY <1>3, <1>5, LatestIs
<1>7. SubSeq(x, 1, Len(x)) = x
  BY <1>5 DEF Lines
<1>8. v = <<>> => x = u
  BY <1>1 DEF Lines, x
<1> QED
  BY <1>2, <1>4, <1>5, <1>6, <1>7, <1>8

\* A log that a poll leaves as long as it was is the log it was.
LEMMA PolledGrows ==
  ASSUME NEW l \in Lanes, NEW lane \in LaneType, NEW fails, fails => lane.child # 0,
         ~Overflows(lane, Len(lane.chan) + Some(fails))
  PROVE  /\ Len(Poll(lane, fails).logs) >= Len(lane.logs)
         /\ Len(Poll(lane, fails).logs) = Len(lane.logs) => Poll(lane, fails).logs = lane.logs
<1> DEFINE m == Drained(lane)
           u == lane.logs
           v == lane.chan
<1>1. u \in Lines /\ v \in Lines /\ Len(u) \in Nat /\ Len(v) \in Nat /\ LogMax \in Nat
      /\ lane.logs = u /\ lane.chan = v
  BY GuiAssumption DEF LaneType, Lines
<1>2. /\ Overflows(lane, Len(lane.chan)) <=> Len(u) + Len(v) > LogMax
      /\ Overflows(lane, Len(lane.chan) + 1) <=> Len(u) + (Len(v) + 1) > LogMax
      /\ Overflows(lane, Len(lane.chan) + 0) <=> Len(u) + (Len(v) + 0) > LogMax
  BY DEF Overflows
<1> HIDE DEF u, v
<1>3. Some(fails) = IF fails THEN 1 ELSE 0
  BY DEF Some
<1>4. ~Overflows(lane, Len(lane.chan))
  <2>1. CASE fails
    BY <1>1, <1>2, <1>3, <2>1
  <2>2. CASE ~fails
    BY <1>1, <1>2, <1>3, <2>2
  <2> QED
    BY <2>1, <2>2
<1>5. /\ Len(m.logs) = Len(u) + Len(v) /\ (v = <<>> => m.logs = u)
  BY <1>1, <1>4, DrainedGrows
<1>6. m \in LaneType /\ m.child = lane.child
  <2>1. lane \in [logs : Lines, child : Nat, channel : Nat, chan : Lines, exit : {"none", "done"}]
    BY DEF LaneType
  <2> DEFINE x == Latest(u \o v)
             n == [lane EXCEPT !.logs = x]
  <2>2. x \in Lines /\ <<>> \in Lines
    <3>1. u \o v \in Lines
      BY <1>1, Joined
    <3>2. Latest(u \o v) \in Lines
      BY <3>1, LatestIs
    <3>3. <<>> \in Lines
      BY DEF Lines
    <3> QED
      BY <3>2, <3>3
  <2>3. m = [n EXCEPT !.chan = <<>>]
    BY <1>1 DEF Drained
  <2> HIDE DEF x
  <2>4. n \in LaneType /\ n.child = lane.child
    BY <2>1, <2>2 DEF LaneType
  <2> HIDE DEF n
  <2> QED
    BY <2>2, <2>3, <2>4 DEF LaneType
<1>7. Poll(lane, fails) = Waited(m, fails)
  BY DEF Poll
<1> HIDE DEF m
<1>8. v = <<>> <=> Len(v) = 0
  BY <1>1 DEF Lines
<1>9. CASE fails
  <2> DEFINE t == "Process wait failed"
             n == PushLine(m, System(t))
  <2>1. Poll(lane, fails) = Abandoned(m, t)
    BY <1>6, <1>7, <1>9 DEF Waited
  <2>2. t \in Spoken
    BY DEF Spoken
  <2> HIDE DEF t
  <2>3. Overflows(m, 1) <=> Len(m.logs) + 1 > LogMax
    BY DEF Overflows
  <2>4. ~Overflows(m, 1)
    BY <1>1, <1>2, <1>3, <1>5, <1>9, <2>3
  <2>5. Len(n.logs) = Len(m.logs) + 1
    BY <1>6, <2>2, <2>4, PushedGrows
  <2>6. Abandoned(m, t).logs = n.logs
    BY <1>6 DEF Abandoned, PushLine, LaneType
  <2> HIDE DEF n
  <2> QED
    BY <1>1, <1>5, <2>1, <2>5, <2>6
<1>10. CASE ~fails
  <2>1. Poll(lane, fails).logs = m.logs
    BY <1>6, <1>7, <1>10, LaneGoesOn DEF Waited
  <2> QED
    BY <1>1, <1>5, <1>8, <2>1
<1> QED
  BY <1>9, <1>10

-------------------------------------------------------------------------------
(* The steps.                                                              *)
\* What the invariant gives of the lanes.
LEMMA LanesAre ==
  ASSUME GuiInv
  PROVE  /\ GuiShape(gui) /\ gui.lanes \in [Lanes -> LaneType]
         /\ procs \in Seq(ProcType) /\ DOMAIN procs = 1 .. Len(procs) /\ Len(procs) \in Nat
         /\ \A r \in DOMAIN procs : procs[r] \in ProcType /\ ProcOK(r, procs[r])
         /\ ProcsOK(procs)
         /\ \A l \in Lanes : /\ gui.lanes[l] \in LaneType
                            /\ LaneOK(l, gui.lanes[l], procs, whole[l])
                            /\ gui.lanes[l].logs \in Lines /\ gui.lanes[l].chan \in Lines
         /\ DOMAIN whole = Lanes /\ refusals \in Nat
         /\ Watched(procs, gui.lanes, refusals, unnoticed)
         /\ StatsLooked /\ ManifestTold /\ RanTrue /\ Gone
         /\ "tools" \in Lanes /\ "pallet" \in Lanes
<1>1. /\ GuiShape(gui) /\ gui.lanes \in [Lanes -> LaneType] /\ procs \in Seq(ProcType)
      /\ \A r \in DOMAIN procs : procs[r] \in ProcType /\ ProcOK(r, procs[r])
      /\ DOMAIN procs = 1 .. Len(procs) /\ Len(procs) \in Nat
  BY DEF GuiInv, LanesHold, ProcsOK, GuiShape
<1>2. \A l \in Lanes : LaneOK(l, gui.lanes[l], procs, whole[l])
  BY DEF GuiInv, LanesHold, LanesOK
<1>3. \A l \in Lanes : /\ gui.lanes[l] \in LaneType
                       /\ gui.lanes[l].logs \in Lines /\ gui.lanes[l].chan \in Lines
  BY <1>1 DEF LaneType
<1>4. "tools" \in Lanes /\ "pallet" \in Lanes
  BY GuiAssumption
<1> QED
  BY <1>1, <1>2, <1>3, <1>4 DEF GuiInv, LanesHold

\* A click that starts nothing and stops nothing.
LEMMA LaneOnly ==
  ASSUME GuiInv, EndsFrame, NEW l \in Lanes, NEW new \in LaneType, NEW w,
         Draws(WithLane(l, new)), new.child = gui.lanes[l].child,
         LaneOK(l, new, procs, w), whole' = [whole EXCEPT ![l] = w],
         UNCHANGED <<procs, manifests, unnoticed>>, refusals' \in Nat, refusals' >= refusals,
         ~shrunk' => ~shrunk /\ (l = "pallet" => \/ new.logs = gui.lanes[l].logs
                                               \/ Len(new.logs) > Len(gui.lanes[l].logs))
  PROVE  GuiInv'
<1>1. /\ GuiShape(gui) /\ ProcsOK(procs) /\ DOMAIN whole = Lanes /\ procs \in Seq(ProcType)
      /\ \A r \in DOMAIN procs : procs[r] \in ProcType
      /\ \A k \in Lanes : LaneOK(k, gui.lanes[k], procs, whole[k])
      /\ Watched(procs, gui.lanes, refusals, unnoticed) /\ refusals \in Nat
      /\ Len(procs) \in Nat
  BY LanesAre
<1>2. /\ DOMAIN whole' = Lanes /\ whole'[l] = w /\ \A k \in Lanes \ {l} : whole'[k] = whole[k]
  BY <1>1
<1>3. LaneOK(l, new, procs', whole'[l])
  BY <1>2
<1>4. \A k \in Lanes \ {l} : LaneOK(k, gui.lanes[k], procs', whole'[k])
  BY <1>1, <1>2
<1>5. /\ WithLane(l, new).lanes[l] = new
      /\ \A k \in Lanes \ {l} : WithLane(l, new).lanes[k] = gui.lanes[k]
  BY <1>1, WithLaneIs
<1>6. \A k \in Lanes : WithLane(l, new).lanes[k].child = gui.lanes[k].child
  BY <1>5
<1>7. Watched(procs', WithLane(l, new).lanes, refusals', unnoticed)
  <2> SUFFICES ASSUME NEW r \in DOMAIN procs, ~procs[r].ended
               PROVE \/ WithLane(l, new).lanes[procs[r].lane].child = r
                     \/ refusals' # 0 /\ (procs[r].lane = "tools" => unnoticed # {})
    BY DEF Watched
  <2>1. procs[r].lane \in Lanes
    BY <1>1 DEF ProcType
  <2>2. refusals # 0 => refusals' # 0
    BY <1>1
  <2> QED
    BY <1>1, <1>6, <2>1, <2>2 DEF Watched
<1>8. ProcsOK(procs') /\ Len(procs') >= Len(procs)
  BY <1>1
<1> QED
  BY <1>2, <1>3, <1>4, <1>7, <1>8, LaneFrame

\* A frame that changes no lane.
LEMMA NoLane ==
  ASSUME GuiInv, EndsFrame, NEW g, GuiShape(g), g.lanes = gui.lanes, g.ran = gui.ran,
         g.stats = gui.stats,
         (g.root = gui.root /\ g.shown = gui.shown) \/ g.shown = NotLooked, Draws(g),
         UNCHANGED <<procs, manifests, refusals, whole, unnoticed, shrunk>>
  PROVE  GuiInv'
<1>1. ManifestTold' /\ RanTrue'
  BY FrameTold DEF GuiInv
<1>2. GuiShape(gui') /\ gui'.lanes = gui.lanes /\ gui'.stats = gui.stats
  BY DrawnIs DEF Draws
<1>3. phase \in Drawing /\ phase' \in {"events", "leaving"}
  BY DEF EndsFrame, Drawing
<1>4. GuiShape(gui)' = GuiShape(gui')
  BY DEF GuiShape, Tabs, LaneType, LineType, Lines, Tab
<1>5. LanesHold'
  BY <1>2, <1>3, <1>4 DEF GuiInv, LanesHold, LanesOK
<1>6. Watched(procs, gui.lanes, refusals, unnoticed)'
  BY <1>2 DEF GuiInv, Watched
<1>7. StatsLooked'
  <2>1. gui.lanes["pallet"].logs \in Lines
    BY LanesAre
  <2> QED
    BY <1>2, <2>1, FrameStats DEF GuiInv
<1>8. Gone'
  BY <1>3 DEF Gone
<1> QED
  BY <1>1, <1>5, <1>6, <1>7, <1>8 DEF GuiInv

\* A step of a program or of a thread that reads its pipes.
LEMMA Aside ==
  ASSUME GuiInv, ProcsOK(procs'), Len(procs') = Len(procs),
         \A r \in DOMAIN procs : procs'[r].lane = procs[r].lane /\ (~procs'[r].ended => ~procs[r].ended),
         GuiShape(gui'), LanesOK(gui'.lanes, procs', whole), ManifestTold',
         \A l \in Lanes : gui'.lanes[l].child = gui.lanes[l].child,
         gui'.lanes["pallet"].logs = gui.lanes["pallet"].logs,
         gui'.ran = gui.ran, gui'.stats = gui.stats,
         \A root \in Roots : manifests'[root] \in 0 .. Len(procs), DOMAIN manifests' = Roots,
         UNCHANGED <<phase, refusals, whole, unnoticed, shrunk>>
  PROVE  GuiInv'
<1>1. GuiShape(gui)' = GuiShape(gui')
  BY DEF GuiShape, Tabs, LaneType, LineType, Lines, Tab
<1>2. LanesHold'
  BY <1>1 DEF GuiInv, LanesHold, LanesOK
<1>3. DOMAIN procs' = DOMAIN procs
  BY LanesAre DEF ProcsOK
<1>4. Watched(procs, gui.lanes, refusals, unnoticed)'
  <2> SUFFICES ASSUME NEW r \in DOMAIN procs, ~procs'[r].ended
               PROVE  \/ gui'.lanes[procs'[r].lane].child = r
                      \/ refusals # 0 /\ (procs'[r].lane = "tools" => unnoticed # {})
    BY <1>3 DEF Watched
  <2>1. procs[r].lane \in Lanes /\ ~procs[r].ended /\ procs'[r].lane = procs[r].lane
    BY LanesAre DEF ProcType
  <2> QED
    BY <2>1 DEF GuiInv, Watched
<1>5. RanTrue'
  BY LanesAre DEF RanTrue
<1>6. StatsLooked'
  <2>1. /\ ~shrunk => StatsOf(gui.stats, gui.lanes["pallet"].logs)
        /\ phase \in Drawing => gui.stats.len = Len(gui.lanes["pallet"].logs)
    BY DEF GuiInv, StatsLooked
  <2>2. /\ ~shrunk' => StatsOf(gui'.stats, gui'.lanes["pallet"].logs)
        /\ phase' \in Drawing => gui'.stats.len = Len(gui'.lanes["pallet"].logs)
    BY <2>1
  <2>3. Drawing' = Drawing
    BY DEF Drawing
  <2> QED
    BY <2>2, <2>3 DEF StatsLooked
<1>7. Gone'
  BY DEF GuiInv, Gone
<1> QED
  BY <1>2, <1>4, <1>5, <1>6, <1>7 DEF GuiInv

\* What was shown of the manifest, when neither changes.
LEMMA ToldStays ==
  ASSUME ManifestTold, gui'.shown = gui.shown, gui'.root = gui.root, gui'.tab = gui.tab,
         gui'.ran = gui.ran, gui'.lanes["tools"].child = gui.lanes["tools"].child,
         UNCHANGED <<manifests, phase, unnoticed>>
  PROVE  ManifestTold'
BY DEF ManifestTold, Manifest, NotLooked

\* PrintLine keeps the invariant.
LEMMA PrintStep ==
  ASSUME GuiInv, NEW r \in DOMAIN procs, NEW s \in Streams, PrintLine(r, s)
  PROVE  GuiInv'
<1> DEFINE p == procs[r]
           todo == [p.todo EXCEPT ![s] = Tail(p.todo[s])]
           z == Line(r, s, Told(p, s) + 1, Head(p.todo[s]))
           pipe == [p.pipe EXCEPT ![s] = Append(p.pipe[s], z)]
           q == Piped(p, todo, pipe)
           a == [procs EXCEPT ![r] = [p EXCEPT !.todo = todo]]
<1>1. /\ procs \in Seq(ProcType) /\ p \in ProcType /\ ProcOK(r, p)
      /\ \A k \in DOMAIN procs : ProcOK(k, procs[k])
  BY LanesAre
<1>2. p.todo[s] # <<>> /\ UNCHANGED <<gui, manifests, phase, refusals, whole, unnoticed, shrunk>>
  BY DEF PrintLine
<1>3. Printed(r, s) = Told(p, s)
  BY DEF Printed, Told, Texts
<1>4. procs' = [procs EXCEPT ![r] = q]
  <2>1. procs' = [a EXCEPT ![r].pipe[s] = Append(@, z)]
    BY <1>3 DEF PrintLine
  <2>2. a[r] = [p EXCEPT !.todo = todo] /\ DOMAIN a = DOMAIN procs
        /\ \A k \in DOMAIN procs \ {r} : a[k] = procs[k]
    BY <1>1
  <2>3. a[r].pipe = p.pipe
    BY <1>1, <2>2 DEF ProcType
  <2>4. procs' = [a EXCEPT ![r] = [a[r] EXCEPT !.pipe = [a[r].pipe EXCEPT ![s] = Append(a[r].pipe[s], z)]]]
    BY <2>1
  <2>5. [a[r] EXCEPT !.pipe = pipe] = q
    BY <2>2 DEF Piped
  <2>6. procs' = [a EXCEPT ![r] = q]
    BY <2>3, <2>4, <2>5
  <2> HIDE DEF q
  <2> QED
    BY <1>1, <2>6
<1>5. /\ [procs EXCEPT ![r] = q] \in Seq(ProcType) /\ Len([procs EXCEPT ![r] = q]) = Len(procs)
      /\ q.lane = procs[r].lane /\ q.ended = procs[r].ended
      /\ \A k \in DOMAIN [procs EXCEPT ![r] = q] : ProcOK(k, [procs EXCEPT ![r] = q][k])
      /\ \A w : \A l \in Lanes, lane \in LaneType :
            LaneOK(l, lane, procs, w) => LaneOK(l, lane, [procs EXCEPT ![r] = q], w)
  BY <1>1, <1>2, PrintedOK
<1> HIDE DEF q
<1>6. /\ ProcsOK(procs') /\ Len(procs') = Len(procs)
      /\ \A w : \A l \in Lanes, lane \in LaneType : LaneOK(l, lane, procs, w) => LaneOK(l, lane, procs', w)
  BY <1>4, <1>5 DEF ProcsOK
<1>7. \A k \in DOMAIN procs : procs'[k].lane = procs[k].lane /\ (~procs'[k].ended => ~procs[k].ended)
  BY <1>4, <1>5
<1>8. GuiShape(gui') /\ LanesOK(gui'.lanes, procs', whole)
  BY <1>2, <1>6, LanesAre DEF LanesOK
<1>9. ManifestTold'
  BY <1>2, LanesAre, ToldStays
<1>10. \A root \in Roots : manifests'[root] \in 0 .. Len(procs)
  BY <1>2 DEF GuiInv, LanesHold
<1>11. DOMAIN manifests' = Roots
  BY <1>2 DEF GuiInv, LanesHold
<1> QED
  BY <1>2, <1>6, <1>7, <1>8, <1>9, <1>10, <1>11, Aside

\* A change of one program that its lane does not show.
LEMMA Changed ==
  ASSUME NEW ps \in Seq(ProcType), \A k \in DOMAIN ps : ProcOK(k, ps[k]),
         NEW qs, qs \in Seq(ProcType), Len(qs) = Len(ps),
         \A k \in DOMAIN ps : /\ qs[k].lane = ps[k].lane /\ qs[k].job = ps[k].job
                             /\ qs[k].todo = ps[k].todo /\ qs[k].pipe = ps[k].pipe
  PROVE  /\ ProcsOK(qs)
         /\ \A w : \A l \in Lanes, lane \in LaneType :
               LaneOK(l, lane, ps, w) => LaneOK(l, lane, qs, w)
<1>1. Alike(ps, qs)
  BY DEF Alike
<1> QED
  BY <1>1, AlikeOK DEF ProcsOK

\* Writing and ending.
LEMMA EndedIs ==
  ASSUME NEW p \in ProcType, NEW q, q = [p EXCEPT !.ended = TRUE] \/ q = [p EXCEPT !.wrote = TRUE]
  PROVE  /\ q \in ProcType /\ q.lane = p.lane /\ q.job = p.job /\ q.todo = p.todo
         /\ q.pipe = p.pipe /\ q.root = p.root
         /\ q = [p EXCEPT !.ended = TRUE] => q.ended
         /\ ~q.ended => ~p.ended
<1>1. p = [lane |-> p.lane, job |-> p.job, root |-> p.root, todo |-> p.todo, pipe |-> p.pipe,
           wrote |-> p.wrote, ended |-> p.ended]
  BY DEF ProcType
<1>2. CASE q = [p EXCEPT !.ended = TRUE]
  <2>1. q = [lane |-> p.lane, job |-> p.job, root |-> p.root, todo |-> p.todo, pipe |-> p.pipe,
             wrote |-> p.wrote, ended |-> TRUE]
    BY <1>1, <1>2
  <2> QED
    BY <2>1 DEF ProcType
<1>3. CASE q = [p EXCEPT !.wrote = TRUE]
  <2>1. q = [lane |-> p.lane, job |-> p.job, root |-> p.root, todo |-> p.todo, pipe |-> p.pipe,
             wrote |-> TRUE, ended |-> p.ended]
    BY <1>1, <1>3
  <2>2. q \in ProcType
    BY <2>1 DEF ProcType
  <2>3. q = [p EXCEPT !.ended = TRUE] => q.ended
    BY <1>1
  <2> QED
    BY <2>1, <2>2, <2>3
<1> QED
  BY <1>2, <1>3

\* Exit keeps the invariant.
LEMMA ExitStep ==
  ASSUME GuiInv, NEW r \in DOMAIN procs, Exit(r)
  PROVE  GuiInv'
<1> DEFINE q == [procs[r] EXCEPT !.ended = TRUE]
<1>1. /\ procs \in Seq(ProcType) /\ procs[r] \in ProcType
      /\ \A k \in DOMAIN procs : ProcOK(k, procs[k])
  BY LanesAre
<1>2. /\ procs' = [procs EXCEPT ![r] = q]
      /\ UNCHANGED <<gui, manifests, phase, refusals, whole, unnoticed, shrunk>>
  BY DEF Exit
<1>3. /\ q \in ProcType /\ q.lane = procs[r].lane /\ q.job = procs[r].job
      /\ q.todo = procs[r].todo /\ q.pipe = procs[r].pipe /\ (~q.ended => ~procs[r].ended)
  BY <1>1, EndedIs
<1> HIDE DEF q
<1>4. /\ procs' \in Seq(ProcType) /\ Len(procs') = Len(procs)
      /\ \A k \in DOMAIN procs : /\ procs'[k].lane = procs[k].lane /\ procs'[k].job = procs[k].job
                                /\ procs'[k].todo = procs[k].todo /\ procs'[k].pipe = procs[k].pipe
                                /\ (~procs'[k].ended => ~procs[k].ended)
  BY <1>1, <1>2, <1>3
<1>5. /\ ProcsOK(procs')
      /\ \A w : \A l \in Lanes, lane \in LaneType : LaneOK(l, lane, procs, w) => LaneOK(l, lane, procs', w)
  BY <1>1, <1>4, Changed
<1>8. GuiShape(gui') /\ LanesOK(gui'.lanes, procs', whole)
  BY <1>2, <1>5, LanesAre DEF LanesOK
<1>9. ManifestTold'
  BY <1>2, LanesAre, ToldStays
<1>10. (\A root \in Roots : manifests'[root] \in 0 .. Len(procs)) /\ DOMAIN manifests' = Roots
  BY <1>2 DEF GuiInv, LanesHold
<1> QED
  BY <1>2, <1>4, <1>5, <1>8, <1>9, <1>10, Aside

\* Who writes the manifest is watched by the tools lane, or went unnoticed.
LEMMA WriteStep ==
  ASSUME GuiInv, NEW r \in DOMAIN procs, WriteManifest(r)
  PROVE  GuiInv'
<1> DEFINE q == [procs[r] EXCEPT !.wrote = TRUE]
           by == IF procs[r].job \in Builders THEN r ELSE 0
<1>1. /\ procs \in Seq(ProcType) /\ procs[r] \in ProcType /\ ProcOK(r, procs[r])
      /\ \A k \in DOMAIN procs : ProcOK(k, procs[k])
  BY LanesAre
<1>2. /\ procs' = [procs EXCEPT ![r] = q] /\ ~procs[r].ended
      /\ procs[r].job \in Builders \cup Cleaners
      /\ manifests' = [manifests EXCEPT ![procs[r].root] = by]
      /\ UNCHANGED <<gui, phase, refusals, whole, unnoticed, shrunk>>
  BY DEF WriteManifest, Alive
<1>3. /\ q \in ProcType /\ q.lane = procs[r].lane /\ q.job = procs[r].job
      /\ q.todo = procs[r].todo /\ q.pipe = procs[r].pipe /\ (~q.ended => ~procs[r].ended)
  BY <1>1, EndedIs
<1> HIDE DEF q
<1>4. /\ procs' \in Seq(ProcType) /\ Len(procs') = Len(procs)
      /\ \A k \in DOMAIN procs : /\ procs'[k].lane = procs[k].lane /\ procs'[k].job = procs[k].job
                                /\ procs'[k].todo = procs[k].todo /\ procs'[k].pipe = procs[k].pipe
                                /\ (~procs'[k].ended => ~procs[k].ended)
  BY <1>1, <1>2, <1>3
<1>5. /\ ProcsOK(procs')
      /\ \A w : \A l \in Lanes, lane \in LaneType : LaneOK(l, lane, procs, w) => LaneOK(l, lane, procs', w)
  BY <1>1, <1>4, Changed
<1>6. procs[r].lane = "tools"
  <2>1. procs[r].lane \in Lanes /\ procs[r].job \in Jobs[procs[r].lane]
    BY <1>1 DEF ProcOK, ProcType
  <2> QED
    BY <1>2, <2>1, GuiAssumption
<1>7. gui.lanes["tools"].child # 0 \/ unnoticed # {}
  <2>1. gui.lanes["tools"].child = r \/ unnoticed # {}
    BY <1>2, <1>6 DEF GuiInv, Watched
  <2>2. r # 0
    BY LanesAre
  <2> QED
    BY <2>1, <2>2
<1>8. GuiShape(gui') /\ LanesOK(gui'.lanes, procs', whole)
  BY <1>2, <1>5, LanesAre DEF LanesOK
<1>9. ManifestTold'
  <2>1. NotLooked' = NotLooked
    BY DEF NotLooked
  <2>2. /\ gui.shown # NotLooked => gui.shown.root = gui.root
        /\ gui.tab = "tools" /\ phase = "events" => gui.shown # NotLooked
    BY DEF GuiInv, ManifestTold
  <2> QED
    BY <1>2, <1>7, <2>1, <2>2 DEF ManifestTold
<1>10. (\A root \in Roots : manifests'[root] \in 0 .. Len(procs)) /\ DOMAIN manifests' = Roots
  <2>1. (\A root \in Roots : manifests[root] \in 0 .. Len(procs)) /\ DOMAIN manifests = Roots
    BY DEF GuiInv, LanesHold
  <2>2. by \in 0 .. Len(procs)
    BY LanesAre
  <2> HIDE DEF by
  <2> QED
    BY <1>2, <2>1, <2>2
<1> QED
  BY <1>2, <1>4, <1>5, <1>8, <1>9, <1>10, Aside

\* Forward keeps the invariant.
LEMMA ForwardStep ==
  ASSUME GuiInv, NEW r \in DOMAIN procs, NEW s \in Streams, Forward(r, s)
  PROVE  GuiInv'
<1> DEFINE p == procs[r]
           q == Forwarded(p, s)
           z == Head(p.pipe[s])
           l == p.lane
           lane == gui.lanes[l]
           new == [lane EXCEPT !.chan = Append(lane.chan, z)]
<1>1. /\ procs \in Seq(ProcType) /\ p \in ProcType /\ ProcOK(r, p) /\ l \in Lanes
      /\ \A k \in DOMAIN procs : ProcOK(k, procs[k])
      /\ GuiShape(gui) /\ r # 0 /\ DOMAIN procs = 1 .. Len(procs)
      /\ \A k \in Lanes : gui.lanes[k] \in LaneType /\ LaneOK(k, gui.lanes[k], procs, whole[k])
  <2>1. p \in ProcType
    BY LanesAre
  <2>2. l \in Lanes
    BY <2>1 DEF ProcType
  <2> QED
    BY <2>1, <2>2, LanesAre
<1>2. p.pipe[s] # <<>> /\ UNCHANGED <<manifests, phase, refusals, whole, unnoticed, shrunk>>
  BY DEF Forward
<1>3. procs' = [procs EXCEPT ![r] = q]
  <2>1. procs' = [procs EXCEPT ![r] = [p EXCEPT !.pipe = [p.pipe EXCEPT ![s] = Tail(p.pipe[s])]]]
    BY DEF Forward
  <2>2. [p EXCEPT !.todo = p.todo] = p
    BY <1>1 DEF ProcType
  <2>3. q = [[p EXCEPT !.todo = p.todo] EXCEPT !.pipe = [p.pipe EXCEPT ![s] = Tail(p.pipe[s])]]
    BY DEF Piped, Forwarded
  <2> QED
    BY <2>1, <2>2, <2>3
<1>4. /\ procs' \in Seq(ProcType) /\ Len(procs') = Len(procs)
      /\ q.lane = procs[r].lane /\ q.ended = procs[r].ended
      /\ \A k \in DOMAIN procs' : ProcOK(k, procs'[k])
      /\ Head(procs[r].pipe[s]) \in LineType
      /\ Forwards(procs, procs', r, Head(procs[r].pipe[s]))
  <2>1. /\ procs \in Seq(ProcType) /\ \A k \in DOMAIN procs : ProcOK(k, procs[k])
        /\ procs[r].pipe[s] # <<>> /\ q = Forwarded(procs[r], s)
        /\ procs' = [procs EXCEPT ![r] = q]
    BY <1>1, <1>2, <1>3
  <2> HIDE DEF q
  <2>2. procs' \in Seq(ProcType) /\ Len(procs') = Len(procs)
    BY <2>1, ForwardedOK
  <2>3. q.lane = procs[r].lane /\ q.ended = procs[r].ended
    BY <2>1, ForwardedOK
  <2>4. \A k \in DOMAIN procs' : ProcOK(k, procs'[k])
    BY <2>1, ForwardedOK
  <2>5. Head(procs[r].pipe[s]) \in LineType
    BY <2>1, ForwardedOK
  <2>6. Forwards(procs, procs', r, Head(procs[r].pipe[s]))
    BY <2>1, ForwardedOK
  <2> QED
    BY <2>2, <2>3, <2>4, <2>5, <2>6
<1>4a. gui' = IF lane.channel = r THEN WithLane(l, new) ELSE gui
  <2>1. WithLane(l, new) = [gui EXCEPT !.lanes[l].chan = Append(@, z)]
    BY DEF WithLane
  <2> QED
    BY <2>1 DEF Forward
<1>4b. p = procs[r] /\ lane = gui.lanes[l]
  OBVIOUS
<1> HIDE DEF q
<1>5. /\ ProcsOK(procs') /\ Len(procs') = Len(procs)
      /\ \A w : \A k \in Lanes, x \in LaneType :
            LaneOK(k, x, procs, w) /\ x.channel # r => LaneOK(k, x, procs', w)
      /\ \A w : \A k \in Lanes, x \in LaneType, y \in LaneType :
            LaneOK(k, x, procs, w) /\ x.channel = r /\ Receives(y, x, z) => LaneOK(k, y, procs', w)
  <2>1. ProcsOK(procs') /\ Len(procs') = Len(procs) /\ Forwards(procs, procs', r, z)
    BY <1>3, <1>4 DEF ProcsOK
  <2> QED
    BY <2>1, Zenon DEF Forwards
<1>6. \A k \in DOMAIN procs : procs'[k].lane = procs[k].lane /\ (~procs'[k].ended => ~procs[k].ended)
  BY <1>3, <1>4
<1>7. lane \in LaneType /\ z \in LineType /\ p.lane = l /\ LaneOK(l, lane, procs, whole[l])
  BY <1>1, <1>4
<1> HIDE DEF p, l, z
<1>8. /\ new \in LaneType /\ Receives(new, lane, z)
  <2>1. Append(lane.chan, z) \in Lines
    BY <1>7, Pushed DEF LaneType
  <2> DEFINE c == Append(lane.chan, z)
             x == lane
  <2>2. x \in LaneType /\ c \in Lines /\ new = [x EXCEPT !.chan = c]
    BY <1>7, <2>1
  <2>3. c = Append(x.chan, z)
    OBVIOUS
  <2> HIDE DEF c, x, new
  <2>4. /\ new \in LaneType /\ new.logs = x.logs /\ new.chan = c /\ new.child = x.child
        /\ new.channel = x.channel
    BY <2>2 DEF LaneType
  <2> QED
    BY <2>3, <2>4 DEF Receives, x
<1>9. \A k \in Lanes : gui.lanes[k].channel = r => k = l
  BY <1>1, <1>4b, <1>7 DEF LaneOK
<1> HIDE DEF lane, new
<1>10. /\ GuiShape(gui') /\ LanesOK(gui'.lanes, procs', whole)
       /\ gui'.root = gui.root /\ gui'.tab = gui.tab /\ gui'.shown = gui.shown
       /\ gui'.ran = gui.ran /\ gui'.stats = gui.stats
       /\ \A k \in Lanes : gui'.lanes[k].child = gui.lanes[k].child
                          /\ gui'.lanes[k].logs = gui.lanes[k].logs
  <2>1. CASE lane.channel = r
    <3>1. gui' = WithLane(l, new)
      BY <1>4a, <2>1
    <3>2. /\ GuiShape(gui') /\ gui'.lanes[l] = new
          /\ \A k \in Lanes \ {l} : gui'.lanes[k] = gui.lanes[k]
          /\ gui'.root = gui.root /\ gui'.tab = gui.tab /\ gui'.shown = gui.shown
          /\ gui'.ran = gui.ran /\ gui'.stats = gui.stats
      BY <1>1, <1>8, <3>1, WithLaneIs
    <3>3. LaneOK(l, new, procs', whole[l])
      BY <1>1, <1>5, <1>7, <1>8, <2>1
    <3>4. \A k \in Lanes : LaneOK(k, gui'.lanes[k], procs', whole[k])
      BY <1>1, <1>5, <1>9, <3>2, <3>3
    <3>5. \A k \in Lanes : gui'.lanes[k].child = gui.lanes[k].child
                          /\ gui'.lanes[k].logs = gui.lanes[k].logs
      BY <1>4b, <1>8, <3>2 DEF Receives
    <3> QED
      BY <3>2, <3>4, <3>5 DEF LanesOK
  <2>2. CASE lane.channel # r
    <3>1. gui' = gui
      BY <1>4a, <2>2
    <3>2. \A k \in Lanes : gui.lanes[k].channel # r
      BY <1>4b, <1>9, <2>2
    <3> QED
      BY <1>1, <1>5, <3>1, <3>2 DEF LanesOK
  <2> QED
    BY <2>1, <2>2
<1>11. ManifestTold'
  BY <1>2, <1>10, LanesAre, ToldStays
<1>12. (\A root \in Roots : manifests'[root] \in 0 .. Len(procs)) /\ DOMAIN manifests' = Roots
  BY <1>2 DEF GuiInv, LanesHold
<1>13. gui'.lanes["pallet"].logs = gui.lanes["pallet"].logs
  BY <1>10, GuiAssumption
<1> QED
  BY <1>2, <1>5, <1>6, <1>10, <1>11, <1>12, <1>13, Aside

\* A panel with another tab, or another root.
LEMMA OtherPanel ==
  ASSUME GuiShape(gui), NEW t \in Tabs, NEW root \in Roots \cup {"none"}
  PROVE  /\ GuiShape([gui EXCEPT !.tab = t])
         /\ [gui EXCEPT !.tab = t].lanes = gui.lanes /\ [gui EXCEPT !.tab = t].ran = gui.ran
         /\ [gui EXCEPT !.tab = t].stats = gui.stats /\ [gui EXCEPT !.tab = t].root = gui.root
         /\ [gui EXCEPT !.tab = t].shown = gui.shown
         /\ GuiShape([gui EXCEPT !.root = root, !.shown = NotLooked])
         /\ [gui EXCEPT !.root = root, !.shown = NotLooked].lanes = gui.lanes
         /\ [gui EXCEPT !.root = root, !.shown = NotLooked].ran = gui.ran
         /\ [gui EXCEPT !.root = root, !.shown = NotLooked].stats = gui.stats
         /\ [gui EXCEPT !.root = root, !.shown = NotLooked].shown = NotLooked
<1> DEFINE g == [gui EXCEPT !.tab = t]
           m == [gui EXCEPT !.root = root]
           n == NotLooked
           h == [gui EXCEPT !.root = root, !.shown = n]
<1>1. gui = [root |-> gui.root, tab |-> gui.tab, lanes |-> gui.lanes, shown |-> gui.shown,
          ran |-> gui.ran, stats |-> gui.stats]
  BY DEF GuiShape
<1>2. g = [root |-> gui.root, tab |-> t, lanes |-> gui.lanes, shown |-> gui.shown,
           ran |-> gui.ran, stats |-> gui.stats]
  BY <1>1
<1>3. m = [root |-> root, tab |-> gui.tab, lanes |-> gui.lanes, shown |-> gui.shown,
           ran |-> gui.ran, stats |-> gui.stats]
  BY <1>1
<1>4. h = [m EXCEPT !.shown = n]
  OBVIOUS
<1> HIDE DEF m, n
<1>5. h = [root |-> root, tab |-> gui.tab, lanes |-> gui.lanes, shown |-> n,
           ran |-> gui.ran, stats |-> gui.stats]
  BY <1>3, <1>4
<1> HIDE DEF g, h
<1>6. /\ GuiShape(g) /\ g.lanes = gui.lanes /\ g.ran = gui.ran /\ g.stats = gui.stats
      /\ g.root = gui.root /\ g.shown = gui.shown
  BY <1>2 DEF GuiShape
<1>7. /\ GuiShape(h) /\ h.lanes = gui.lanes /\ h.ran = gui.ran /\ h.stats = gui.stats
      /\ h.shown = n
  BY <1>5 DEF GuiShape
<1> QED
  BY <1>6, <1>7 DEF g, h, n

\* A frame in which the tab or the root is chosen, or nothing, keeps it.
LEMMA PanelStep ==
  ASSUME GuiInv,
         \/ NoClick
         \/ \E t \in {Tab[l] : l \in Lanes} : ChooseTab(t)
         \/ \E r \in Roots \cup {"none"} : ChooseRoot(r)
  PROVE  GuiInv'
<1>1. CASE NoClick
  <2>1. EndsFrame /\ Draws(gui) /\ UNCHANGED <<procs, manifests, refusals, whole, unnoticed, shrunk>>
    BY <1>1 DEF NoClick
  <2> QED
    BY <2>1, LanesAre, NoLane
<1>2. ASSUME NEW t \in {Tab[l] : l \in Lanes}, ChooseTab(t) PROVE GuiInv'
  <2> DEFINE g == [gui EXCEPT !.tab = t]
  <2>1. EndsFrame /\ Draws(g) /\ UNCHANGED <<procs, manifests, refusals, whole, unnoticed, shrunk>>
    BY <1>2 DEF ChooseTab
  <2>2. /\ GuiShape(g) /\ g.lanes = gui.lanes /\ g.ran = gui.ran /\ g.stats = gui.stats
        /\ g.root = gui.root /\ g.shown = gui.shown
    BY LanesAre, OtherPanel DEF Tabs
  <2> HIDE DEF g
  <2> QED
    BY <2>1, <2>2, NoLane
<1>3. ASSUME NEW r \in Roots \cup {"none"}, ChooseRoot(r) PROVE GuiInv'
  <2> DEFINE g == [gui EXCEPT !.root = r, !.shown = NotLooked]
  <2>1. EndsFrame /\ Draws(g) /\ UNCHANGED <<procs, manifests, refusals, whole, unnoticed, shrunk>>
    BY <1>3 DEF ChooseRoot
  <2>2. /\ GuiShape(g) /\ g.lanes = gui.lanes /\ g.ran = gui.ran /\ g.stats = gui.stats
        /\ g.shown = NotLooked
    <3>1. GuiShape(gui) /\ gui.tab \in Tabs
      BY LanesAre DEF GuiShape
    <3> QED
      BY <3>1, OtherPanel
  <2> HIDE DEF g
  <2> QED
    BY <2>1, <2>2, NoLane
<1> QED
  BY <1>1, <1>2, <1>3

\* Refresh keeps the invariant.
LEMMA RefreshStep ==
  ASSUME GuiInv, Refresh
  PROVE  GuiInv'
<1>1. /\ EndsFrame /\ gui' = Refreshed(gui)
      /\ UNCHANGED <<procs, manifests, refusals, whole, unnoticed, shrunk>>
  BY DEF Refresh
<1>2. /\ GuiShape(gui') /\ gui'.shown = Manifest(gui.root) /\ gui'.root = gui.root
      /\ gui'.lanes = gui.lanes /\ gui'.ran = gui.ran /\ gui'.stats = gui.stats
  BY <1>1, LanesAre, RefreshedIs
<1>3. phase \in Drawing /\ phase' \in {"events", "leaving"}
  BY <1>1 DEF EndsFrame, Drawing
<1>4. ManifestTold' /\ RanTrue'
  <2>1. Manifest(gui.root)' = Manifest(gui.root) /\ NotLooked' = NotLooked
    BY <1>1, <1>2 DEF Manifest, NotLooked
  <2>2. gui'.shown.root = gui'.root /\ gui'.shown # NotLooked
    BY <1>2, ManifestIs
  <2>3. RanTrue'
    BY <1>3 DEF RanTrue
  <2> QED
    BY <1>2, <2>1, <2>2, <2>3 DEF ManifestTold
<1>5. GuiShape(gui)' = GuiShape(gui')
  BY DEF GuiShape, Tabs, LaneType, LineType, Lines, Tab
<1>6. LanesHold'
  BY <1>1, <1>2, <1>3, <1>5 DEF GuiInv, LanesHold, LanesOK
<1>7. Watched(procs, gui.lanes, refusals, unnoticed)'
  BY <1>1, <1>2 DEF GuiInv, Watched
<1>8. StatsLooked'
  <2>1. gui.lanes["pallet"].logs \in Lines
    BY LanesAre
  <2> QED
    BY <1>1, <1>2, <2>1, FrameStats DEF GuiInv
<1>9. Gone'
  BY <1>3 DEF Gone
<1> QED
  BY <1>4, <1>6, <1>7, <1>8, <1>9 DEF GuiInv

\* Clear keeps the invariant: the log is no longer whole.
LEMMA ClearStep ==
  ASSUME GuiInv, NEW l \in Lanes, Clear(l)
  PROVE  GuiInv'
<1> DEFINE lane == gui.lanes[l]
           new == [lane EXCEPT !.logs = <<>>]
<1>1. /\ EndsFrame /\ Draws(WithLane(l, new)) /\ whole' = [whole EXCEPT ![l] = FALSE]
      /\ shrunk' = (shrunk \/ l = "pallet")
      /\ UNCHANGED <<procs, manifests, refusals, unnoticed>>
  BY DEF Clear
<1>2. /\ lane \in LaneType /\ procs \in Seq(ProcType)
      /\ \A r \in DOMAIN procs : ProcOK(r, procs[r])
      /\ LaneOK(l, lane, procs, whole[l]) /\ refusals \in Nat
  BY LanesAre
<1>3. new \in LaneType /\ new.child = gui.lanes[l].child /\ LaneOK(l, new, procs, FALSE)
  BY <1>2, ClearedOK
<1>4. ~shrunk' => ~shrunk /\ l # "pallet"
  BY <1>1
<1>5. refusals' \in Nat /\ refusals' >= refusals
  BY <1>1, <1>2
<1> HIDE DEF new, lane
<1> QED
  BY <1>1, <1>3, <1>4, <1>5, LaneOnly

\* RunFails keeps the invariant.
LEMMA RunFailsStep ==
  ASSUME GuiInv, NEW l \in Lanes, NEW j \in Jobs[l], RunFails(l, j)
  PROVE  GuiInv'
<1> DEFINE lane == gui.lanes[l]
           new == NotSpawned(lane)
<1>1. /\ EndsFrame /\ Draws(WithLane(l, new)) /\ whole' = [whole EXCEPT ![l] = FALSE]
      /\ shrunk' = (shrunk \/ l = "pallet") /\ refusals' = refusals + 1
      /\ UNCHANGED <<procs, manifests, unnoticed>>
  BY DEF RunFails, CanStart, Refuses
<1>2. /\ lane \in LaneType /\ procs \in Seq(ProcType)
      /\ \A r \in DOMAIN procs : ProcOK(r, procs[r])
      /\ LaneOK(l, lane, procs, whole[l]) /\ refusals \in Nat
  BY LanesAre
<1>3. new \in LaneType /\ new.child = gui.lanes[l].child /\ LaneOK(l, new, procs, FALSE)
  BY <1>2, NotSpawnedOK
<1>4. ~shrunk' => ~shrunk /\ l # "pallet"
  BY <1>1
<1>5. refusals' \in Nat /\ refusals' >= refusals
  BY <1>1, <1>2
<1> HIDE DEF new, lane
<1> QED
  BY <1>1, <1>3, <1>4, <1>5, LaneOnly

\* RunRefused keeps the invariant.
LEMMA RunRefusedStep ==
  ASSUME GuiInv, NEW l \in Lanes, NEW j \in Jobs[l], RunRefused(l, j)
  PROVE  GuiInv'
<1> DEFINE lane == gui.lanes[l]
           t == "Process already running."
           new == PushLine(lane, System(t))
           full == Overflows(lane, 1)
           w == whole[l] /\ ~full
<1>1. /\ EndsFrame /\ Draws(WithLane(l, new)) /\ whole' = [whole EXCEPT ![l] = w]
      /\ shrunk' = (shrunk \/ (full /\ l = "pallet"))
      /\ UNCHANGED <<procs, manifests, refusals, unnoticed>>
  BY DEF RunRefused, CanStart, Shrinks
<1>2. /\ lane \in LaneType /\ procs \in Seq(ProcType)
      /\ \A r \in DOMAIN procs : ProcOK(r, procs[r])
      /\ LaneOK(l, lane, procs, whole[l]) /\ refusals \in Nat /\ lane.logs \in Lines
  BY LanesAre
<1>2a. t \in Spoken /\ lane = gui.lanes[l]
  BY DEF Spoken
<1> HIDE DEF t, lane
<1>3. /\ new \in LaneType /\ new.child = gui.lanes[l].child /\ LaneOK(l, new, procs, w)
      /\ ~full => Len(new.logs) = Len(lane.logs) + 1
  BY <1>2, <1>2a, SystemPushed, PushedGrows
<1>4. ~shrunk' => ~shrunk /\ (l = "pallet" => Len(new.logs) > Len(gui.lanes[l].logs))
  <2>1. Len(lane.logs) \in Nat
    BY <1>2 DEF Lines
  <2>2. ~shrunk' => ~shrunk /\ (l = "pallet" => ~full)
    BY <1>1
  <2> DEFINE a == Len(new.logs)
             b == Len(lane.logs)
  <2>3. ~full => a = b + 1
    BY <1>3
  <2>4. b \in Nat /\ Len(gui.lanes[l].logs) = b
    BY <1>2a, <2>1
  <2> HIDE DEF a, b, full
  <2>5. ~full => a > b
    BY <2>3, <2>4
  <2> QED
    BY <2>2, <2>4, <2>5 DEF a
<1>5. refusals' \in Nat /\ refusals' >= refusals
  BY <1>1, <1>2
<1> HIDE DEF new, full, w
<1> QED
  BY <1>1, <1>3, <1>4, <1>5, LaneOnly

\* Run keeps the invariant: the lane changes to the new run's channel.
LEMMA RunStep ==
  ASSUME GuiInv, NEW l \in Lanes, NEW j \in Jobs[l], Run(l, j)
  PROVE  GuiInv'
<1> DEFINE n == Len(procs) + 1
           new == Started(n)
           p == Fresh(l, j, gui.root)
<1>1. /\ EndsFrame /\ Draws(WithLane(l, new)) /\ whole' = [whole EXCEPT ![l] = TRUE]
      /\ shrunk' = (shrunk \/ l = "pallet") /\ gui.lanes[l].child = 0 /\ gui.root # "none"
      /\ procs' = Append(procs, p)
      /\ UNCHANGED <<manifests, refusals, unnoticed>>
  BY DEF Run, CanStart, Fresh
<1>2. /\ GuiShape(gui) /\ procs \in Seq(ProcType) /\ DOMAIN procs = 1 .. Len(procs)
      /\ Len(procs) \in Nat
      /\ \A r \in DOMAIN procs : procs[r] \in ProcType /\ ProcOK(r, procs[r])
      /\ \A k \in Lanes : /\ gui.lanes[k] \in LaneType
                         /\ LaneOK(k, gui.lanes[k], procs, whole[k])
      /\ DOMAIN whole = Lanes /\ refusals \in Nat
      /\ Watched(procs, gui.lanes, refusals, unnoticed)
  BY LanesAre
<1>3. gui.root \in Roots
  BY <1>1, <1>2 DEF GuiShape
<1>4. /\ Append(procs, p) \in Seq(ProcType)
      /\ \A r \in DOMAIN Append(procs, p) : ProcOK(r, Append(procs, p)[r])
      /\ new \in LaneType /\ new.child = n
      /\ LaneOK(l, new, Append(procs, p), TRUE)
      /\ \A w : \A k \in Lanes \ {l}, lane \in LaneType :
            LaneOK(k, lane, procs, w) => LaneOK(k, lane, Append(procs, p), w)
  BY <1>2, <1>3, StartedOK
<1>5. p \in ProcType /\ p.lane = l /\ ~p.ended
  BY <1>3, FreshOK
<1> HIDE DEF p, new
<1>6. ProcsOK(procs') /\ Len(procs') >= Len(procs)
  <2>1. Len(Append(procs, p)) = Len(procs) + 1
    BY <1>2, <1>5
  <2> QED
    BY <1>1, <1>2, <1>4, <2>1 DEF ProcsOK
<1>7. /\ DOMAIN whole' = Lanes /\ whole'[l] = TRUE /\ \A k \in Lanes \ {l} : whole'[k] = whole[k]
  BY <1>1, <1>2
<1>8. LaneOK(l, new, procs', whole'[l])
  BY <1>1, <1>4, <1>7
<1>9. \A k \in Lanes \ {l} : LaneOK(k, gui.lanes[k], procs', whole'[k])
  BY <1>1, <1>2, <1>4, <1>7
<1>10. Watched(procs', WithLane(l, new).lanes, refusals', unnoticed)
  <2>1. /\ WithLane(l, new).lanes[l] = new
        /\ \A k \in Lanes \ {l} : WithLane(l, new).lanes[k] = gui.lanes[k]
    BY <1>2, <1>4, WithLaneIs
  <2>2. /\ DOMAIN procs' = 1 .. n /\ procs'[n] = p /\ \A r \in 1 .. Len(procs) : procs'[r] = procs[r]
    BY <1>1, <1>2, <1>5
  <2> SUFFICES ASSUME NEW r \in 1 .. n, ~procs'[r].ended
               PROVE  \/ WithLane(l, new).lanes[procs'[r].lane].child = r
                      \/ refusals # 0 /\ (procs'[r].lane = "tools" => unnoticed # {})
    BY <1>1, <2>2 DEF Watched
  <2>3. CASE r = n
    BY <1>4, <1>5, <2>1, <2>2, <2>3
  <2>4. CASE r # n
    <3>1. r \in 1 .. Len(procs) /\ procs'[r] = procs[r] /\ r # 0
      BY <1>2, <2>2, <2>4
    <3>2. procs[r].lane \in Lanes
      BY <1>2, <3>1 DEF ProcType
    <3>3. \/ gui.lanes[procs[r].lane].child = r
          \/ refusals # 0 /\ (procs[r].lane = "tools" => unnoticed # {})
      BY <1>2, <3>1 DEF Watched
    <3>4. gui.lanes[procs[r].lane].child = r => procs[r].lane # l
      BY <1>1, <3>1
    <3> QED
      BY <2>1, <3>1, <3>2, <3>3, <3>4
  <2> QED
    BY <2>3, <2>4
<1>11. ~shrunk' => ~shrunk /\ l # "pallet"
  BY <1>1
<1>12. refusals' \in Nat /\ refusals' = refusals
  BY <1>1, <1>2
<1> QED
  BY <1>1, <1>4, <1>6, <1>7, <1>8, <1>9, <1>10, <1>11, <1>12, LaneFrame

\* Stop keeps the invariant.
LEMMA StopStep ==
  ASSUME GuiInv, NEW l \in Lanes, Stop(l)
  PROVE  GuiInv'
<1> DEFINE lane == gui.lanes[l]
           c == lane.child
           q == [procs[c] EXCEPT !.ended = TRUE]
           t == "Process stop failed"
<1>1. PICK fails \in BOOLEAN :
        /\ refusals' = refusals + Some(fails)
        /\ Draws(WithLane(l, Stopped(lane, fails)))
        /\ Shrinks(l, fails /\ Overflows(lane, 1))
  BY DEF Stop, Refuses
<1>2. /\ EndsFrame /\ c # 0 /\ procs' = [procs EXCEPT ![c] = q]
      /\ UNCHANGED <<manifests, unnoticed>>
  BY DEF Stop, KilledWith
<1> DEFINE new == Stopped(lane, fails)
           full == fails /\ Overflows(lane, 1)
<1>3. /\ GuiShape(gui) /\ procs \in Seq(ProcType) /\ DOMAIN procs = 1 .. Len(procs)
      /\ Len(procs) \in Nat
      /\ \A r \in DOMAIN procs : procs[r] \in ProcType /\ ProcOK(r, procs[r])
      /\ \A k \in Lanes : /\ gui.lanes[k] \in LaneType
                         /\ LaneOK(k, gui.lanes[k], procs, whole[k])
      /\ DOMAIN whole = Lanes /\ refusals \in Nat
      /\ Watched(procs, gui.lanes, refusals, unnoticed) /\ lane.logs \in Lines
  BY LanesAre
<1>4. c \in DOMAIN procs /\ procs[c].lane = l
  BY <1>2, <1>3 DEF LaneOK
<1>5. /\ q \in ProcType /\ q.lane = procs[c].lane /\ q.job = procs[c].job
      /\ q.todo = procs[c].todo /\ q.pipe = procs[c].pipe /\ q.ended
  BY <1>3, <1>4, EndedIs
<1>6. lane = gui.lanes[l] /\ c = lane.child
  OBVIOUS
<1> HIDE DEF q, c
<1>7. /\ procs' \in Seq(ProcType) /\ Len(procs') = Len(procs) /\ procs'[c].ended
      /\ \A k \in DOMAIN procs : /\ procs'[k].lane = procs[k].lane /\ procs'[k].job = procs[k].job
                                /\ procs'[k].todo = procs[k].todo /\ procs'[k].pipe = procs[k].pipe
                                /\ (~procs'[k].ended => ~procs[k].ended)
  BY <1>2, <1>3, <1>4, <1>5
<1>8. /\ ProcsOK(procs')
      /\ \A w : \A k \in Lanes, x \in LaneType : LaneOK(k, x, procs, w) => LaneOK(k, x, procs', w)
  BY <1>3, <1>7, Changed
<1>9. /\ new \in LaneType /\ new.child = 0 /\ LaneOK(l, new, procs, whole[l] /\ ~full)
      /\ (new.logs = lane.logs \/ (~full => Len(new.logs) > Len(lane.logs)))
  <2> HIDE DEF lane
  <2>0. lane \in LaneType /\ LaneOK(l, lane, procs, whole[l]) /\ Len(lane.logs) \in Nat
    BY <1>3, <1>6 DEF Lines
  <2>1. CASE fails
    <3>1. new = Abandoned(lane, t)
      BY <1>2, <1>6, <2>1 DEF Stopped
    <3>2. t \in Spoken
      BY DEF Spoken
    <3> HIDE DEF t, new
    <3>3. /\ new \in LaneType /\ new.child = 0
          /\ LaneOK(l, new, procs, whole[l] /\ ~Overflows(lane, 1))
      BY <1>3, <2>0, <3>1, <3>2, AbandonedOK
    <3> DEFINE m == PushLine(lane, System(t))
    <3>4. m \in LaneType /\ (~Overflows(lane, 1) => Len(m.logs) = Len(lane.logs) + 1)
      BY <1>3, <2>0, <3>2, SystemPushed, PushedGrows
    <3>5. new = [m EXCEPT !.child = 0]
      BY <3>1 DEF Abandoned
    <3> HIDE DEF m
    <3>6. new.logs = m.logs
      BY <3>4, <3>5 DEF LaneType
    <3>7. ~Overflows(lane, 1) => Len(new.logs) > Len(lane.logs)
      <4> DEFINE a == Len(m.logs)
                 b == Len(lane.logs)
      <4>1. b \in Nat /\ (~Overflows(lane, 1) => a = b + 1)
        BY <2>0, <3>4
      <4> HIDE DEF a, b
      <4>2. ~Overflows(lane, 1) => a > b
        BY <4>1
      <4> QED
        BY <3>6, <4>2 DEF a, b
    <3> QED
      BY <2>1, <3>3, <3>7
  <2>2. CASE ~fails
    <3>1. new = Ended(lane)
      BY <1>2, <1>6, <2>2 DEF Stopped
    <3> HIDE DEF new
    <3>2. new \in LaneType /\ new.child = 0 /\ new.logs = lane.logs /\ LaneOK(l, new, procs, whole[l])
      BY <2>0, <3>1, LaneGoesOn, ChildLeft
    <3>3. LaneOK(l, new, procs, whole[l] /\ ~full)
      BY <3>2, LaneWeaker
    <3> QED
      BY <3>2, <3>3
  <2> QED
    BY <2>1, <2>2
<1>10. /\ whole' = [whole EXCEPT ![l] = whole[l] /\ ~full]
       /\ shrunk' = (shrunk \/ (full /\ l = "pallet")) /\ Draws(WithLane(l, new))
  BY <1>1 DEF Shrinks
<1> HIDE DEF new, full
<1>11. /\ DOMAIN whole' = Lanes /\ whole'[l] = (whole[l] /\ ~full)
       /\ \A k \in Lanes \ {l} : whole'[k] = whole[k]
  BY <1>3, <1>10
<1>12. LaneOK(l, new, procs', whole'[l])
  BY <1>8, <1>9, <1>11
<1>13. \A k \in Lanes \ {l} : LaneOK(k, gui.lanes[k], procs', whole'[k])
  BY <1>3, <1>8, <1>11
<1>14. refusals' \in Nat /\ refusals' >= refusals
  BY <1>1, <1>3 DEF Some
<1>15. Watched(procs', WithLane(l, new).lanes, refusals', unnoticed)
  <2>1. /\ WithLane(l, new).lanes[l] = new
        /\ \A k \in Lanes \ {l} : WithLane(l, new).lanes[k] = gui.lanes[k]
    BY <1>3, <1>9, WithLaneIs
  <2>2. DOMAIN procs' = DOMAIN procs
    BY <1>3, <1>7
  <2> SUFFICES ASSUME NEW r \in DOMAIN procs, ~procs'[r].ended
               PROVE  \/ WithLane(l, new).lanes[procs'[r].lane].child = r
                      \/ refusals' # 0 /\ (procs'[r].lane = "tools" => unnoticed # {})
    BY <2>2 DEF Watched
  <2>3. /\ r # c /\ ~procs[r].ended /\ procs'[r].lane = procs[r].lane /\ procs[r].lane \in Lanes
    BY <1>3, <1>7 DEF ProcType
  <2>4. \/ gui.lanes[procs[r].lane].child = r
        \/ refusals # 0 /\ (procs[r].lane = "tools" => unnoticed # {})
    BY <1>3, <2>3 DEF Watched
  <2>5. gui.lanes[procs[r].lane].child = r => procs[r].lane # l
    BY <1>6, <2>3
  <2>6. refusals # 0 => refusals' # 0
    BY <1>3, <1>14
  <2> QED
    BY <2>1, <2>3, <2>4, <2>5, <2>6
<1>16. ~shrunk' => ~shrunk /\ (l = "pallet" => \/ new.logs = gui.lanes[l].logs
                                             \/ Len(new.logs) > Len(gui.lanes[l].logs))
  <2>1. ~shrunk' => ~shrunk /\ (l = "pallet" => ~full)
    BY <1>10
  <2> QED
    BY <1>6, <1>9, <2>1
<1>17. Len(procs') >= Len(procs)
  BY <1>3, <1>7
<1> QED
  BY <1>2, <1>8, <1>9, <1>10, <1>11, <1>12, <1>13, <1>14, <1>15, <1>16, <1>17, LaneFrame

\* Every lane stopped.
LEMMA StopsAllStep ==
  ASSUME GuiInv, StopsAll, phase' \in {"closing", "leaving", "gone"},
         UNCHANGED <<manifests, refusals, whole, unnoticed, shrunk>>
  PROVE  GuiInv'
<1> DEFINE lanes == [l \in Lanes |-> Stopped(gui.lanes[l], FALSE)]
<1>1. procs' = KillAll /\ gui' = [gui EXCEPT !.lanes = lanes]
  BY DEF StopsAll
<1>2. /\ GuiShape(gui) /\ procs \in Seq(ProcType) /\ DOMAIN procs = 1 .. Len(procs)
      /\ Len(procs) \in Nat
      /\ \A r \in DOMAIN procs : procs[r] \in ProcType /\ ProcOK(r, procs[r])
      /\ \A k \in Lanes : /\ gui.lanes[k] \in LaneType
                         /\ LaneOK(k, gui.lanes[k], procs, whole[k])
      /\ DOMAIN whole = Lanes /\ refusals \in Nat /\ ManifestTold /\ StatsLooked
      /\ Watched(procs, gui.lanes, refusals, unnoticed)
  BY LanesAre
<1>3. /\ procs' \in Seq(ProcType) /\ Len(procs') = Len(procs) /\ DOMAIN procs' = DOMAIN procs
      /\ \A k \in DOMAIN procs : /\ procs'[k].lane = procs[k].lane /\ procs'[k].job = procs[k].job
                                /\ procs'[k].todo = procs[k].todo /\ procs'[k].pipe = procs[k].pipe
      /\ \A k \in DOMAIN procs : ~procs'[k].ended => ~procs[k].ended /\ k \notin Children
  <2> DEFINE e(k) == IF k \in Children THEN [procs[k] EXCEPT !.ended = TRUE] ELSE procs[k]
  <2>1. procs' = [k \in DOMAIN procs |-> e(k)]
    BY <1>1 DEF KillAll
  <2>2. \A k \in DOMAIN procs :
          /\ e(k) \in ProcType /\ e(k).lane = procs[k].lane /\ e(k).job = procs[k].job
          /\ e(k).todo = procs[k].todo /\ e(k).pipe = procs[k].pipe
          /\ ~e(k).ended => ~procs[k].ended /\ k \notin Children
    <3> TAKE k \in DOMAIN procs
    <3> DEFINE q == [procs[k] EXCEPT !.ended = TRUE]
    <3>1. /\ q \in ProcType /\ q.lane = procs[k].lane /\ q.job = procs[k].job
          /\ q.todo = procs[k].todo /\ q.pipe = procs[k].pipe /\ q.ended
      BY <1>2, EndedIs
    <3>2. e(k) = IF k \in Children THEN q ELSE procs[k]
      OBVIOUS
    <3> HIDE DEF q, e
    <3>3. CASE k \in Children
      BY <3>1, <3>2, <3>3
    <3>4. CASE k \notin Children
      <4>1. e(k) = procs[k]
        BY <3>2, <3>4
      <4> QED
        BY <1>2, <3>4, <4>1
    <3> QED
      BY <3>3, <3>4
  <2> HIDE DEF e
  <2>3. procs' \in [1 .. Len(procs) -> ProcType]
    BY <1>2, <2>1, <2>2
  <2>4. procs' \in Seq(ProcType) /\ Len(procs') = Len(procs)
    BY <1>2, <2>3
  <2> QED
    BY <2>1, <2>2, <2>4
<1>4. /\ ProcsOK(procs')
      /\ \A w : \A k \in Lanes, x \in LaneType : LaneOK(k, x, procs, w) => LaneOK(k, x, procs', w)
  BY <1>2, <1>3, Changed
<1>5. ASSUME NEW l \in Lanes
      PROVE  /\ lanes[l] \in LaneType /\ lanes[l].child = 0 /\ lanes[l].logs = gui.lanes[l].logs
             /\ LaneOK(l, lanes[l], procs, whole[l])
  <2> DEFINE lane == gui.lanes[l]
  <2>1. lane \in LaneType /\ LaneOK(l, lane, procs, whole[l])
    BY <1>2
  <2>2. lanes[l] = IF lane.child = 0 THEN lane ELSE Ended(lane)
    BY DEF Stopped
  <2> HIDE DEF lanes
  <2>3. CASE lane.child = 0
    BY <2>1, <2>2, <2>3
  <2>4. CASE lane.child # 0
    <3>1. lanes[l] = Ended(lane)
      BY <2>2, <2>4
    <3>2. /\ Ended(lane) \in LaneType /\ Ended(lane).logs = lane.logs
          /\ Ended(lane).child = 0 /\ LaneOK(l, Ended(lane), procs, whole[l])
      BY <2>1, LaneGoesOn, ChildLeft
    <3> QED
      BY <3>1, <3>2
  <2> QED
    BY <2>3, <2>4
<1>6. lanes = [l \in Lanes |-> lanes[l]]
  OBVIOUS
<1> HIDE DEF lanes
<1>7. lanes \in [Lanes -> LaneType]
  BY <1>5, <1>6
<1>8. /\ GuiShape(gui') /\ gui'.lanes = lanes /\ gui'.shown = gui.shown /\ gui'.root = gui.root
      /\ gui'.stats = gui.stats
  <2>1. gui = [root |-> gui.root, tab |-> gui.tab, lanes |-> gui.lanes, shown |-> gui.shown,
               ran |-> gui.ran, stats |-> gui.stats]
    BY <1>2 DEF GuiShape
  <2>2. gui' = [root |-> gui.root, tab |-> gui.tab, lanes |-> lanes, shown |-> gui.shown,
                ran |-> gui.ran, stats |-> gui.stats]
    BY <1>1, <2>1
  <2> QED
    BY <1>2, <1>7, <2>2 DEF GuiShape
<1>9. GuiShape(gui)' = GuiShape(gui')
  BY DEF GuiShape, Tabs, LaneType, LineType, Lines, Tab
<1>10. LanesHold'
  <2>1. LanesOK(lanes, procs', whole)
    BY <1>4, <1>5 DEF LanesOK
  <2>2. (\A root \in Roots : manifests[root] \in 0 .. Len(procs)) /\ DOMAIN manifests = Roots
    BY DEF GuiInv, LanesHold
  <2> QED
    BY <1>2, <1>3, <1>4, <1>8, <1>9, <2>1, <2>2 DEF LanesHold, LanesOK
<1>11. Watched(procs, gui.lanes, refusals, unnoticed)'
  <2> SUFFICES ASSUME NEW r \in DOMAIN procs, ~procs'[r].ended
               PROVE  refusals # 0 /\ (procs'[r].lane = "tools" => unnoticed # {})
    BY <1>3 DEF Watched
  <2>1. /\ ~procs[r].ended /\ r \notin Children /\ procs'[r].lane = procs[r].lane
        /\ procs[r].lane \in Lanes /\ r # 0
    BY <1>2, <1>3 DEF ProcType
  <2>2. gui.lanes[procs[r].lane].child # r
    BY <2>1 DEF Children
  <2> QED
    BY <1>2, <2>1, <2>2 DEF Watched
<1>12. ManifestTold' /\ RanTrue'
  <2>1. NotLooked' = NotLooked
    BY DEF NotLooked
  <2>2. gui.shown # NotLooked => gui.shown.root = gui.root
    BY <1>2 DEF ManifestTold
  <2> QED
    BY <1>8, <2>1, <2>2 DEF ManifestTold, RanTrue
<1>13. StatsLooked'
  <2>1. gui'.lanes["pallet"].logs = gui.lanes["pallet"].logs
    BY <1>5, <1>8, GuiAssumption
  <2>2. ~shrunk' => StatsOf(gui'.stats, gui'.lanes["pallet"].logs)
    BY <1>2, <1>8, <2>1 DEF StatsLooked
  <2>3. phase' \notin Drawing /\ Drawing' = Drawing
    BY DEF Drawing
  <2> QED
    BY <2>2, <2>3 DEF StatsLooked
<1>14. Gone'
  BY <1>5, <1>8 DEF Gone
<1> QED
  BY <1>10, <1>11, <1>12, <1>13, <1>14 DEF GuiInv

\* Every way to close keeps the invariant.
LEMMA CloseStep ==
  ASSUME GuiInv, CloseWindow \/ OutOfMemory \/ LoopExiting
  PROVE  GuiInv'
<1>1. CASE CloseWindow
  BY <1>1, StopsAllStep DEF CloseWindow, Closing
<1>2. CASE LoopExiting
  BY <1>2, StopsAllStep DEF LoopExiting
<1>3. CASE OutOfMemory
  <2>1. /\ phase' \in {"closing", "leaving"}
        /\ UNCHANGED <<gui, procs, manifests, refusals, whole, unnoticed, shrunk>>
    BY <1>3 DEF OutOfMemory, Closing
  <2>2. LanesHold'
    BY <2>1 DEF GuiInv, LanesHold, GuiShape, LanesOK, ProcsOK
  <2>3. Watched(procs, gui.lanes, refusals, unnoticed)' /\ Gone' /\ RanTrue'
    BY <2>1 DEF GuiInv, Watched, Gone, RanTrue
  <2>4. ManifestTold'
    BY <2>1 DEF GuiInv, ManifestTold, NotLooked
  <2>5. StatsLooked'
    BY <2>1 DEF GuiInv, StatsLooked, StatsOf, Drawing
  <2> QED
    BY <2>2, <2>3, <2>4, <2>5 DEF GuiInv
<1> QED
  BY <1>1, <1>2, <1>3

(* The window's record with the lanes, the mark of a running cook and the      *)
(* statistics put in.                                                         *)
LEMMA WindowPut ==
  ASSUME NEW x, NEW y, NEW a, NEW b, NEW c,
         x = [root |-> x.root, tab |-> x.tab, lanes |-> x.lanes, shown |-> x.shown,
              ran |-> x.ran, stats |-> x.stats],
         y = [x EXCEPT !.lanes = a, !.ran = b, !.stats = c]
  PROVE  /\ y = [root |-> y.root, tab |-> y.tab, lanes |-> y.lanes, shown |-> y.shown,
                 ran |-> y.ran, stats |-> y.stats]
         /\ y.root = x.root /\ y.tab = x.tab /\ y.shown = x.shown
         /\ y.lanes = a /\ y.ran = b /\ y.stats = c
OBVIOUS

\* The frame's poll of every lane.
LEMMA PollStep ==
  ASSUME GuiInv, PollAll
  PROVE  GuiInv'
<1> DEFINE lane(l) == gui.lanes[l]
<1>1. PICK failing \in SUBSET {l \in Lanes : gui.lanes[l].child # 0} :
        /\ Refuses(Cardinality(failing))
        /\ \E lanes \in {[l \in Lanes |-> Poll(gui.lanes[l], l \in failing)]} :
             LET running == lanes["tools"].child # 0
                 g == [gui EXCEPT !.lanes = lanes, !.ran = running,
                                  !.stats = Stats(@, lanes["pallet"].logs)]
                 child == gui.lanes["tools"].child
                 full == {l \in Lanes :
                            Overflows(gui.lanes[l], Len(gui.lanes[l].chan) + Some(l \in failing))}
             IN /\ gui' = IF gui.ran /\ ~running THEN Refreshed(g) ELSE g
                /\ whole' = [l \in Lanes |-> whole[l] /\ l \notin full]
                /\ shrunk' = (g.stats = gui.stats /\ (shrunk \/ "pallet" \in full))
                /\ unnoticed' = IF child # 0 /\ ~running /\ (~gui.ran \/ "tools" \in failing)
                                THEN unnoticed \cup {child} ELSE unnoticed
  BY DEF PollAll
<1> DEFINE lanes == [l \in Lanes |-> Poll(gui.lanes[l], l \in failing)]
           running == lanes["tools"].child # 0
           stats == Stats(gui.stats, lanes["pallet"].logs)
           g == [gui EXCEPT !.lanes = lanes, !.ran = running, !.stats = stats]
           child == gui.lanes["tools"].child
           full == {l \in Lanes :
                      Overflows(gui.lanes[l], Len(gui.lanes[l].chan) + Some(l \in failing))}
<1>2. /\ gui' = IF gui.ran /\ ~running THEN Refreshed(g) ELSE g
      /\ whole' = [l \in Lanes |-> whole[l] /\ l \notin full]
      /\ shrunk' = (g.stats = gui.stats /\ (shrunk \/ "pallet" \in full))
      /\ unnoticed' = IF child # 0 /\ ~running /\ (~gui.ran \/ "tools" \in failing)
                      THEN unnoticed \cup {child} ELSE unnoticed
  BY <1>1, Zenon
<1>3. /\ refusals' = refusals + Cardinality(failing)
      /\ phase \in {"events", "closing"} /\ phase' = (IF phase = "events" THEN "drawing" ELSE "late")
      /\ UNCHANGED <<procs, manifests>>
  BY <1>1 DEF PollAll, Refuses
<1>4. /\ GuiShape(gui) /\ procs \in Seq(ProcType) /\ DOMAIN procs = 1 .. Len(procs)
      /\ Len(procs) \in Nat
      /\ \A r \in DOMAIN procs : procs[r] \in ProcType /\ ProcOK(r, procs[r])
      /\ \A k \in Lanes : /\ gui.lanes[k] \in LaneType
                         /\ LaneOK(k, gui.lanes[k], procs, whole[k])
                         /\ gui.lanes[k].logs \in Lines
      /\ DOMAIN whole = Lanes /\ refusals \in Nat /\ ManifestTold /\ StatsLooked
      /\ Watched(procs, gui.lanes, refusals, unnoticed)
      /\ "tools" \in Lanes /\ "pallet" \in Lanes
  BY LanesAre
<1>5. ASSUME NEW l \in Lanes
      PROVE  /\ lanes[l] \in LaneType
             /\ LaneOK(l, lanes[l], procs, whole[l] /\ l \notin full)
             /\ lanes[l].child = IF l \in failing \/ (gui.lanes[l].child # 0 /\ procs[gui.lanes[l].child].ended)
                                THEN 0 ELSE gui.lanes[l].child
             /\ l \notin full =>
                  /\ Len(lanes[l].logs) >= Len(gui.lanes[l].logs)
                  /\ Len(lanes[l].logs) = Len(gui.lanes[l].logs) => lanes[l].logs = gui.lanes[l].logs
  <2> DEFINE x == gui.lanes[l]
             fails == l \in failing
             o == Overflows(x, Len(x.chan) + Some(fails))
             y == Poll(x, fails)
  <2>1. lanes[l] = y /\ (l \notin full <=> ~o) /\ (fails <=> l \in failing)
    OBVIOUS
  <2>2. x \in LaneType /\ LaneOK(l, x, procs, whole[l]) /\ (fails => x.child # 0)
    BY <1>1, <1>4
  <2> HIDE DEF fails, x, o, y
  <2>3. /\ y \in LaneType /\ LaneOK(l, y, procs, whole[l] /\ ~o)
        /\ y.child = IF fails \/ (x.child # 0 /\ procs[x.child].ended) THEN 0 ELSE x.child
    BY <1>4, <2>2, PolledOK DEF y, o
  <2>4. ~o => /\ Len(y.logs) >= Len(x.logs)
              /\ Len(y.logs) = Len(x.logs) => y.logs = x.logs
    BY <2>2, PolledGrows DEF y, o
  <2> HIDE DEF lanes, full
  <2>5. LaneOK(l, y, procs, whole[l] /\ l \notin full)
    BY <2>1, <2>3, LaneWeaker
  <2> QED
    BY <2>1, <2>3, <2>4, <2>5 DEF x
<1>6. lanes = [l \in Lanes |-> lanes[l]]
  OBVIOUS
<1> HIDE DEF lanes, full
<1>7. lanes \in [Lanes -> LaneType]
  BY <1>5, <1>6
<1> DEFINE u == gui.lanes["pallet"].logs
           v == lanes["pallet"].logs
<1>8. u \in Lines /\ v \in Lines /\ Len(u) \in Nat /\ Len(v) \in Nat
  BY <1>4, <1>5 DEF LaneType, Lines
<1>9. /\ stats = (IF Len(v) = gui.stats.len THEN gui.stats ELSE [len |-> Len(v), lines |-> Extract(v)])
      /\ stats.len = Len(v) /\ (stats # gui.stats => StatsOf(stats, v))
      /\ (Len(v) # gui.stats.len => stats # gui.stats /\ StatsOf(stats, v))
  <2>1. stats = (IF Len(v) = gui.stats.len THEN gui.stats ELSE [len |-> Len(v), lines |-> Extract(v)])
    BY DEF Stats
  <2> HIDE DEF v
  <2>2. CASE Len(v) = gui.stats.len
    BY <2>1, <2>2
  <2>3. CASE Len(v) # gui.stats.len
    <3>1. stats = [len |-> Len(v), lines |-> Extract(v)]
      BY <2>1, <2>3
    <3>2. stats.len = Len(v) /\ stats.lines = Extract(v)
      BY <3>1
    <3> HIDE DEF stats
    <3> QED
      BY <1>8, <2>1, <2>3, <3>2 DEF StatsOf
  <2> QED
    BY <2>2, <2>3
<1>10. /\ GuiShape(g) /\ g.lanes = lanes /\ g.shown = gui.shown /\ g.root = gui.root
       /\ g.stats = stats /\ (g.ran <=> running) /\ g.tab = gui.tab
  <2> HIDE DEF stats, running
  <2>1. gui = [root |-> gui.root, tab |-> gui.tab, lanes |-> gui.lanes, shown |-> gui.shown,
               ran |-> gui.ran, stats |-> gui.stats]
    BY <1>4 DEF GuiShape
  <2>2. g = [gui EXCEPT !.lanes = lanes, !.ran = running, !.stats = stats]
    OBVIOUS
  <2> HIDE DEF g
  <2>3. /\ g = [root |-> g.root, tab |-> g.tab, lanes |-> g.lanes, shown |-> g.shown,
                ran |-> g.ran, stats |-> g.stats]
        /\ g.root = gui.root /\ g.tab = gui.tab /\ g.shown = gui.shown
        /\ g.lanes = lanes /\ g.ran = running /\ g.stats = stats
    BY <2>1, <2>2, WindowPut, Zenon
  <2>4. stats.len \in Nat
    BY <1>8, <1>9
  <2>5. GuiShape(g)
    BY <1>4, <1>7, <2>3, <2>4 DEF GuiShape
  <2>6. g.ran <=> running
    BY <2>3, Zenon
  <2> QED
    BY <2>3, <2>5, <2>6
<1> HIDE DEF g, stats
<1>11. /\ GuiShape(gui') /\ gui'.lanes = lanes /\ gui'.root = gui.root /\ gui'.stats = stats
       /\ (gui'.ran <=> running) /\ gui'.tab = gui.tab
       /\ gui'.shown = (IF gui.ran /\ ~running THEN Manifest(gui.root) ELSE gui.shown)
  <2>1. CASE gui.ran /\ ~running
    <3>1. gui' = Refreshed(g)
      BY <1>2, <2>1
    <3> QED
      BY <1>10, <2>1, <3>1, RefreshedIs
  <2>2. CASE ~(gui.ran /\ ~running)
    <3>1. gui' = g
      BY <1>2, <2>2
    <3> QED
      BY <1>10, <2>2, <3>1
  <2> QED
    BY <2>1, <2>2
<1>12. IsFiniteSet(failing) /\ Cardinality(failing) \in Nat
       /\ (failing # {} => Cardinality(failing) # 0)
  <2>1. failing \subseteq Lanes
    BY <1>1
  <2>2. IsFiniteSet(failing)
    BY <2>1, FS_Subset, GuiAssumption
  <2> QED
    BY <2>2, FS_CardinalityType, FS_EmptySet
<1>13. refusals' \in Nat /\ refusals' >= refusals /\ (failing # {} => refusals' # 0)
  BY <1>3, <1>4, <1>12
<1>14. phase' \in {"drawing", "late"} /\ (phase' = "drawing" => phase = "events")
  BY <1>3
<1>15. GuiShape(gui)' = GuiShape(gui')
  BY DEF GuiShape, Tabs, LaneType, LineType, Lines, Tab
<1>16. LanesHold'
  <2>1. \A l \in Lanes : whole'[l] => whole[l] /\ l \notin full
    BY <1>2
  <2>2. \A l \in Lanes : LaneOK(l, lanes[l], procs, whole'[l])
    BY <1>5, <2>1, LaneWeaker
  <2>3. DOMAIN whole' = Lanes
    BY <1>2
  <2>4. (\A root \in Roots : manifests[root] \in 0 .. Len(procs)) /\ DOMAIN manifests = Roots
        /\ ProcsOK(procs)
    BY DEF GuiInv, LanesHold
  <2> QED
    BY <1>3, <1>11, <1>13, <1>14, <1>15, <2>2, <2>3, <2>4 DEF LanesHold, LanesOK, ProcsOK
<1>17. Watched(procs, gui.lanes, refusals, unnoticed)'
  <2> SUFFICES ASSUME NEW r \in DOMAIN procs, ~procs[r].ended
               PROVE  \/ lanes[procs[r].lane].child = r
                      \/ refusals' # 0 /\ (procs[r].lane = "tools" => unnoticed' # {})
    BY <1>3, <1>11 DEF Watched
  <2>1. procs[r].lane \in Lanes /\ r # 0
    BY <1>4 DEF ProcType
  <2>2. \/ gui.lanes[procs[r].lane].child = r
        \/ refusals # 0 /\ (procs[r].lane = "tools" => unnoticed # {})
    BY <1>4 DEF Watched
  <2>3. unnoticed \subseteq unnoticed'
    BY <1>2
  <2>4. CASE refusals # 0 /\ (procs[r].lane = "tools" => unnoticed # {})
    BY <1>4, <1>13, <2>3, <2>4
  <2>5. CASE gui.lanes[procs[r].lane].child = r
    <3>1. CASE procs[r].lane \notin failing
      BY <1>5, <2>1, <2>5, <3>1
    <3>2. CASE procs[r].lane \in failing
      <4>1. refusals' # 0 /\ lanes[procs[r].lane].child = 0
        BY <1>5, <1>13, <2>1, <3>2
      <4>2. ASSUME procs[r].lane = "tools" PROVE unnoticed' # {}
        <5>1. child # 0 /\ ~running /\ "tools" \in failing
          BY <2>1, <2>5, <3>2, <4>1, <4>2
        <5> QED
          BY <1>2, <5>1
      <4> QED
        BY <4>1, <4>2
    <3> QED
      BY <3>1, <3>2
  <2> QED
    BY <2>2, <2>4, <2>5
<1>18. RanTrue'
  BY <1>11 DEF RanTrue
<1>19. ManifestTold'
  <2>1. NotLooked' = NotLooked /\ Manifest(gui.root)' = Manifest(gui.root)
    BY <1>3, <1>11 DEF NotLooked, Manifest
  <2>2. gui'.shown # NotLooked => gui'.shown.root = gui'.root
    <3>1. gui.shown # NotLooked => gui.shown.root = gui.root
      BY <1>4 DEF ManifestTold
    <3> QED
      BY <1>11, <3>1, ManifestIs
  <2>3. ASSUME gui'.shown # NotLooked, gui'.shown # Manifest(gui.root), phase' \in {"events", "drawing"}
        PROVE  gui'.ran \/ unnoticed' # {}
    <3>1. phase = "events" /\ gui'.shown = gui.shown /\ ~(gui.ran /\ ~running)
      BY <1>11, <1>14, <2>3
    <3>2. gui.ran \/ child # 0 \/ unnoticed # {}
      BY <1>4, <2>3, <3>1 DEF ManifestTold
    <3>3. CASE running
      BY <1>11, <3>3
    <3>4. CASE ~running
      <4>1. ~gui.ran
        BY <3>1, <3>4
      <4> HIDE DEF running, child
      <4>2. child # 0 => unnoticed' = unnoticed \cup {child}
        BY <1>2, <3>4, <4>1
      <4>3. unnoticed \subseteq unnoticed'
        BY <1>2
      <4> QED
        BY <3>2, <4>1, <4>2, <4>3
    <3> QED
      BY <3>3, <3>4
  <2>4. phase' # "events"
    BY <1>14
  <2> QED
    BY <2>1, <2>2, <2>3, <2>4 DEF ManifestTold
<1>20. StatsLooked'
  <2>1. gui'.stats = stats /\ gui'.lanes["pallet"].logs = v /\ Drawing' = Drawing
    BY <1>11 DEF Drawing
  <2>2. ASSUME ~shrunk' PROVE StatsOf(stats, v)
    <3>1. CASE Len(v) # gui.stats.len
      BY <1>9, <3>1
    <3>2. CASE Len(v) = gui.stats.len
      <4>1. stats = gui.stats
        BY <1>9, <3>2
      <4>2. ~shrunk /\ "pallet" \notin full
        BY <1>2, <1>10, <2>2, <4>1
      <4>3. StatsOf(gui.stats, u)
        BY <1>4, <4>2 DEF StatsLooked
      <4>4. Len(v) >= Len(u) /\ (Len(v) = Len(u) => v = u)
        BY <1>4, <1>5, <4>2
      <4> HIDE DEF u, v
      <4>5. Len(u) = Len(v)
        BY <1>8, <3>2, <4>3, <4>4 DEF StatsOf
      <4> QED
        BY <4>1, <4>3, <4>4, <4>5
    <3> QED
      BY <3>1, <3>2
  <2>3. stats.len = Len(v)
    BY <1>9
  <2> HIDE DEF v
  <2> QED
    BY <2>1, <2>2, <2>3 DEF StatsLooked
<1>21. Gone'
  BY <1>14 DEF Gone
<1> QED
  BY <1>16, <1>17, <1>18, <1>19, <1>20, <1>21 DEF GuiInv

\* The runner starts in the invariant.
LEMMA GuiStarts ==
  ASSUME GuiInit
  PROVE  GuiInv
<1>1. PICK root \in Roots \cup {"none"} :
        gui = [root |-> root, tab |-> "pallet", lanes |-> [l \in Lanes |-> NewLane],
               shown |-> NotLooked, ran |-> FALSE, stats |-> [len |-> 0, lines |-> <<>>]]
  BY DEF GuiInit
<1>2. /\ procs = <<>> /\ manifests = [r \in Roots |-> 0]
      /\ phase = "events" /\ refusals = 0
      /\ whole = [l \in Lanes |-> TRUE] /\ unnoticed = {} /\ shrunk = FALSE
  BY DEF GuiInit
<1>3. /\ gui.root = root /\ gui.tab = "pallet" /\ gui.lanes = [l \in Lanes |-> NewLane]
      /\ gui.shown = NotLooked /\ gui.ran = FALSE /\ gui.stats.len = 0 /\ gui.stats.lines = <<>>
      /\ gui = [root |-> gui.root, tab |-> gui.tab, lanes |-> gui.lanes, shown |-> gui.shown,
                ran |-> gui.ran, stats |-> gui.stats]
  BY <1>1
<1>4. "pallet" \in Lanes /\ "tools" \in Lanes /\ LogMax \in Nat
  BY GuiAssumption
<1>5. "pallet" \in Tabs
  <2>1. Tab["pallet"] = "pallet"
    BY <1>4 DEF Tab
  <2> QED
    BY <1>4, <2>1 DEF Tabs
<1>6. /\ NewLane.logs = <<>> /\ NewLane.chan = <<>> /\ NewLane.child = 0 /\ NewLane.channel = 0
      /\ NewLane \in LaneType
  <2>1. <<>> \in Lines
    BY DEF Lines
  <2> QED
    BY <2>1 DEF NewLane, LaneType
<1>7. GuiShape(gui)
  <2>1. gui.lanes \in [Lanes -> LaneType]
    BY <1>3, <1>6
  <2> QED
    BY <1>3, <1>5, <2>1 DEF GuiShape
<1>8. procs \in Seq(ProcType) /\ Len(procs) = 0 /\ DOMAIN procs = {}
  BY <1>2
<1>9. \A l \in Lanes : LaneOK(l, gui.lanes[l], procs, whole[l])
  <2>1. ASSUME NEW l \in Lanes PROVE LaneOK(l, gui.lanes[l], procs, whole[l])
    <3>1. gui.lanes[l] = NewLane
      BY <1>3
    <3>2. /\ gui.lanes[l].logs = <<>> /\ gui.lanes[l].chan = <<>>
          /\ gui.lanes[l].child = 0 /\ gui.lanes[l].channel = 0
      BY <1>6, <3>1
    <3>3. Len(gui.lanes[l].logs) <= LogMax /\ 0 \in 0 .. Len(procs)
      BY <1>4, <1>8, <3>2
    <3> QED
      BY <1>8, <3>2, <3>3 DEF LaneOK
  <2> QED
    BY <2>1
<1>10. LanesHold
  <2>1. LanesOK(gui.lanes, procs, whole)
    BY <1>9, Zenon DEF LanesOK
  <2>2. ProcsOK(procs)
    BY <1>8 DEF ProcsOK
  <2>3. DOMAIN whole = Lanes /\ DOMAIN manifests = Roots
    BY <1>2
  <2>4. \A r \in Roots : manifests[r] \in 0 .. Len(procs)
    <3>1. \A r \in Roots : manifests[r] = 0
      BY <1>2
    <3> QED
      BY <1>8, <3>1
  <2>5. phase \in {"events", "drawing", "late", "closing", "leaving", "gone"} /\ refusals \in Nat
    BY <1>2
  <2> QED
    BY <1>7, <2>1, <2>2, <2>3, <2>4, <2>5 DEF LanesHold
<1>11. Watched(procs, gui.lanes, refusals, unnoticed) /\ RanTrue /\ Gone
  BY <1>2, <1>8 DEF Watched, RanTrue, Gone
<1>12. ManifestTold
  BY <1>3 DEF ManifestTold
<1>13. StatsLooked
  <2>1. gui.lanes["pallet"].logs = <<>>
    BY <1>3, <1>4, <1>6
  <2>2. Extract(<<>>) = <<>>
    <3>1. {i \in DOMAIN <<>> : <<>>[i].text = "asset stats:"} = {}
      OBVIOUS
    <3> QED
      BY <3>1, Zenon DEF Extract
  <2>3. StatsOf(gui.stats, <<>>)
    BY <1>3, <2>2 DEF StatsOf
  <2>4. phase \notin Drawing
    BY <1>2 DEF Drawing
  <2> QED
    BY <2>1, <2>3, <2>4 DEF StatsLooked
<1> QED
  BY <1>10, <1>11, <1>12, <1>13 DEF GuiInv

\* Every step of the runner keeps the invariant.
LEMMA GuiSteps ==
  ASSUME GuiInv, [GuiNext]_gvars
  PROVE  GuiInv'
<1>1. CASE UNCHANGED gvars
  <2>1. UNCHANGED <<gui, procs, manifests, phase, refusals, whole, unnoticed, shrunk>>
    BY <1>1 DEF gvars
  <2>2. LanesHold'
    BY <2>1 DEF GuiInv, LanesHold, GuiShape, LanesOK, ProcsOK
  <2>3. Watched(procs, gui.lanes, refusals, unnoticed)' /\ Gone' /\ RanTrue'
    BY <2>1 DEF GuiInv, Watched, Gone, RanTrue
  <2>4. ManifestTold'
    BY <2>1 DEF GuiInv, ManifestTold, NotLooked, Manifest
  <2>5. StatsLooked'
    BY <2>1 DEF GuiInv, StatsLooked, StatsOf, Drawing
  <2> QED
    BY <2>2, <2>3, <2>4, <2>5 DEF GuiInv
<1>2. ASSUME NEW r \in DOMAIN procs,
             \/ \E s \in Streams : PrintLine(r, s) \/ Forward(r, s)
             \/ WriteManifest(r)
             \/ Exit(r)
      PROVE  GuiInv'
  BY <1>2, PrintStep, ForwardStep, WriteStep, ExitStep
<1>3. CASE PollAll
  BY <1>3, PollStep
<1>4. CASE \/ NoClick
           \/ \E t \in {Tab[l] : l \in Lanes} : ChooseTab(t)
           \/ \E r \in Roots \cup {"none"} : ChooseRoot(r)
  BY <1>4, PanelStep
<1>5. CASE Refresh
  BY <1>5, RefreshStep
<1>6. ASSUME NEW l \in Lanes,
             \/ \E j \in Jobs[l] : Run(l, j) \/ RunFails(l, j) \/ RunRefused(l, j)
             \/ Stop(l)
             \/ Clear(l)
      PROVE  GuiInv'
  BY <1>6, RunStep, RunFailsStep, RunRefusedStep, StopStep, ClearStep
<1>7. CASE CloseWindow \/ OutOfMemory \/ LoopExiting
  BY <1>7, CloseStep
<1> QED
  BY <1>1, <1>2, <1>3, <1>4, <1>5, <1>6, <1>7 DEF GuiNext

\* The invariant says all that the property asks.
LEMMA GuiTold ==
  ASSUME GuiInv
  PROVE  LanesTrue
<1>1. /\ GuiShape(gui) /\ procs \in Seq(ProcType) /\ DOMAIN procs = 1 .. Len(procs)
      /\ \A r \in DOMAIN procs : procs[r] \in ProcType /\ ProcOK(r, procs[r])
      /\ \A k \in Lanes : LaneOK(k, gui.lanes[k], procs, whole[k])
      /\ Watched(procs, gui.lanes, refusals, unnoticed) /\ StatsLooked /\ ManifestTold /\ Gone
  BY LanesAre
<1>2. GuiTypeOK
  <2>1. gui.root \in Roots \cup {"none"} /\ gui.tab \in {Tab[l] : l \in Lanes}
    BY <1>1 DEF GuiShape, Tabs
  <2>2. \A l \in Lanes : /\ gui.lanes[l].child \in {0, gui.lanes[l].channel}
                         /\ gui.lanes[l].channel \in 0 .. Len(procs)
                         /\ Len(gui.lanes[l].logs) <= LogMax
    BY <1>1 DEF LaneOK
  <2>3. \A r \in DOMAIN procs : procs[r].lane \in Lanes /\ procs[r].job \in Jobs[procs[r].lane]
    BY <1>1 DEF ProcOK, ProcType
  <2>4. /\ \A root \in Roots : manifests[root] \in 0 .. Len(procs)
        /\ phase \in {"events", "closing", "leaving", "gone"} \cup Drawing
    BY DEF GuiInv, LanesHold, Drawing
  <2> QED
    BY <2>1, <2>2, <2>3, <2>4 DEF GuiTypeOK
<1>3. EachLane
  <2> SUFFICES ASSUME NEW l \in Lanes PROVE LogTrue(l)
    BY DEF EachLane
  <2> DEFINE r == gui.lanes[l].channel
  <2>1. LaneOK(l, gui.lanes[l], procs, whole[l])
    BY <1>1
  <2>2. ASSUME r # 0, NEW s \in Streams
        PROVE  /\ EndOf(Seen(l, r, s), r, s, Prints[procs[r].job][s], Printed(r, s))
               /\ whole[l] => AllOf(Seen(l, r, s), r, s, Printed(r, s))
    <3>1. StreamOK(gui.lanes[l], procs[r], r, s, whole[l])
      BY <2>1, <2>2 DEF LaneOK
    <3>2. /\ Seen(l, r, s) = SeenOf(gui.lanes[l], procs[r], s)
          /\ Texts(procs[r], s) = Prints[procs[r].job][s] /\ Told(procs[r], s) = Printed(r, s)
      BY DEF Seen, SeenOf, Texts, Told, Printed
    <3> QED
      BY <3>1, <3>2 DEF StreamOK
  <2> QED
    BY <2>1, <2>2 DEF LogTrue, LaneOK
<1>4. NothingLeft
  <2> SUFFICES ASSUME phase = "gone"
               PROVE  Children = {} /\ (refusals = 0 => \A r \in DOMAIN procs : procs[r].ended)
    BY DEF NothingLeft
  <2>1. \A l \in Lanes : gui.lanes[l].child = 0
    BY <1>1 DEF Gone
  <2>2. Children = {}
    BY <2>1 DEF Children
  <2>3. ASSUME refusals = 0, NEW r \in DOMAIN procs, ~procs[r].ended PROVE FALSE
    <3>1. procs[r].lane \in Lanes /\ r # 0
      BY <1>1 DEF ProcType
    <3> QED
      BY <1>1, <2>1, <2>3, <3>1 DEF Watched
  <2>4. \A r \in DOMAIN procs : procs[r].ended \in BOOLEAN
    BY <1>1 DEF ProcType
  <2> QED
    BY <2>2, <2>3, <2>4
<1>5. StatsTold
  <2>1. ASSUME phase \in Drawing, ~shrunk
        PROVE  gui.stats.lines = Extract(gui.lanes["pallet"].logs)
    BY <1>1, <2>1 DEF StatsLooked, StatsOf
  <2> QED
    BY <2>1 DEF StatsTold
<1> QED
  BY <1>1, <1>2, <1>3, <1>4, <1>5 DEF LanesTrue

\* What the runner's lanes, its manifest and its statistics show is true.
THEOREM LanesAreTrue == GuiSpec => []LanesTrue
<1>1. GuiInit => GuiInv
  BY GuiStarts
<1>2. GuiInv /\ [GuiNext]_gvars => GuiInv'
  BY GuiSteps
<1>3. GuiInv => LanesTrue
  BY GuiTold
<1> QED
  BY <1>1, <1>2, <1>3, PTL DEF GuiSpec
================================================================================
