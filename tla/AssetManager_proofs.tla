------------------------ MODULE AssetManager_proofs ------------------------
(***************************************************************************)
(* What the asset manager guarantees for every set of keys, size of the    *)
(* queues, number of workers and budget, and for any number of edits,      *)
(* reloads, purges, panics and cancellations: loads of a slot coalesce,    *)
(* the cache shows what was asked for last or the last good version, and   *)
(* a cancelled load is not published.                                      *)
(*                                                                         *)
(* The argument goes in layers, each an invariant that uses the ones       *)
(* before it: the shapes of slots and jobs (TypeInv), the identity of jobs *)
(* (UniqueIds), the flags of slots against their requests and jobs         *)
(* (Orderly), the versions that loads bring (CacheInv) and the jobs that a *)
(* cancellation must stop (CancelInv).                                     *)
(***************************************************************************)
EXTENDS AssetManager, FiniteSetTheorems, SequenceTheorems, TLAPS

-----------------------------------------------------------------------------
(* The shapes of slots, requests and jobs.                                 *)

SlotType ==
  [key : Key, status : {"Queued", "Loading", "Ready", "Failed"}, val : Nat \cup {None},
   ver : Nat, err : BOOLEAN, pending : BOOLEAN, inFlight : BOOLEAN, retain : BOOLEAN,
   cancelled : BOOLEAN, job : Nat \cup {None}]
OptsType == [prio : Priority, tag : {"boot", "streaming", "background"}]
RequestType == [slot : Nat, opts : OptsType]
File == [ver : Nat, kind : FileKinds]
ReadJob == [id : Nat, for : {"read"}, slot : Nat, data : {None}]
ReadDone == [id : Nat, for : {"read"}, slot : Nat, data : File]
DecodeJob == [id : Nat, for : {"decode"}, slot : Nat, data : File]
CommandJob == [id : Nat, for : {"reload", "watch", "purge"}, key : Key]

\* Where a job can be, and the jobs that are there.
Place == {"ioWaiting", "ioRunning", "cpuWaiting", "cpuRunning", "done"}
held == [x \in Place |->
  CASE x = "ioWaiting"  -> Range(waiting["io"])
    [] x = "ioRunning"  -> running["io"]
    [] x = "cpuWaiting" -> Range(waiting["cpu"])
    [] x = "cpuRunning" -> running["cpu"]
    [] x = "done"       -> Range(channel)]

\* The jobs of slots: those in the places, and where they are.
LoadIn(x) == {j \in held[x] : j.for \in Load}
Loads == UNION {LoadIn(x) : x \in Place}

DrainOK ==
  /\ at \in {"idle", "pump", "drain"}
  /\ draining \in [prio : Priority, left : Nat]
  /\ draining.left <= Len(pend[draining.prio])

QueuesOK ==
  /\ waiting \in [Queue -> Seq(ReadJob \cup CommandJob \cup DecodeJob)]
  /\ waiting["io"] \in Seq(ReadJob \cup CommandJob)
  /\ waiting["cpu"] \in Seq(DecodeJob)
  /\ running \in [Queue -> SUBSET (ReadJob \cup CommandJob \cup DecodeJob)]
  /\ running["io"] \subseteq ReadJob \cup CommandJob
  /\ running["cpu"] \subseteq DecodeJob
  /\ channel \in Seq(ReadDone \cup DecodeJob)
  /\ \A q \in Queue : /\ Len(waiting[q]) <= Capacity
                      /\ IsFiniteSet(running[q]) /\ Cardinality(running[q]) <= Workers[q]

IdsOK == nextJob \in Nat /\ \A x \in Place : \A j \in held[x] : j.id < nextJob

LinksOK ==
  /\ stopped \subseteq 0 .. nextJob - 1
  /\ \A j \in Loads : j.slot \in Slots
  /\ \A s \in Slots : slot[s].job # None => slot[s].job < nextJob

FilesOK ==
  /\ edits \in 0 .. MaxEdits
  /\ disk \in [Key -> File] /\ wanted \in [Key -> Nat]
  /\ \A k \in Key : wanted[k] <= disk[k].ver /\ disk[k].ver <= edits

CacheOK ==
  /\ slot \in Seq(SlotType)
  /\ pend \in [Priority -> Seq(RequestType)]
  /\ \A p \in Priority : \A r \in Range(pend[p]) : r.slot \in Slots
  /\ entries \in [Key -> Nat \cup {None}]
  /\ \A k \in Key : entries[k] # None => entries[k] \in Slots /\ slot[entries[k]].key = k
  /\ tooLate \subseteq Slots

CountsOK == spent \in 0 .. Budget /\ {commands, reloads, cancels, panics} \subseteq Nat

TypeInv == CacheOK /\ CountsOK /\ FilesOK /\ QueuesOK /\ IdsOK /\ LinksOK /\ DrainOK

\* No two jobs share an id, and none is in two places.
Unique(H) ==
  \A x, y \in Place : \A a \in H[x], b \in H[y] : a.id = b.id => x = y /\ a = b
EachOnce(s) == \A i, j \in DOMAIN s : s[i].id = s[j].id => i = j
UniqueIds ==
  /\ Unique(held)
  /\ EachOnce(waiting["io"]) /\ EachOnce(waiting["cpu"]) /\ EachOnce(channel)

\* As long as nobody cancels: no slot is queued twice, and its flags say whether
\* it is queued and which job loads it.
SlotOnce(s) == \A i, j \in DOMAIN s : s[i].slot = s[j].slot => i = j
PendOnce ==
  /\ \A p \in Priority : SlotOnce(pend[p])
  /\ \A p, q \in Priority : \A r \in Range(pend[p]), t \in Range(pend[q]) : r.slot = t.slot => p = q
InPend(s) == \E p \in Priority : \E r \in Range(pend[p]) : r.slot = s
OwnIds(s) == {j.id : j \in {i \in Loads : i.slot = s}}
SlotFlags(s) ==
  /\ ~slot[s].cancelled
  /\ slot[s].pending <=> InPend(s)
  /\ ~(slot[s].pending /\ slot[s].inFlight)
  /\ \A id \in OwnIds(s) : slot[s].inFlight /\ slot[s].job = id
  /\ slot[s].inFlight /\ panics = 0 => OwnIds(s) # {}
Orderly == cancels = 0 => stopped = {} /\ PendOnce /\ \A s \in Slots : SlotFlags(s)

\* As long as nobody cancels: what a load brings is no older than what the
\* cached slot of its key was last asked for, what is there is retained while a
\* load is under way, and what the settled entry of a key shows is good.
LoadFresh(j) ==
  j.data # None /\ entries[slot[j.slot].key] = j.slot => j.data.ver >= wanted[slot[j.slot].key]
SlotGood(s) ==
  slot[s].val # None =>
    IF Busy(slot[s]) THEN slot[s].retain
    ELSE \A k \in Key : entries[k] = s =>
           /\ slot[s].status = "Ready"
           /\ ~slot[s].err => slot[s].val >= wanted[k]
CacheInv ==
  cancels = 0 => (\A j \in Loads : LoadFresh(j)) /\ \A s \in Slots : SlotGood(s)

\* Whether a cancellation must stop this job of the slot.
Cancels(j) ==
  slot[j.slot].cancelled /\ (cancels <= 1 \/ j.id = slot[j.slot].job)
Stops(j) ==
  j.for = "decode" /\ Cancels(j) =>
    IF j \in LoadIn("done") THEN j.slot \in tooLate ELSE j.id \in stopped
CancelInv == \A j \in Loads : Stops(j)

-----------------------------------------------------------------------------
(* Sequences as queues.                                                    *)

LEMMA QueueAppend ==
  ASSUME NEW T, NEW s \in Seq(T), NEW x \in T
  PROVE  /\ Append(s, x) \in Seq(T) /\ Len(Append(s, x)) = Len(s) + 1
         /\ Append(s, x) = s \o <<x>>
         /\ DOMAIN Append(s, x) = 1 .. Len(s) + 1 /\ Len(s) \in Nat /\ DOMAIN s = 1 .. Len(s)
         /\ \A i \in 1 .. Len(s) : Append(s, x)[i] = s[i]
         /\ Append(s, x)[Len(s) + 1] = x
  <1> DEFINE a == Append(s, x)
  <1>1. /\ a \in Seq(T) /\ Len(a) = Len(s) + 1 /\ a[Len(s) + 1] = x
        /\ \A i \in 1 .. Len(s) : a[i] = s[i]
    BY AppendProperties
  <1>2. Len(s) \in Nat /\ DOMAIN s = 1 .. Len(s) /\ DOMAIN a = 1 .. Len(s) + 1
    BY <1>1, LenProperties
  <1>3. a = s \o <<x>>
    BY AppendIsConcat
  <1> QED  BY <1>1, <1>2, <1>3

LEMMA AppendRange ==
  ASSUME NEW T, NEW s \in Seq(T), NEW x \in T
  PROVE  Range(Append(s, x)) = Range(s) \cup {x}
  <1> DEFINE a == Append(s, x)
  <1>1. /\ a[Len(s) + 1] = x /\ DOMAIN a = 1 .. Len(s) + 1 /\ Len(s) \in Nat
        /\ DOMAIN s = 1 .. Len(s) /\ \A i \in 1 .. Len(s) : a[i] = s[i]
    BY QueueAppend
  <1> HIDE DEF a
  <1>2. \A i \in 1 .. Len(s) + 1 : i \in 1 .. Len(s) \/ i = Len(s) + 1
    BY <1>1
  <1>3. Len(s) + 1 \in 1 .. Len(s) + 1 /\ \A i \in 1 .. Len(s) : i \in 1 .. Len(s) + 1
    BY <1>1
  <1>4. Range(a) \subseteq Range(s) \cup {x}
    BY <1>1, <1>2 DEF Range
  <1>5. Range(s) \cup {x} \subseteq Range(a)
    BY <1>1, <1>3 DEF Range
  <1>6. Range(a) = Range(s) \cup {x}
    BY <1>4, <1>5
  <1> QED  BY <1>6 DEF a

LEMMA QueueTail ==
  ASSUME NEW T, NEW s \in Seq(T), s # <<>>
  PROVE  /\ Head(s) \in T /\ Tail(s) \in Seq(T) /\ Len(Tail(s)) = Len(s) - 1
         /\ Len(s) \in Nat \ {0} /\ DOMAIN s = 1 .. Len(s)
         /\ DOMAIN Tail(s) = 1 .. Len(s) - 1
         /\ Head(s) = s[1]
         /\ \A i \in 1 .. Len(s) - 1 : Tail(s)[i] = s[i + 1]
         /\ Range(s) = Range(Tail(s)) \cup {Head(s)}
  <1> DEFINE t == Tail(s)
             h == Head(s)
  <1>1. /\ h \in T /\ t \in Seq(T) /\ Len(t) = Len(s) - 1
        /\ \A i \in 1 .. Len(t) : t[i] = s[i + 1]
    BY HeadTailProperties
  <1>2. Len(s) \in Nat \ {0} /\ DOMAIN s = 1 .. Len(s) /\ DOMAIN t = 1 .. Len(s) - 1
    BY <1>1, LenProperties, EmptySeq
  <1>3. h = s[1]
    BY <1>2
  <1>4. Range(s) = Range(t) \cup {h}
    <2> HIDE DEF t, h
    <2>1. \A i \in 1 .. Len(s) : i = 1 \/ (i - 1 \in 1 .. Len(s) - 1 /\ i = (i - 1) + 1)
      BY <1>2
    <2>2. 1 \in 1 .. Len(s) /\ \A i \in 1 .. Len(s) - 1 : i + 1 \in 1 .. Len(s)
      BY <1>2
    <2>3. Range(s) \subseteq Range(t) \cup {h}
      <3> SUFFICES ASSUME NEW i \in 1 .. Len(s)
                   PROVE  s[i] \in Range(t) \cup {h}
        BY <1>2 DEF Range
      <3>1. CASE i = 1
        BY <1>3, <3>1
      <3>2. CASE i - 1 \in 1 .. Len(s) - 1 /\ i = (i - 1) + 1
        <4>1. t[i - 1] = s[i]
          BY <1>1, <3>2
        <4> QED  BY <1>2, <3>2, <4>1 DEF Range
      <3> QED  BY <2>1, <3>1, <3>2
    <2>4. Range(t) \cup {h} \subseteq Range(s)
      BY <1>1, <1>2, <1>3, <2>2 DEF Range
    <2> QED  BY <2>3, <2>4
  <1> QED  BY <1>1, <1>2, <1>3, <1>4

LEMMA EmptyQueue == Range(<<>>) = {} /\ Len(<<>>) = 0
  BY DEF Range

\* A queue of jobs whose ids differ, as jobs come and go.
LEMMA OnceAppend ==
  ASSUME NEW T, NEW s \in Seq(T), NEW x \in T, EachOnce(s), \A j \in Range(s) : j.id # x.id
  PROVE  EachOnce(Append(s, x))
  <1> DEFINE a == Append(s, x)
  <1>1. /\ DOMAIN a = 1 .. Len(s) + 1 /\ Len(s) \in Nat /\ DOMAIN s = 1 .. Len(s)
        /\ \A i \in 1 .. Len(s) : a[i] = s[i]
        /\ a[Len(s) + 1] = x
    BY QueueAppend
  <1> HIDE DEF a
  <1>2. \A i \in 1 .. Len(s) : s[i] \in Range(s)
    BY <1>1 DEF Range
  <1>3. \A i \in DOMAIN a : i \in 1 .. Len(s) \/ i = Len(s) + 1
    BY <1>1
  <1>4. EachOnce(a)
    <2> SUFFICES ASSUME NEW i \in DOMAIN a, NEW j \in DOMAIN a, a[i].id = a[j].id
                 PROVE  i = j
      BY DEF EachOnce
    <2>1. CASE i \in 1 .. Len(s) /\ j \in 1 .. Len(s)
      BY <1>1, <2>1 DEF EachOnce
    <2>2. CASE i \in 1 .. Len(s) /\ j = Len(s) + 1
      BY <1>1, <1>2, <2>2
    <2>3. CASE i = Len(s) + 1 /\ j \in 1 .. Len(s)
      BY <1>1, <1>2, <2>3
    <2> QED  BY <1>3, <2>1, <2>2, <2>3
  <1> QED  BY <1>4 DEF a

LEMMA OnceTail ==
  ASSUME NEW T, NEW s \in Seq(T), s # <<>>, EachOnce(s)
  PROVE  EachOnce(Tail(s)) /\ \A j \in Range(Tail(s)) : j.id # Head(s).id
  <1> DEFINE t == Tail(s)
             h == Head(s)
  <1>1. /\ Len(s) \in Nat \ {0} /\ DOMAIN s = 1 .. Len(s) /\ DOMAIN t = 1 .. Len(s) - 1
        /\ h = s[1]
        /\ \A i \in 1 .. Len(s) - 1 : t[i] = s[i + 1]
    BY QueueTail
  <1> HIDE DEF t, h
  <1>2. EachOnce(t)
    <2> SUFFICES ASSUME NEW i \in 1 .. Len(s) - 1, NEW j \in 1 .. Len(s) - 1, t[i].id = t[j].id
                 PROVE  i = j
      BY <1>1 DEF EachOnce
    <2>1. i + 1 \in DOMAIN s /\ j + 1 \in DOMAIN s /\ s[i + 1].id = s[j + 1].id
      BY <1>1
    <2>2. i + 1 = j + 1
      BY <2>1 DEF EachOnce
    <2> QED  BY <1>1, <2>2
  <1>3. \A j \in Range(t) : j.id # h.id
    <2> SUFFICES ASSUME NEW i \in 1 .. Len(s) - 1, t[i].id = h.id
                 PROVE  FALSE
      BY <1>1 DEF Range
    <2>1. i + 1 \in DOMAIN s /\ 1 \in DOMAIN s /\ s[i + 1].id = s[1].id
      BY <1>1
    <2>2. i + 1 = 1
      BY <2>1 DEF EachOnce
    <2> QED  BY <1>1, <2>2
  <1> QED  BY <1>2, <1>3 DEF t, h

-----------------------------------------------------------------------------
(* The operations on a slot.                                               *)

LEMMA ConstantFacts ==
  /\ {MaxSlots, MaxEdits, MaxCommands, MaxReloads, MaxCancels, MaxPanics} \subseteq Nat
  /\ Budget \in Nat /\ Cost \in Nat /\ Capacity \in Nat \ {0}
  /\ \A q \in Queue : Workers[q] \in Nat \ {0}
  /\ Opts \subseteq OptsType
  /\ None \notin Nat /\ None \notin File
  BY AssetAssumption DEF OptsType, File

LEMMA PriorityFacts ==
  /\ 1 \in Priority /\ Priority \subseteq Nat
  /\ Max(Priority) \in Priority
  /\ \A p \in Priority : p # Max(Priority) => p + 1 \in Priority
  <1> DEFINE n == Cardinality(Priority)
  <1>1. n \in Nat /\ Priority = 1 .. n /\ Priority # {}
    BY AssetAssumption, FS_CardinalityType
  <1> HIDE DEF n
  <1>2. n \in Priority /\ \A y \in Priority : n >= y
    BY <1>1
  <1>3. Max(Priority) \in Priority /\ \A y \in Priority : Max(Priority) >= y
    BY <1>2 DEF Max
  <1>4. Max(Priority) = n
    BY <1>1, <1>2, <1>3
  <1> QED  BY <1>1, <1>3, <1>4

LEMMA SlotOps ==
  ASSUME NEW s \in SlotType
  PROVE  /\ Loading(s) \in SlotType /\ Requeued(s) \in SlotType /\ Failed(s) \in SlotType
         /\ CancelledSlot(s) \in SlotType /\ Purged(s) \in SlotType /\ Reloading(s) \in SlotType
         /\ \A v \in Nat : Finished(s, v) \in SlotType /\ WithJob(s, v) \in SlotType
  <1>1. /\ s.ver \in Nat /\ s.ver + 1 \in Nat /\ Retains(s) \in BOOLEAN
        /\ TRUE \in BOOLEAN /\ FALSE \in BOOLEAN /\ None \in Nat \cup {None}
        /\ s.status \in {"Queued", "Loading", "Ready", "Failed"}
    BY DEF SlotType, Retains
  <1>2. Loading(s) \in SlotType
    BY <1>1, Zenon DEF Loading, SlotType
  <1>3. Requeued(s) \in SlotType
    BY <1>1, Zenon DEF Requeued, SlotType
  <1>4. \A x \in SlotType : Failed(x) \in SlotType
    BY <1>1, Zenon DEF Failed, SlotType
  <1>5. Flagged(s) \in SlotType
    BY <1>1, Zenon DEF Flagged, SlotType
  <1>6. CancelledSlot(s) \in SlotType
    BY <1>4, <1>5 DEF CancelledSlot
  <1>7. Purged(s) \in SlotType
    BY <1>1, Zenon DEF Purged, SlotType
  <1>8. Reloading(s) \in SlotType
    BY <1>1, Zenon DEF Reloading, SlotType
  <1>9. \A v \in Nat : WithJob(s, v) \in SlotType
    BY <1>1, Zenon DEF WithJob, SlotType
  <1>10. ASSUME NEW v \in Nat PROVE Finished(s, v) \in SlotType
    <2>1. [s EXCEPT !.val = v, !.ver = s.ver + 1, !.err = FALSE, !.status = "Ready",
                    !.inFlight = FALSE, !.pending = FALSE, !.retain = FALSE] \in SlotType
      BY <1>1, Zenon DEF SlotType
    <2> QED  BY <2>1 DEF Finished
  <1> QED  BY <1>2, <1>3, <1>4, <1>6, <1>7, <1>8, <1>9, <1>10

\* Replacing one slot leaves the others alone.
LEMMA SetSlot ==
  ASSUME NEW S \in Seq(SlotType), NEW s \in DOMAIN S, NEW v \in SlotType
  PROVE  /\ [S EXCEPT ![s] = v] \in Seq(SlotType)
         /\ DOMAIN [S EXCEPT ![s] = v] = DOMAIN S
         /\ \A t \in DOMAIN S : [S EXCEPT ![s] = v][t] = IF t = s THEN v ELSE S[t]
         /\ S[s] \in SlotType
  <1> DEFINE N == [S EXCEPT ![s] = v]
  <1>1. DOMAIN S = 1 .. Len(S) /\ Len(S) \in Nat
    BY LenProperties
  <1>2. /\ N \in Seq(SlotType) /\ Len(N) = Len(S)
        /\ \A t \in 1 .. Len(S) : N[t] = IF t = s THEN v ELSE S[t]
    BY <1>1, ExceptSeq
  <1>3. DOMAIN N = 1 .. Len(S)
    BY <1>2, LenProperties
  <1>4. S[s] \in SlotType
    BY <1>1, ElementOfSeq
  <1> QED  BY <1>1, <1>2, <1>3, <1>4

-----------------------------------------------------------------------------
(* Where jobs are, and how they come and go.                               *)

\* Jobs leave, and some come to a place.
JobStep(gone, y, new) ==
  \A z \in Place : held'[z] = (held[z] \ gone) \cup (IF z = y THEN new ELSE {})
SameJobs == UNCHANGED <<waiting, running, channel, nextJob>>

QueueOf(q) == IF q = "io" THEN "ioWaiting" ELSE "cpuWaiting"
HandsOf(q) == IF q = "io" THEN "ioRunning" ELSE "cpuRunning"

LEMMA HeldIs ==
  /\ held["ioWaiting"] = Range(waiting["io"]) /\ held["cpuWaiting"] = Range(waiting["cpu"])
  /\ held["ioRunning"] = running["io"] /\ held["cpuRunning"] = running["cpu"]
  /\ held["done"] = Range(channel)
  /\ held'["ioWaiting"] = Range(waiting'["io"]) /\ held'["cpuWaiting"] = Range(waiting'["cpu"])
  /\ held'["ioRunning"] = running'["io"] /\ held'["cpuRunning"] = running'["cpu"]
  /\ held'["done"] = Range(channel')
  /\ \A q \in Queue : /\ held[QueueOf(q)] = Range(waiting[q]) /\ held[HandsOf(q)] = running[q]
                      /\ QueueOf(q) \in Place /\ HandsOf(q) \in Place
  /\ Place = {"ioWaiting", "ioRunning", "cpuWaiting", "cpuRunning", "done"}
  BY DEF held, Place, Queue, QueueOf, HandsOf

\* Jobs keep apart when some leave and one comes whose id none of the others has.
LEMMA UniqueStep ==
  ASSUME Unique(held), NEW b, NEW gone, NEW y \in Place, NEW new, new \subseteq {b},
         JobStep(gone, y, new),
         \A z \in Place : \A c \in held[z] \ gone : c.id # b.id
  PROVE  Unique(held')
  <1> DEFINE H == held
             G == held'
  <1>1. /\ \A z \in Place : G[z] = (H[z] \ gone) \cup (IF z = y THEN new ELSE {})
        /\ \A z \in Place : \A c \in H[z] \ gone : c.id # b.id
        /\ Unique(H)
    BY DEF JobStep
  <1> HIDE DEF H, G
  <1>2. Unique(G)
    <2> SUFFICES ASSUME NEW p \in Place, NEW q \in Place, NEW c \in G[p], NEW d \in G[q],
                        c.id = d.id
                 PROVE  p = q /\ c = d
      BY DEF Unique
    <2>1. /\ (c \in H[p] \ gone) \/ (p = y /\ c = b)
          /\ (d \in H[q] \ gone) \/ (q = y /\ d = b)
      BY <1>1
    <2> QED  BY <1>1, <2>1 DEF Unique
  <1> QED  BY <1>2 DEF G

\* What holds of each job in its place.
LEMMA JobTypes ==
  ASSUME QueuesOK
  PROVE  /\ held["ioWaiting"] \subseteq ReadJob \cup CommandJob
         /\ held["ioRunning"] \subseteq ReadJob \cup CommandJob
         /\ held["cpuWaiting"] \subseteq DecodeJob /\ held["cpuRunning"] \subseteq DecodeJob
         /\ held["done"] \subseteq ReadDone \cup DecodeJob
         /\ \A z \in Place : \A c \in held[z] : c.id \in Nat
  <1>1. /\ Range(waiting["io"]) \subseteq ReadJob \cup CommandJob
        /\ Range(waiting["cpu"]) \subseteq DecodeJob
        /\ Range(channel) \subseteq ReadDone \cup DecodeJob
    BY RangeOfSeq DEF QueuesOK
  <1>2. /\ held["ioWaiting"] \subseteq ReadJob \cup CommandJob
        /\ held["ioRunning"] \subseteq ReadJob \cup CommandJob
        /\ held["cpuWaiting"] \subseteq DecodeJob /\ held["cpuRunning"] \subseteq DecodeJob
        /\ held["done"] \subseteq ReadDone \cup DecodeJob
    BY <1>1, HeldIs DEF QueuesOK
  <1>3. \A c \in ReadJob \cup CommandJob \cup DecodeJob \cup ReadDone : c.id \in Nat
    BY DEF ReadJob, CommandJob, DecodeJob, ReadDone
  <1> QED  BY <1>2, <1>3, HeldIs

\* The jobs of slots.
LEMMA LoadTypes ==
  ASSUME QueuesOK
  PROVE  /\ LoadIn("ioWaiting") \subseteq ReadJob /\ LoadIn("ioRunning") \subseteq ReadJob
         /\ LoadIn("cpuWaiting") \subseteq DecodeJob /\ LoadIn("cpuRunning") \subseteq DecodeJob
         /\ LoadIn("done") \subseteq ReadDone \cup DecodeJob
         /\ Loads = LoadIn("ioWaiting") \cup LoadIn("ioRunning") \cup LoadIn("cpuWaiting")
                      \cup LoadIn("cpuRunning") \cup LoadIn("done")
         /\ \A z \in Place : LoadIn(z) \subseteq Loads
  <1>1. \A c \in CommandJob : c.for \notin Load
    BY DEF CommandJob, Load
  <1>2. Loads = LoadIn("ioWaiting") \cup LoadIn("ioRunning") \cup LoadIn("cpuWaiting")
                  \cup LoadIn("cpuRunning") \cup LoadIn("done")
    BY DEF Loads, Place
  <1> QED  BY <1>1, <1>2, JobTypes DEF LoadIn, Loads

\* No job has the next id.
LEMMA NextIdIsNew ==
  ASSUME QueuesOK, IdsOK
  PROVE  \A z \in Place : \A c \in held[z] : c.id # nextJob
  BY JobTypes DEF IdsOK

\* A new job is put on the queue of Io jobs.
LEMMA PutStep ==
  ASSUME QueuesOK, IdsOK, UniqueIds, HasRoom("io"),
         NEW job \in ReadJob \cup CommandJob, job.id = nextJob, Put("io", job)
  PROVE  QueuesOK' /\ UniqueIds' /\ JobStep({}, "ioWaiting", {job}) /\ nextJob' = nextJob + 1
  <1> DEFINE U == ReadJob \cup CommandJob \cup DecodeJob
             T == ReadJob \cup CommandJob
             w == waiting["io"]
  <1>1. /\ w \in Seq(ReadJob \cup CommandJob) /\ w \in Seq(U) /\ waiting["cpu"] \in Seq(U)
        /\ waiting \in [Queue -> Seq(U)] /\ job \in U /\ "io" \in Queue /\ "cpu" \in Queue
        /\ Len(w) < Capacity /\ Len(w) \in Nat
    BY LenProperties DEF QueuesOK, Queue, HasRoom
  <1>2. /\ Append(w, job) \in Seq(ReadJob \cup CommandJob) /\ Append(w, job) \in Seq(U)
        /\ Len(Append(w, job)) = Len(w) + 1
        /\ Range(Append(w, job)) = Range(w) \cup {job}
    <2> HIDE DEF w, U, T
    <2>1. w \in Seq(T) /\ w \in Seq(U) /\ job \in T /\ job \in U
      BY <1>1 DEF T
    <2>2. Append(w, job) \in Seq(T) /\ Len(Append(w, job)) = Len(w) + 1
      BY <2>1, QueueAppend
    <2>4. Range(Append(w, job)) = Range(w) \cup {job}
      BY <2>1, AppendRange
    <2>3. Append(w, job) \in Seq(U)
      BY <2>1, QueueAppend
    <2> QED  BY <2>2, <2>3, <2>4 DEF T
  <1>3. /\ waiting' = [waiting EXCEPT !["io"] = Append(w, job)]
        /\ UNCHANGED <<running, channel, stopped>> /\ nextJob' = nextJob + 1
    BY DEF Put
  <1>4. waiting'["io"] = Append(w, job) /\ waiting'["cpu"] = waiting["cpu"]
    BY <1>1, <1>3 DEF Queue
  <1>5. QueuesOK'
    <2>1. waiting' \in [Queue -> Seq(U)]
      BY <1>1, <1>2, <1>3
    <2>2. \A q \in Queue : Len(waiting'[q]) <= Capacity
      <3>1. Len(waiting["cpu"]) <= Capacity
        BY DEF QueuesOK, Queue
      <3> QED  BY <1>1, <1>2, <1>4, <3>1, ConstantFacts DEF Queue
    <2> QED  BY <1>2, <1>3, <1>4, <2>1, <2>2 DEF QueuesOK
  <1>6. JobStep({}, "ioWaiting", {job})
    BY <1>2, <1>3, <1>4, HeldIs DEF JobStep
  <1>7. UniqueIds'
    <2>1. Unique(held')
      <3>1. \A z \in Place : \A c \in held[z] \ {} : c.id # job.id
        BY NextIdIsNew
      <3>2. Unique(held) /\ "ioWaiting" \in Place
        BY HeldIs DEF UniqueIds
      <3> QED  BY <1>6, <3>1, <3>2, UniqueStep
    <2>2. EachOnce(Append(w, job))
      <3>1. \A j \in Range(w) : j.id # job.id
        BY NextIdIsNew, HeldIs
      <3> QED  BY <1>1, <3>1, OnceAppend DEF UniqueIds
    <2> QED  BY <1>3, <1>4, <2>1, <2>2 DEF UniqueIds
  <1> QED  BY <1>3, <1>5, <1>6, <1>7

\* A worker takes a job off a queue.
LEMMA TakeStep ==
  ASSUME QueuesOK, IdsOK, UniqueIds, NEW q \in Queue, Take(q)
  PROVE  /\ QueuesOK' /\ UniqueIds' /\ nextJob' = nextJob /\ stopped' = stopped
         /\ \E h \in held[QueueOf(q)] :
              JobStep({h}, HandsOf(q), IF h.id \in stopped THEN {} ELSE {h})
  <1> DEFINE U == ReadJob \cup CommandJob \cup DecodeJob
             T == IF q = "io" THEN ReadJob \cup CommandJob ELSE DecodeJob
             w == waiting[q]
             h == Head(w)
             new == IF h.id \in stopped THEN {} ELSE {h}
  <1>1. /\ w \in Seq(T) /\ w \in Seq(U) /\ w # <<>> /\ T \subseteq U
        /\ waiting \in [Queue -> Seq(U)] /\ running \in [Queue -> SUBSET U]
        /\ running[q] \subseteq T /\ Queue = {"io", "cpu"}
        /\ IsFiniteSet(running[q]) /\ Cardinality(running[q]) < Workers[q]
    BY DEF QueuesOK, Queue, Take
  <1>2. /\ h \in T /\ Tail(w) \in Seq(T) /\ Tail(w) \in Seq(U) /\ Len(Tail(w)) = Len(w) - 1
        /\ Len(w) \in Nat /\ Range(w) = Range(Tail(w)) \cup {h}
    BY <1>1, QueueTail
  <1>3. EachOnce(Tail(w)) /\ \A j \in Range(Tail(w)) : j.id # h.id
    <2>1. EachOnce(w)
      BY DEF UniqueIds, Queue
    <2> QED  BY <1>1, <2>1, OnceTail
  <1>4. /\ waiting' = [waiting EXCEPT ![q] = Tail(w)]
        /\ running' = [running EXCEPT ![q] = running[q] \cup new]
        /\ UNCHANGED <<channel, stopped, nextJob>>
    BY DEF Take
  <1> HIDE DEF w, h
  <1>5. /\ waiting'[q] = Tail(w) /\ running'[q] = running[q] \cup new
        /\ \A r \in Queue : r # q => waiting'[r] = waiting[r] /\ running'[r] = running[r]
        /\ new \subseteq {h}
    BY <1>1, <1>4
  <1>6. QueuesOK'
    <2>1. waiting' \in [Queue -> Seq(U)]
      BY <1>1, <1>2, <1>4
    <2>2. running' \in [Queue -> SUBSET U]
      BY <1>1, <1>2, <1>4, <1>5
    <2>3. /\ waiting'["io"] \in Seq(ReadJob \cup CommandJob) /\ waiting'["cpu"] \in Seq(DecodeJob)
          /\ running'["io"] \subseteq ReadJob \cup CommandJob /\ running'["cpu"] \subseteq DecodeJob
      BY <1>1, <1>2, <1>5 DEF QueuesOK
    <2>4. IsFiniteSet(running[q] \cup new) /\ Cardinality(running[q] \cup new) <= Workers[q]
      <3>0. Cardinality(running[q]) \in Nat /\ Workers[q] \in Nat
        BY <1>1, FS_CardinalityType, ConstantFacts
      <3>1. /\ IsFiniteSet(running[q] \cup {h})
            /\ Cardinality(running[q] \cup {h})
                 \in {Cardinality(running[q]), Cardinality(running[q]) + 1}
        BY <1>1, FS_AddElement
      <3>3. running[q] \cup new \in {running[q], running[q] \cup {h}}
        BY <1>5
      <3>4. Cardinality(running[q]) + 1 <= Workers[q] /\ Cardinality(running[q]) <= Workers[q]
        BY <1>1, <3>0
      <3>5. CASE running[q] \cup new = running[q]
        BY <1>1, <3>4, <3>5
      <3>6. CASE running[q] \cup new = running[q] \cup {h}
        BY <3>1, <3>4, <3>6
      <3> QED  BY <3>3, <3>5, <3>6
    <2>5. \A r \in Queue : /\ Len(waiting'[r]) <= Capacity
                           /\ IsFiniteSet(running'[r]) /\ Cardinality(running'[r]) <= Workers[r]
      <3> SUFFICES ASSUME NEW r \in Queue
                   PROVE  /\ Len(waiting'[r]) <= Capacity
                          /\ IsFiniteSet(running'[r]) /\ Cardinality(running'[r]) <= Workers[r]
        OBVIOUS
      <3>0. Len(waiting[r]) <= Capacity /\ IsFiniteSet(running[r]) /\ Cardinality(running[r]) <= Workers[r]
        BY DEF QueuesOK
      <3>1. CASE r # q
        BY <1>5, <3>0, <3>1
      <3>2. CASE r = q
        <4>1. Len(w) <= Capacity
          BY <3>0, <3>2 DEF w
        <4>2. Len(Tail(w)) <= Capacity
          BY <1>2, <4>1, ConstantFacts
        <4> QED  BY <1>5, <2>4, <3>2, <4>2
      <3> QED  BY <3>1, <3>2
    <2> QED  BY <1>4, <2>1, <2>2, <2>3, <2>5 DEF QueuesOK
  <1>7. /\ held[QueueOf(q)] = Range(w) /\ held[HandsOf(q)] = running[q]
        /\ QueueOf(q) \in Place /\ HandsOf(q) \in Place /\ QueueOf(q) # HandsOf(q)
        /\ held'[QueueOf(q)] = Range(Tail(w)) /\ held'[HandsOf(q)] = running[q] \cup new
        /\ \A z \in Place : z # QueueOf(q) /\ z # HandsOf(q) => held'[z] = held[z]
    BY <1>1, <1>4, <1>5, HeldIs DEF QueueOf, HandsOf, w
  <1>8. h \in held[QueueOf(q)]
    BY <1>2, <1>7
  <1>9. \A z \in Place : z # QueueOf(q) => h \notin held[z]
    BY <1>7, <1>8 DEF UniqueIds, Unique
  <1>10. h \notin Range(Tail(w))
    BY <1>3
  <1>11. JobStep({h}, HandsOf(q), new)
    BY <1>2, <1>7, <1>9, <1>10 DEF JobStep
  <1>12. UniqueIds'
    <2>1. \A z \in Place : \A c \in held[z] \ {h} : c.id # h.id
      BY <1>7, <1>8 DEF UniqueIds, Unique
    <2>2. Unique(held) /\ HandsOf(q) \in Place
      BY <1>7 DEF UniqueIds
    <2>3. Unique(held')
      <3> HIDE DEF new
      <3> QED  BY <1>5, <1>11, <2>1, <2>2, UniqueStep
    <2> QED  BY <1>1, <1>3, <1>4, <1>5, <2>3 DEF UniqueIds
  <1> QED  BY <1>4, <1>6, <1>8, <1>11, <1>12

\* A worker is done with a job, and may send something on.
LEMMA CompleteStep ==
  ASSUME QueuesOK, IdsOK, UniqueIds, NEW q \in Queue, NEW job \in running[q], NEW b, NEW sent,
         sent = <<>> \/ (sent = <<b>> /\ b \in ReadDone \cup DecodeJob /\ b.id = job.id),
         Complete(q, job, sent)
  PROVE  /\ QueuesOK' /\ UniqueIds' /\ nextJob' = nextJob /\ stopped' = stopped
         /\ job \in held[HandsOf(q)]
         /\ JobStep({job}, "done", IF sent = <<>> \/ job.id \in stopped THEN {} ELSE {b})
  <1> DEFINE U == ReadJob \cup CommandJob \cup DecodeJob
             R == running[q] \ {job}
             D == ReadDone \cup DecodeJob
             new == IF sent = <<>> \/ job.id \in stopped THEN {} ELSE {b}
  <1>1. /\ running \in [Queue -> SUBSET U] /\ Queue = {"io", "cpu"} /\ channel \in Seq(D)
        /\ IsFiniteSet(running[q]) /\ Cardinality(running[q]) <= Workers[q]
        /\ running' = [running EXCEPT ![q] = R]
        /\ channel' = IF job.id \in stopped THEN channel ELSE channel \o sent
        /\ UNCHANGED <<waiting, stopped, nextJob>>
    BY DEF QueuesOK, Queue, Complete
  <1>2. /\ running'[q] = R /\ running' \in [Queue -> SUBSET U]
        /\ \A r \in Queue : r # q => running'[r] = running[r]
    BY <1>1
  <1>3. /\ job \in held[HandsOf(q)] /\ held[HandsOf(q)] = running[q] /\ HandsOf(q) \in Place
        /\ HandsOf(q) # "done" /\ "done" \in Place
        /\ held'[HandsOf(q)] = R /\ held'["done"] = Range(channel') /\ held["done"] = Range(channel)
        /\ \A z \in Place : z # HandsOf(q) /\ z # "done" => held'[z] = held[z]
    BY <1>1, <1>2, HeldIs DEF HandsOf
  <1>4. /\ \A z \in Place : \A c \in held[z] \ {job} : c.id # job.id
        /\ \A z \in Place : z # HandsOf(q) => job \notin held[z]
    BY <1>3 DEF UniqueIds, Unique
  <1>5. EachOnce(channel) /\ EachOnce(waiting["io"]) /\ EachOnce(waiting["cpu"]) /\ Unique(held)
    BY DEF UniqueIds
  <1>6. /\ channel' \in Seq(D) /\ Range(channel') = Range(channel) \cup new /\ EachOnce(channel')
        /\ new \subseteq {b} /\ (new # {} => b.id = job.id)
    <2> HIDE DEF D
    <2>1. CASE sent = <<>> \/ job.id \in stopped
      <3>1. channel' = channel
        BY <1>1, <2>1, ConcatEmptySeq
      <3> QED  BY <1>1, <1>5, <2>1, <3>1
    <2>2. CASE sent = <<b>> /\ b \in D /\ b.id = job.id /\ job.id \notin stopped /\ sent # <<>>
      <3>1. channel' = Append(channel, b)
        BY <1>1, <2>2, AppendIsConcat
      <3>2. channel' \in Seq(D)
        BY <1>1, <2>2, <3>1, QueueAppend
      <3>3. Range(channel') = Range(channel) \cup {b}
        <4>1. channel \in Seq(D) /\ b \in D
          BY <1>1, <2>2
        <4>2. Range(Append(channel, b)) = Range(channel) \cup {b}
          BY <4>1, AppendRange
        <4> QED  BY <3>1, <4>2
      <3>4. \A j \in Range(channel) : j.id # b.id
        BY <1>3, <1>4, <2>2
      <3>5. EachOnce(channel')
        BY <1>1, <1>5, <2>2, <3>1, <3>4, OnceAppend
      <3> QED  BY <2>2, <3>2, <3>3, <3>5
    <2>3. b \in D <=> b \in ReadDone \cup DecodeJob
      BY DEF D
    <2>4. <<b>> # <<>>
      OBVIOUS
    <2> QED  BY <2>1, <2>2, <2>3, <2>4
  <1>7. JobStep({job}, "done", new)
    <2> HIDE DEF new
    <2> SUFFICES ASSUME NEW z \in Place
                 PROVE  held'[z] = (held[z] \ {job}) \cup (IF z = "done" THEN new ELSE {})
      BY DEF JobStep
    <2>1. CASE z = "done"
      BY <1>3, <1>4, <1>6, <2>1
    <2>2. CASE z = HandsOf(q)
      BY <1>3, <2>2
    <2>3. CASE z # "done" /\ z # HandsOf(q)
      BY <1>3, <1>4, <2>3
    <2> QED  BY <2>1, <2>2, <2>3
  <1>8. UniqueIds'
    <2>1. Unique(held')
      <3> HIDE DEF new
      <3>1. CASE new # {}
        BY <1>3, <1>4, <1>5, <1>6, <1>7, <3>1, UniqueStep
      <3>2. CASE new = {}
        <4>1. new \subseteq {job}
          BY <3>2
        <4> QED  BY <1>3, <1>4, <1>5, <1>7, <4>1, UniqueStep
      <3> QED  BY <3>1, <3>2
    <2> QED  BY <1>1, <1>5, <1>6, <2>1 DEF UniqueIds
  <1>9. QueuesOK'
    <2>1. \A r \in Queue : IsFiniteSet(running'[r]) /\ Cardinality(running'[r]) <= Workers[r]
      <3>1. IsFiniteSet(R) /\ Cardinality(R) <= Cardinality(running[q])
        BY <1>1, FS_Subset
      <3>2. /\ Cardinality(R) \in Nat /\ Cardinality(running[q]) \in Nat /\ Workers[q] \in Nat
        BY <1>1, <3>1, FS_CardinalityType, ConstantFacts
      <3>3. Cardinality(R) <= Workers[q]
        BY <1>1, <3>1, <3>2
      <3> QED  BY <1>2, <3>1, <3>3 DEF QueuesOK
    <2>2. running'["io"] \subseteq ReadJob \cup CommandJob /\ running'["cpu"] \subseteq DecodeJob
      BY <1>1, <1>2 DEF QueuesOK
    <2> QED  BY <1>1, <1>2, <1>6, <2>1, <2>2 DEF QueuesOK
  <1> QED  BY <1>1, <1>3, <1>7, <1>8, <1>9

\* A reload command has begun its reload and keeps its worker.
LEMMA WatchStep ==
  ASSUME QueuesOK, IdsOK, UniqueIds, NEW job \in running["io"], job.for = "reload",
         running' = [running EXCEPT !["io"] = (@ \ {job}) \cup {[job EXCEPT !.for = "watch"]}],
         UNCHANGED <<waiting, channel, stopped, nextJob>>
  PROVE  /\ QueuesOK' /\ UniqueIds' /\ job \in held["ioRunning"]
         /\ JobStep({job}, "ioRunning", {[job EXCEPT !.for = "watch"]})
         /\ [job EXCEPT !.for = "watch"].id = job.id
         /\ [job EXCEPT !.for = "watch"] \in CommandJob
  <1> DEFINE U == ReadJob \cup CommandJob \cup DecodeJob
             w == [job EXCEPT !.for = "watch"]
             R == (running["io"] \ {job}) \cup {w}
  <1>1. /\ running \in [Queue -> SUBSET U] /\ Queue = {"io", "cpu"}
        /\ running["io"] \subseteq ReadJob \cup CommandJob /\ running["cpu"] \subseteq DecodeJob
        /\ IsFiniteSet(running["io"]) /\ Cardinality(running["io"]) <= Workers["io"]
        /\ running' = [running EXCEPT !["io"] = R]
    BY DEF QueuesOK, Queue
  <1>2. job \in CommandJob
    BY <1>1 DEF ReadJob
  <1>3. w \in CommandJob /\ w.id = job.id
    BY <1>2 DEF CommandJob
  <1> HIDE DEF w
  <1>4. R \subseteq ReadJob \cup CommandJob /\ running'["io"] = R /\ running'["cpu"] = running["cpu"]
    BY <1>1, <1>3
  <1>5. job \in held["ioRunning"] /\ "ioRunning" \in Place /\ Unique(held)
    BY HeldIs DEF UniqueIds
  <1>6. \A z \in Place : \A c \in held[z] \ {job} : c.id # w.id
    BY <1>3, <1>5 DEF Unique
  <1>7. \A z \in Place : z # "ioRunning" => job \notin held[z]
    BY <1>5 DEF Unique
  <1>8. JobStep({job}, "ioRunning", {w})
    BY <1>1, <1>4, <1>7, HeldIs DEF JobStep
  <1>9. UniqueIds'
    <2>1. Unique(held')
      BY <1>5, <1>6, <1>8, UniqueStep
    <2> QED  BY <2>1 DEF UniqueIds
  <1>10. IsFiniteSet(R) /\ Cardinality(R) <= Workers["io"]
    <2>1. w \notin running["io"] \ {job}
      BY <1>5, <1>6, HeldIs
    <2>2. IsFiniteSet(running["io"] \ {job}) /\ Cardinality(running["io"] \ {job}) = Cardinality(running["io"]) - 1
      BY <1>1, FS_RemoveElement
    <2>3. IsFiniteSet(R) /\ Cardinality(R) = Cardinality(running["io"] \ {job}) + 1
      BY <2>1, <2>2, FS_AddElement
    <2>4. Cardinality(running["io"]) \in Nat
      BY <1>1, FS_CardinalityType
    <2>5. Cardinality(R) = Cardinality(running["io"])
      BY <2>2, <2>3, <2>4
    <2> QED  BY <1>1, <2>3, <2>5
  <1>11. QueuesOK'
    <2>1. running' \in [Queue -> SUBSET U]
      BY <1>1, <1>4
    <2>2. \A r \in Queue : IsFiniteSet(running'[r]) /\ Cardinality(running'[r]) <= Workers[r]
      BY <1>1, <1>4, <1>10 DEF QueuesOK
    <2> QED  BY <1>1, <1>4, <2>1, <2>2 DEF QueuesOK
  <1> QED  BY <1>3, <1>5, <1>8, <1>9, <1>11 DEF w

\* The main thread runs a completion's callback, which may submit a job.
LEMMA CallbackStep ==
  ASSUME QueuesOK, IdsOK, UniqueIds, channel # <<>>, channel' = Tail(channel),
         UNCHANGED <<running, stopped>>,
         NEW b, NEW submits \in BOOLEAN, submits => HasRoom("cpu") /\ b \in DecodeJob /\ b.id = nextJob,
         waiting' = [waiting EXCEPT !["cpu"] = IF submits THEN Append(@, b) ELSE @],
         nextJob' = IF submits THEN nextJob + 1 ELSE nextJob
  PROVE  /\ QueuesOK' /\ UniqueIds'
         /\ Head(channel) \in ReadDone \cup DecodeJob /\ Head(channel) \in held["done"]
         /\ JobStep({Head(channel)}, "cpuWaiting", IF submits THEN {b} ELSE {})
  <1> DEFINE U == ReadJob \cup CommandJob \cup DecodeJob
             D == ReadDone \cup DecodeJob
             h == Head(channel)
             w == waiting["cpu"]
             w2 == IF submits THEN Append(w, b) ELSE w
             new == IF submits THEN {b} ELSE {}
  <1>1. /\ waiting \in [Queue -> Seq(U)] /\ Queue = {"io", "cpu"} /\ channel \in Seq(D)
        /\ w \in Seq(DecodeJob) /\ w \in Seq(U) /\ waiting["io"] \in Seq(U)
        /\ Len(w) <= Capacity /\ Len(w) \in Nat
        /\ waiting' = [waiting EXCEPT !["cpu"] = w2]
    BY LenProperties DEF QueuesOK, Queue
  <1>2. /\ EachOnce(channel) /\ EachOnce(waiting["io"]) /\ EachOnce(w) /\ Unique(held)
    BY DEF UniqueIds
  <1>3. h \in D /\ channel' \in Seq(D) /\ Range(channel) = Range(channel') \cup {h}
    <2> HIDE DEF D
    <2> QED  BY <1>1, QueueTail
  <1>4. EachOnce(channel') /\ \A j \in Range(channel') : j.id # h.id
    <2> HIDE DEF D
    <2> QED  BY <1>1, <1>2, OnceTail
  <1>5. /\ w2 \in Seq(DecodeJob) /\ w2 \in Seq(U) /\ Len(w2) <= Capacity
        /\ Range(w2) = Range(w) \cup new /\ EachOnce(w2)
    <2>1. CASE ~submits
      BY <1>1, <1>2, <2>1
    <2>2. CASE submits
      <3>1. b \in DecodeJob /\ b \in U /\ b.id = nextJob /\ Len(w) < Capacity
        BY <2>2 DEF HasRoom
      <3> HIDE DEF U, w
      <3>2. Append(w, b) \in Seq(DecodeJob) /\ Len(Append(w, b)) = Len(w) + 1
        BY <1>1, <3>1, QueueAppend
      <3>3. Append(w, b) \in Seq(U)
        BY <1>1, <3>1, QueueAppend
      <3>4. Range(Append(w, b)) = Range(w) \cup {b}
        BY <1>1, <3>1, AppendRange
      <3>5. \A j \in Range(w) : j.id # b.id
        BY <3>1, NextIdIsNew, HeldIs DEF w
      <3>6. EachOnce(Append(w, b))
        BY <1>1, <1>2, <3>1, <3>5, OnceAppend
      <3>7. Len(Append(w, b)) <= Capacity
        BY <1>1, <3>1, <3>2, ConstantFacts
      <3> QED  BY <2>2, <3>2, <3>3, <3>4, <3>6, <3>7
    <2> QED  BY <2>1, <2>2
  <1>6. waiting'["cpu"] = w2 /\ waiting'["io"] = waiting["io"]
    BY <1>1
  <1>7. QueuesOK'
    <2>1. waiting' \in [Queue -> Seq(U)]
      <3> HIDE DEF w2
      <3> QED  BY <1>1, <1>5
    <2>2. \A q \in Queue : Len(waiting'[q]) <= Capacity
      <3> HIDE DEF w2
      <3> QED  BY <1>1, <1>5, <1>6 DEF QueuesOK
    <2> HIDE DEF w2
    <2> QED  BY <1>1, <1>3, <1>5, <1>6, <2>1, <2>2 DEF QueuesOK
  <1> HIDE DEF h, w2
  <1>8. h \in held["done"] /\ "done" \in Place /\ "cpuWaiting" \in Place
    BY <1>3, HeldIs
  <1>9. \A z \in Place : z # "done" => h \notin held[z]
    BY <1>2, <1>8 DEF Unique
  <1>10. h \notin Range(channel')
    BY <1>4
  <1>11. JobStep({h}, "cpuWaiting", new)
    <2> HIDE DEF new
    <2> SUFFICES ASSUME NEW z \in Place
                 PROVE  held'[z] = (held[z] \ {h}) \cup (IF z = "cpuWaiting" THEN new ELSE {})
      BY DEF JobStep
    <2>1. CASE z = "done"
      BY <1>3, <1>10, <2>1, HeldIs
    <2>2. CASE z = "cpuWaiting"
      BY <1>5, <1>6, <1>9, <2>2, HeldIs
    <2>3. CASE z # "cpuWaiting" /\ z # "done"
      BY <1>6, <1>9, <2>3, HeldIs
    <2> QED  BY <2>1, <2>2, <2>3
  <1>12. UniqueIds'
    <2>1. Unique(held')
      <3>1. CASE submits
        <4>1. \A z \in Place : \A c \in held[z] \ {h} : c.id # b.id
          BY <3>1, NextIdIsNew
        <4>2. new \subseteq {b}
          OBVIOUS
        <4> HIDE DEF new
        <4> QED  BY <1>2, <1>8, <1>11, <4>1, <4>2, UniqueStep
      <3>2. CASE ~submits
        <4>1. \A z \in Place : \A c \in held[z] \ {h} : c.id # h.id
          BY <1>2, <1>8 DEF Unique
        <4>2. new \subseteq {h}
          BY <3>2
        <4> HIDE DEF new
        <4> QED  BY <1>2, <1>8, <1>11, <4>1, <4>2, UniqueStep
      <3> QED  BY <3>1, <3>2
    <2> QED  BY <1>2, <1>4, <1>5, <1>6, <2>1 DEF UniqueIds
  <1> QED  BY <1>3, <1>7, <1>8, <1>11, <1>12 DEF h

-----------------------------------------------------------------------------
(* What the operations do to the fields of a slot.                         *)

LEMMA LoadingIs ==
  ASSUME NEW s \in SlotType, NEW id \in Nat
  PROVE  LET v == WithJob(Loading(s), id)
         IN /\ v \in SlotType /\ v.key = s.key /\ v.val = s.val /\ v.ver = s.ver /\ v.err = s.err
            /\ v.pending = FALSE /\ v.inFlight = TRUE /\ v.retain = s.retain
            /\ v.cancelled = s.cancelled /\ v.job = id /\ v.status = "Loading"
  <1>1. Loading(s) \in SlotType /\ WithJob(Loading(s), id) \in SlotType
    BY SlotOps
  <1> QED  BY <1>1 DEF Loading, WithJob, SlotType

LEMMA WithJobIs ==
  ASSUME NEW s \in SlotType, NEW id \in Nat
  PROVE  LET v == WithJob(s, id)
         IN /\ v \in SlotType /\ v.key = s.key /\ v.val = s.val /\ v.ver = s.ver /\ v.err = s.err
            /\ v.pending = s.pending /\ v.inFlight = s.inFlight /\ v.retain = s.retain
            /\ v.cancelled = s.cancelled /\ v.job = id /\ v.status = s.status
  BY SlotOps DEF WithJob, SlotType

LEMMA RequeuedIs ==
  ASSUME NEW s \in SlotType
  PROVE  LET v == Requeued(s)
         IN /\ v \in SlotType /\ v.key = s.key /\ v.val = s.val /\ v.ver = s.ver /\ v.err = s.err
            /\ v.pending = TRUE /\ v.inFlight = FALSE /\ v.retain = s.retain
            /\ v.cancelled = s.cancelled /\ v.job = s.job /\ v.status = "Queued"
  BY SlotOps DEF Requeued, SlotType

LEMMA FailedIs ==
  ASSUME NEW s \in SlotType
  PROVE  LET v == Failed(s)
         IN /\ v \in SlotType /\ v.key = s.key /\ v.val = s.val /\ v.ver = s.ver /\ v.err = TRUE
            /\ v.pending = FALSE /\ v.inFlight = FALSE /\ v.retain = FALSE
            /\ v.cancelled = s.cancelled /\ v.job = s.job
            /\ v.status = IF s.retain /\ s.val # None THEN "Ready" ELSE "Failed"
  <1> DEFINE st == IF s.retain /\ s.val # None THEN "Ready" ELSE "Failed"
             v == [s EXCEPT !.err = TRUE, !.status = st,
                            !.inFlight = FALSE, !.pending = FALSE, !.retain = FALSE]
  <1>1. v \in SlotType /\ Failed(s) = v
    <2>1. Failed(s) \in SlotType
      BY SlotOps
    <2> QED  BY <2>1 DEF Failed
  <1> HIDE DEF st
  <1>2. /\ v.key = s.key /\ v.val = s.val /\ v.ver = s.ver /\ v.err = TRUE
        /\ v.pending = FALSE /\ v.inFlight = FALSE /\ v.retain = FALSE
        /\ v.cancelled = s.cancelled /\ v.job = s.job /\ v.status = st
    BY DEF SlotType
  <1> HIDE DEF v
  <1> QED  BY <1>1, <1>2, Zenon DEF st

LEMMA FinishedIs ==
  ASSUME NEW s \in SlotType, NEW n \in Nat
  PROVE  LET v == Finished(s, n)
         IN /\ v \in SlotType /\ v.key = s.key /\ v.val = n /\ v.ver = s.ver + 1 /\ v.err = FALSE
            /\ v.pending = FALSE /\ v.inFlight = FALSE /\ v.retain = FALSE
            /\ v.cancelled = s.cancelled /\ v.job = s.job /\ v.status = "Ready"
  BY SlotOps DEF Finished, SlotType

LEMMA FlaggedIs ==
  ASSUME NEW s \in SlotType
  PROVE  LET v == Flagged(s)
         IN /\ v \in SlotType /\ v.key = s.key /\ v.val = s.val /\ v.ver = s.ver /\ v.err = s.err
            /\ v.pending = s.pending /\ v.inFlight = s.inFlight /\ v.retain = s.retain
            /\ v.cancelled = TRUE /\ v.job = s.job /\ v.status = s.status
  <1>1. TRUE \in BOOLEAN
    OBVIOUS
  <1>2. Flagged(s) \in SlotType
    BY <1>1, Zenon DEF Flagged, SlotType
  <1> QED  BY <1>2 DEF Flagged, SlotType

LEMMA CancelledIs ==
  ASSUME NEW s \in SlotType
  PROVE  LET v == CancelledSlot(s)
         IN /\ v \in SlotType /\ v.key = s.key /\ v.val = s.val /\ v.ver = s.ver
            /\ v.cancelled = TRUE /\ v.job = s.job
  <1>1. Flagged(s) \in SlotType
    BY FlaggedIs
  <1> QED  BY <1>1, FlaggedIs, FailedIs DEF CancelledSlot

LEMMA PurgedIs ==
  ASSUME NEW s \in SlotType
  PROVE  LET v == Purged(s)
         IN /\ v \in SlotType /\ v.key = s.key /\ v.val = s.val /\ v.ver = s.ver /\ v.err = TRUE
            /\ v.pending = s.pending /\ v.inFlight = s.inFlight /\ v.retain = s.retain
            /\ v.cancelled = s.cancelled /\ v.job = s.job /\ v.status = "Failed"
  BY SlotOps DEF Purged, SlotType

LEMMA ReloadingIs ==
  ASSUME NEW s \in SlotType
  PROVE  LET v == Reloading(s)
         IN /\ v \in SlotType /\ v.key = s.key /\ v.val = s.val /\ v.ver = s.ver /\ v.err = FALSE
            /\ v.pending = TRUE /\ v.inFlight = FALSE /\ v.retain = (s.val # None)
            /\ v.cancelled = FALSE /\ v.job = None /\ v.status = "Queued"
  <1> DEFINE r == s.val # None
             v == [s EXCEPT !.pending = TRUE, !.inFlight = FALSE, !.status = "Queued", !.err = FALSE,
                            !.job = None, !.retain = r, !.cancelled = FALSE]
  <1>1. v \in SlotType /\ Reloading(s) = v
    <2>1. Reloading(s) \in SlotType
      BY SlotOps
    <2> QED  BY <2>1 DEF Reloading, Retains
  <1> HIDE DEF r
  <1>2. /\ v.key = s.key /\ v.val = s.val /\ v.ver = s.ver /\ v.err = FALSE
        /\ v.pending = TRUE /\ v.inFlight = FALSE /\ v.retain = r
        /\ v.cancelled = FALSE /\ v.job = None /\ v.status = "Queued"
    BY DEF SlotType
  <1> HIDE DEF v
  <1> QED  BY <1>1, <1>2, Zenon DEF r

\* The slot that a request makes.
MadeSlot(k) ==
  IF disk[k].kind # "gone" THEN [NewSlot(k) EXCEPT !.pending = TRUE]
  ELSE [NewSlot(k) EXCEPT !.status = "Failed", !.err = TRUE]

LEMMA MadeSlotIs ==
  ASSUME NEW k \in Key
  PROVE  LET v == MadeSlot(k)
         IN /\ v \in SlotType /\ v.key = k /\ v.val = None /\ v.ver = 0
            /\ v.pending = (disk[k].kind # "gone") /\ v.inFlight = FALSE /\ v.retain = FALSE
            /\ v.cancelled = FALSE /\ v.job = None /\ v.err = (disk[k].kind = "gone")
  <1>1. /\ NewSlot(k) \in SlotType /\ TRUE \in BOOLEAN
        /\ "Failed" \in {"Queued", "Loading", "Ready", "Failed"}
    BY DEF NewSlot, SlotType
  <1>2. MadeSlot(k) \in SlotType
    <2>1. [NewSlot(k) EXCEPT !.pending = TRUE] \in SlotType
      BY <1>1, Zenon DEF SlotType
    <2>2. [NewSlot(k) EXCEPT !.status = "Failed", !.err = TRUE] \in SlotType
      BY <1>1, Zenon DEF SlotType
    <2> QED  BY <2>1, <2>2 DEF MadeSlot
  <1> QED  BY <1>2 DEF MadeSlot, NewSlot

-----------------------------------------------------------------------------
(* What the actions do to slots, entries and pending queues.               *)

\* One slot is replaced.
OneSlot(s, v) ==
  /\ s \in Slots /\ slot[s] \in SlotType
  /\ slot' \in Seq(SlotType) /\ DOMAIN slot' = Slots
  /\ \A t \in Slots : slot'[t] = IF t = s THEN v ELSE slot[t]

LEMMA OneSlotStep ==
  ASSUME slot \in Seq(SlotType), NEW s \in Slots, NEW v \in SlotType,
         slot' = [slot EXCEPT ![s] = v]
  PROVE  OneSlot(s, v)
  BY SetSlot DEF OneSlot, Slots

\* A request is put on a pending queue.
Queued(s, o) ==
  /\ o.prio \in Priority
  /\ [slot |-> s, opts |-> o] \in RequestType
  /\ pend' \in [Priority -> Seq(RequestType)]
  /\ pend'[o.prio] = Append(pend[o.prio], [slot |-> s, opts |-> o])
  /\ Range(pend'[o.prio]) = Range(pend[o.prio]) \cup {[slot |-> s, opts |-> o]}
  /\ Len(pend'[o.prio]) = Len(pend[o.prio]) + 1
  /\ \A p \in Priority : p # o.prio => pend'[p] = pend[p]

LEMMA QueuedStep ==
  ASSUME pend \in [Priority -> Seq(RequestType)], NEW s \in Nat, NEW o \in OptsType, Enqueue(s, o)
  PROVE  Queued(s, o)
  <1> DEFINE r == [slot |-> s, opts |-> o]
             w == pend[o.prio]
  <1>1. r \in RequestType /\ o.prio \in Priority /\ w \in Seq(RequestType)
        /\ pend' = [pend EXCEPT ![o.prio] = Append(w, r)]
    BY DEF RequestType, OptsType, Enqueue
  <1> HIDE DEF r, w
  <1>2. Append(w, r) \in Seq(RequestType) /\ Len(Append(w, r)) = Len(w) + 1
    BY <1>1, QueueAppend
  <1>3. Range(Append(w, r)) = Range(w) \cup {r}
    BY <1>1, AppendRange
  <1>4. /\ pend' \in [Priority -> Seq(RequestType)] /\ pend'[o.prio] = Append(w, r)
        /\ \A p \in Priority : p # o.prio => pend'[p] = pend[p]
    BY <1>1, <1>2
  <1> QED  BY <1>1, <1>2, <1>3, <1>4 DEF Queued, r, w

\* A slot is made.
Made(k) ==
  /\ slot' \in Seq(SlotType)
  /\ Len(slot) \in Nat /\ Slots = 1 .. Len(slot) /\ DOMAIN slot' = Slots \cup {Len(slot) + 1}
  /\ Len(slot) + 1 \notin Slots
  /\ \A t \in Slots : slot'[t] = slot[t]
  /\ slot'[Len(slot) + 1] = MadeSlot(k)

LEMMA RegisterStep ==
  ASSUME slot \in Seq(SlotType), pend \in [Priority -> Seq(RequestType)],
         NEW k \in Key, NEW o \in OptsType, Register(k, o)
  PROVE  /\ Made(k) /\ entries[k] = None /\ entries' = [entries EXCEPT ![k] = Len(slot) + 1]
         /\ IF disk[k].kind # "gone" THEN Queued(Len(slot) + 1, o) ELSE pend' = pend
         /\ wanted' = [wanted EXCEPT ![k] = disk[k].ver] /\ UNCHANGED <<spent, disk, tooLate>>
  <1> DEFINE n == MadeSlot(k)
  <1>1. n \in SlotType
    BY MadeSlotIs
  <1>2. /\ entries[k] = None /\ entries' = [entries EXCEPT ![k] = Len(slot) + 1]
        /\ slot' = Append(slot, n)
        /\ IF disk[k].kind # "gone" THEN Enqueue(Len(slot) + 1, o) ELSE pend' = pend
        /\ wanted' = [wanted EXCEPT ![k] = disk[k].ver] /\ UNCHANGED <<spent, disk, tooLate>>
    BY DEF Register, MadeSlot
  <1> HIDE DEF n
  <1>3. /\ Append(slot, n) \in Seq(SlotType) /\ DOMAIN Append(slot, n) = 1 .. Len(slot) + 1
        /\ Len(slot) \in Nat /\ DOMAIN slot = 1 .. Len(slot)
        /\ \A i \in 1 .. Len(slot) : Append(slot, n)[i] = slot[i]
        /\ Append(slot, n)[Len(slot) + 1] = n
    BY <1>1, QueueAppend
  <1>4. 1 .. Len(slot) + 1 = (1 .. Len(slot)) \cup {Len(slot) + 1}
        /\ Len(slot) + 1 \notin 1 .. Len(slot) /\ Len(slot) + 1 \in Nat
    BY <1>3
  <1>5. Made(k)
    BY <1>2, <1>3, <1>4 DEF Made, Slots, n
  <1>6. disk[k].kind # "gone" => Queued(Len(slot) + 1, o)
    BY <1>2, <1>4, QueuedStep
  <1> QED  BY <1>2, <1>5, <1>6

\* A reload that goes ahead.
LEMMA RequeueStep ==
  ASSUME slot \in Seq(SlotType), pend \in [Priority -> Seq(RequestType)],
         NEW k \in Key, NEW o \in OptsType, entries[k] \in Slots, Requeue(k, o)
  PROVE  /\ OneSlot(entries[k], Reloading(slot[entries[k]])) /\ Queued(entries[k], o)
         /\ wanted' = [wanted EXCEPT ![k] = disk[k].ver] /\ tooLate' = tooLate \ {entries[k]}
         /\ UNCHANGED <<entries, spent, disk>>
  <1> DEFINE s == entries[k]
  <1>1. slot[s] \in SlotType /\ s \in Nat
    BY ElementOfSeq, LenProperties DEF Slots
  <1>2. Reloading(slot[s]) \in SlotType
    BY <1>1, SlotOps
  <1>3. slot' = [slot EXCEPT ![s] = Reloading(slot[s])] /\ Enqueue(s, o)
        /\ wanted' = [wanted EXCEPT ![k] = disk[k].ver] /\ tooLate' = tooLate \ {s}
        /\ UNCHANGED <<entries, spent, disk>>
    BY DEF Requeue
  <1> HIDE DEF s
  <1>4. s \in Slots
    BY DEF s
  <1>5. OneSlot(s, Reloading(slot[s]))
    BY <1>2, <1>3, <1>4, OneSlotStep
  <1>6. Queued(s, o)
    BY <1>1, <1>3, QueuedStep
  <1> QED  BY <1>3, <1>5, <1>6 DEF s

-----------------------------------------------------------------------------
(* What each action does to jobs and slots.                                *)

\* Jobs whose slot counts are loads of slots that exist.
LEMMA LoadSlots ==
  ASSUME TypeInv, NEW z \in Place, NEW j \in held[z], j.for \in Load
  PROVE  j \in Loads /\ j.slot \in Slots /\ slot[j.slot] \in SlotType
  <1>1. j \in Loads
    BY DEF Loads, LoadIn
  <1>2. j.slot \in Slots /\ slot \in Seq(SlotType)
    BY <1>1 DEF TypeInv, LinksOK, CacheOK
  <1> QED  BY <1>1, <1>2, ElementOfSeq, LenProperties DEF Slots

\* Nothing happens to the cache.
SameCache == UNCHANGED <<slot, pend, entries, wanted, tooLate>>

LEMMA CommandEffect ==
  ASSUME TypeInv, UniqueIds, NEW k \in Key, NEW for \in {"reload", "purge"}, Command(k, for)
  PROVE  \E j \in CommandJob :
           /\ j.id = nextJob /\ JobStep({}, "ioWaiting", {j})
           /\ QueuesOK' /\ UniqueIds' /\ nextJob' = nextJob + 1
  <1> DEFINE j == [id |-> nextJob, for |-> for, key |-> k]
  <1>1. j \in CommandJob /\ j.id = nextJob
    BY DEF CommandJob, TypeInv, IdsOK
  <1>2. HasRoom("io") /\ Put("io", j) /\ QueuesOK /\ IdsOK
    BY DEF Command, TypeInv
  <1> HIDE DEF j
  <1>3. QueuesOK' /\ UniqueIds' /\ JobStep({}, "ioWaiting", {j}) /\ nextJob' = nextJob + 1
    BY <1>1, <1>2, PutStep
  <1> QED  BY <1>1, <1>3

LEMMA ReadEffect ==
  ASSUME TypeInv, UniqueIds, NEW job \in running["io"], Read(job)
  PROVE  /\ job \in ReadJob /\ job \in Loads /\ job.slot \in Slots /\ slot[job.slot] \in SlotType
         /\ job \in held["ioRunning"]
         /\ \E b \in ReadDone :
              /\ b.id = job.id /\ b.slot = job.slot /\ b.for = "read"
              /\ b.data = disk[slot[job.slot].key]
              /\ JobStep({job}, "done", IF job.id \in stopped THEN {} ELSE {b})
         /\ QueuesOK' /\ UniqueIds' /\ nextJob' = nextJob /\ stopped' = stopped
  <1> DEFINE b == [job EXCEPT !.data = disk[slot[job.slot].key]]
  <1>1. /\ job.for = "read" /\ Complete("io", job, <<b>>) /\ QueuesOK /\ IdsOK
        /\ "io" \in Queue /\ job \in held["ioRunning"] /\ "ioRunning" \in Place
    BY HeldIs DEF Read, TypeInv, Queue
  <1>2. job \in ReadJob
    BY <1>1 DEF QueuesOK, CommandJob
  <1>3. job \in Loads /\ job.slot \in Slots /\ slot[job.slot] \in SlotType
    BY <1>1, LoadSlots DEF Load
  <1>4. disk[slot[job.slot].key] \in File
    BY <1>3 DEF TypeInv, FilesOK, SlotType
  <1>5. /\ b \in ReadDone /\ b.id = job.id /\ b.slot = job.slot /\ b.for = "read"
        /\ b.data = disk[slot[job.slot].key]
    BY <1>2, <1>4 DEF ReadJob, ReadDone
  <1> HIDE DEF b
  <1>6. <<b>> # <<>>
    OBVIOUS
  <1>7. /\ QueuesOK' /\ UniqueIds' /\ nextJob' = nextJob /\ stopped' = stopped
        /\ JobStep({job}, "done", IF <<b>> = <<>> \/ job.id \in stopped THEN {} ELSE {b})
    BY <1>1, <1>5, CompleteStep
  <1>8. JobStep({job}, "done", IF job.id \in stopped THEN {} ELSE {b})
    BY <1>6, <1>7
  <1> QED  BY <1>1, <1>2, <1>3, <1>5, <1>7, <1>8

LEMMA DecodeEffect ==
  ASSUME TypeInv, UniqueIds, NEW job \in running["cpu"], Decode(job)
  PROVE  /\ job \in DecodeJob /\ job \in Loads /\ job.slot \in Slots /\ slot[job.slot] \in SlotType
         /\ job \in held["cpuRunning"]
         /\ \/ JobStep({job}, "done", IF job.id \in stopped THEN {} ELSE {job}) /\ panics' = panics
            \/ JobStep({job}, "done", {}) /\ panics' = panics + 1
         /\ QueuesOK' /\ UniqueIds' /\ nextJob' = nextJob /\ stopped' = stopped
  <1>1. QueuesOK /\ IdsOK /\ "cpu" \in Queue /\ job \in held["cpuRunning"] /\ "cpuRunning" \in Place
    BY HeldIs DEF TypeInv, Queue
  <1>2. job \in DecodeJob
    BY <1>1 DEF QueuesOK
  <1>3. job \in Loads /\ job.slot \in Slots /\ slot[job.slot] \in SlotType
    BY <1>1, <1>2, LoadSlots DEF Load, DecodeJob
  <1>4. CASE Complete("cpu", job, <<job>>) /\ panics' = panics
    <2>1. <<job>> # <<>>
      OBVIOUS
    <2>2. /\ QueuesOK' /\ UniqueIds' /\ nextJob' = nextJob /\ stopped' = stopped
          /\ JobStep({job}, "done", IF <<job>> = <<>> \/ job.id \in stopped THEN {} ELSE {job})
      BY <1>1, <1>2, <1>4, CompleteStep
    <2>3. JobStep({job}, "done", IF job.id \in stopped THEN {} ELSE {job})
      BY <2>1, <2>2
    <2> QED  BY <1>1, <1>2, <1>3, <1>4, <2>2, <2>3
  <1>5. CASE Complete("cpu", job, <<>>) /\ panics' = panics + 1
    <2>1. /\ QueuesOK' /\ UniqueIds' /\ nextJob' = nextJob /\ stopped' = stopped
          /\ JobStep({job}, "done", IF <<>> = <<>> \/ job.id \in stopped THEN {} ELSE {job})
      BY <1>1, <1>5, CompleteStep
    <2>2. JobStep({job}, "done", {})
      BY <2>1
    <2> QED  BY <1>1, <1>2, <1>3, <1>5, <2>1, <2>2
  <1> QED  BY <1>4, <1>5 DEF Decode

\* A console command that is over: purge, or the end of a reload.
LEMMA OverEffect ==
  ASSUME TypeInv, UniqueIds, NEW job \in running["io"], job.for \in {"purge", "reload", "watch"},
         Complete("io", job, <<>>)
  PROVE  /\ job \in CommandJob /\ job \in held["ioRunning"] /\ job \notin Loads
         /\ JobStep({job}, "done", {})
         /\ QueuesOK' /\ UniqueIds' /\ nextJob' = nextJob /\ stopped' = stopped
  <1>1. QueuesOK /\ IdsOK /\ "io" \in Queue /\ job \in held["ioRunning"]
    BY HeldIs DEF TypeInv, Queue
  <1>2. job \in CommandJob
    BY <1>1 DEF QueuesOK, ReadJob
  <1>3. job \notin Loads
    BY DEF Loads, LoadIn, Load
  <1>4. /\ QueuesOK' /\ UniqueIds' /\ nextJob' = nextJob /\ stopped' = stopped
        /\ JobStep({job}, "done", IF <<>> = <<>> \/ job.id \in stopped THEN {} ELSE {job})
    BY <1>1, CompleteStep
  <1>5. JobStep({job}, "done", {})
    BY <1>4
  <1> QED  BY <1>1, <1>2, <1>3, <1>4, <1>5

\* The job part of the start of a reload command.
LEMMA BeginReloadEffect ==
  ASSUME TypeInv, UniqueIds, NEW job \in running["io"], BeginReload(job)
  PROVE  /\ job \in CommandJob /\ job.key \in Key /\ job \in held["ioRunning"] /\ job \notin Loads
         /\ \E w \in CommandJob : w.id = job.id /\ \E new \in {{}, {w}} : JobStep({job}, "ioRunning", new)
         /\ QueuesOK' /\ UniqueIds' /\ nextJob' = nextJob /\ stopped' = stopped
         /\ HighBoot \in OptsType
  <1>1. job.for = "reload" /\ job.for \in {"purge", "reload", "watch"}
    BY DEF BeginReload
  <1>2. HighBoot \in OptsType
    BY PriorityFacts DEF HighBoot, OptsType
  <1>3. CASE Complete("io", job, <<>>)
    <2>1. /\ job \in CommandJob /\ job \in held["ioRunning"] /\ job \notin Loads
          /\ JobStep({job}, "done", {})
          /\ QueuesOK' /\ UniqueIds' /\ nextJob' = nextJob /\ stopped' = stopped
      BY <1>1, <1>3, OverEffect
    <2>2. JobStep({job}, "ioRunning", {})
      BY <2>1 DEF JobStep
    <2> QED  BY <1>2, <2>1, <2>2 DEF CommandJob
  <1>4. CASE /\ running' = [running EXCEPT !["io"] = (@ \ {job}) \cup {[job EXCEPT !.for = "watch"]}]
             /\ UNCHANGED <<waiting, channel, stopped, nextJob>>
    <2> DEFINE w == [job EXCEPT !.for = "watch"]
    <2>1. QueuesOK /\ IdsOK
      BY DEF TypeInv
    <2>2. /\ QueuesOK' /\ UniqueIds' /\ job \in held["ioRunning"]
          /\ JobStep({job}, "ioRunning", {w}) /\ w.id = job.id /\ w \in CommandJob
      BY <1>1, <1>4, <2>1, WatchStep
    <2>3. job \in CommandJob
      BY <1>1, <2>1 DEF QueuesOK, ReadJob
    <2>4. job \notin Loads
      BY <1>1 DEF Loads, LoadIn, Load
    <2> HIDE DEF w
    <2> QED  BY <1>2, <1>4, <2>2, <2>3, <2>4 DEF CommandJob
  <1> QED  BY <1>3, <1>4 DEF BeginReload

\* A completion's callback.
LEMMA CallbackEffect ==
  ASSUME TypeInv, UniqueIds, Callback
  PROVE  \E h \in ReadDone \cup DecodeJob :
           LET s == h.slot
               decode == [h EXCEPT !.id = nextJob, !.for = "decode"]
           IN /\ h = Head(channel) /\ h \in held["done"] /\ h \in Loads /\ s \in Slots
              /\ QueuesOK' /\ UniqueIds' /\ stopped' = stopped
              /\ \/ /\ h \in ReadDone /\ OneSlot(s, Failed(slot[s]))
                    /\ h.data.kind = "gone" \/ slot[s].cancelled \/ ~HasRoom("cpu")
                    /\ JobStep({h}, "cpuWaiting", {}) /\ nextJob' = nextJob /\ spent' = spent
                 \/ /\ h \in ReadDone /\ OneSlot(s, WithJob(slot[s], nextJob))
                    /\ ~slot[s].cancelled
                    /\ decode \in DecodeJob /\ decode.id = nextJob /\ decode.slot = s
                    /\ decode.data = h.data
                    /\ JobStep({h}, "cpuWaiting", {decode}) /\ nextJob' = nextJob + 1 /\ spent' = spent
                 \/ /\ h \in DecodeJob /\ h.data.kind = "good"
                    /\ OneSlot(s, Finished(slot[s], h.data.ver))
                    /\ JobStep({h}, "cpuWaiting", {}) /\ nextJob' = nextJob
                    /\ \E ms \in {0, Cost} : Spend(ms)
                 \/ /\ h \in DecodeJob /\ h.data.kind # "good" /\ OneSlot(s, Failed(slot[s]))
                    /\ JobStep({h}, "cpuWaiting", {}) /\ nextJob' = nextJob
                    /\ \E ms \in {0, Cost} : Spend(ms)
  <1> DEFINE h == Head(channel)
             s == h.slot
             decode == [h EXCEPT !.id = nextJob, !.for = "decode"]
  <1>1. /\ QueuesOK /\ IdsOK /\ channel # <<>> /\ channel' = Tail(channel)
        /\ UNCHANGED <<running, stopped>> /\ nextJob \in Nat
        /\ channel \in Seq(ReadDone \cup DecodeJob) /\ slot \in Seq(SlotType)
        /\ IF h.for = "read" THEN ReadCallback(h) ELSE DecodeCallback(h)
        /\ waiting = [waiting EXCEPT !["cpu"] = @]
    BY DEF Callback, TypeInv, CacheOK, IdsOK, QueuesOK, Queue
  <1>2. h \in ReadDone \cup DecodeJob /\ h \in held["done"] /\ "done" \in Place
    <2>1. h \in ReadDone \cup DecodeJob /\ Range(channel) = Range(Tail(channel)) \cup {h}
      BY <1>1, QueueTail
    <2> QED  BY <2>1, HeldIs
  <1>3. h.for \in Load /\ (h \in ReadDone => h.for = "read") /\ (h \in DecodeJob => h.for = "decode")
    BY <1>2 DEF ReadDone, DecodeJob, Load
  <1>4. h \in Loads /\ s \in Slots /\ slot[s] \in SlotType
    BY <1>2, <1>3, LoadSlots
  <1> HIDE DEF h
  <1>5. CASE h \in ReadDone
    <2> DEFINE refused == h.data.kind = "gone" \/ IsCancelled(s) \/ ~HasRoom("cpu")
               sub == ~refused
    <2>1. /\ slot' = [slot EXCEPT ![s] = IF refused THEN Failed(slot[s]) ELSE WithJob(slot[s], nextJob)]
          /\ waiting' = [waiting EXCEPT !["cpu"] = IF sub THEN Append(@, decode) ELSE @]
          /\ nextJob' = IF sub THEN nextJob + 1 ELSE nextJob
          /\ spent' = spent
      BY <1>1, <1>3, <1>5 DEF ReadCallback
    <2>2. decode \in DecodeJob /\ decode.id = nextJob /\ decode.slot = s /\ decode.data = h.data
      BY <1>1, <1>5 DEF ReadDone, DecodeJob
    <2>3. sub \in BOOLEAN /\ (sub => HasRoom("cpu"))
      OBVIOUS
    <2> HIDE DEF sub, decode
    <2>4. /\ QueuesOK' /\ UniqueIds'
          /\ JobStep({h}, "cpuWaiting", IF sub THEN {decode} ELSE {})
      BY <1>1, <2>1, <2>2, <2>3, CallbackStep DEF h
    <2>5. CASE refused
      <3>1. OneSlot(s, Failed(slot[s]))
        BY <1>1, <1>4, <2>1, <2>5, SlotOps, OneSlotStep
      <3>2. JobStep({h}, "cpuWaiting", {}) /\ nextJob' = nextJob
        BY <2>1, <2>4, <2>5 DEF sub
      <3>3. h.data.kind = "gone" \/ slot[s].cancelled \/ ~HasRoom("cpu")
        BY <2>5 DEF IsCancelled
      <3> QED  BY <1>1, <1>2, <1>4, <1>5, <2>1, <2>4, <3>1, <3>2, <3>3 DEF h, decode
    <2>6. CASE sub
      <3>1. OneSlot(s, WithJob(slot[s], nextJob))
        <4>1. slot' = [slot EXCEPT ![s] = WithJob(slot[s], nextJob)]
          BY <2>1, <2>6 DEF sub
        <4>2. WithJob(slot[s], nextJob) \in SlotType
          BY <1>1, <1>4, SlotOps
        <4> QED  BY <1>1, <1>4, <4>1, <4>2, OneSlotStep
      <3>2. JobStep({h}, "cpuWaiting", {decode}) /\ nextJob' = nextJob + 1
        BY <2>1, <2>4, <2>6
      <3>3. ~slot[s].cancelled
        BY <2>6 DEF sub, IsCancelled
      <3> QED  BY <1>1, <1>2, <1>4, <1>5, <2>1, <2>2, <2>4, <3>1, <3>2, <3>3 DEF h, decode
    <2> QED  BY <2>5, <2>6 DEF sub
  <1>6. CASE h \in DecodeJob
    <2>1. /\ slot' = [slot EXCEPT ![s] = IF h.data.kind = "good" THEN Finished(slot[s], h.data.ver)
                                                                ELSE Failed(slot[s])]
          /\ waiting' = waiting /\ nextJob' = nextJob /\ \E ms \in {0, Cost} : Spend(ms)
      BY <1>1, <1>3, <1>6 DEF DecodeCallback
    <2>2. FALSE \in BOOLEAN /\ waiting' = [waiting EXCEPT !["cpu"] = IF FALSE THEN Append(@, h) ELSE @]
          /\ nextJob' = IF FALSE THEN nextJob + 1 ELSE nextJob
      BY <1>1, <2>1
    <2>3. QueuesOK' /\ UniqueIds' /\ JobStep({h}, "cpuWaiting", IF FALSE THEN {h} ELSE {})
      BY <1>1, <2>2, CallbackStep DEF h
    <2>4. JobStep({h}, "cpuWaiting", {})
      BY <2>3
    <2>5. h.data.ver \in Nat
      BY <1>6 DEF DecodeJob, File
    <2>6. CASE h.data.kind = "good"
      <3>1. OneSlot(s, Finished(slot[s], h.data.ver))
        BY <1>1, <1>4, <2>1, <2>5, <2>6, SlotOps, OneSlotStep
      <3> QED  BY <1>1, <1>2, <1>4, <1>6, <2>1, <2>3, <2>4, <2>6, <3>1 DEF h
    <2>7. CASE h.data.kind # "good"
      <3>1. OneSlot(s, Failed(slot[s]))
        BY <1>1, <1>4, <2>1, <2>7, SlotOps, OneSlotStep
      <3> QED  BY <1>1, <1>2, <1>4, <1>6, <2>1, <2>3, <2>4, <2>7, <3>1 DEF h
    <2> QED  BY <2>6, <2>7
  <1> QED  BY <1>2, <1>5, <1>6

\* A request leaves a pending queue, or goes to its end.
Dequeued(p) ==
  /\ pend' \in [Priority -> Seq(RequestType)] /\ pend'[p] = Tail(pend[p])
  /\ \A q \in Priority : q # p => pend'[q] = pend[q]
Rotated(p) ==
  /\ pend' \in [Priority -> Seq(RequestType)] /\ pend'[p] = Append(Tail(pend[p]), Head(pend[p]))
  /\ \A q \in Priority : q # p => pend'[q] = pend[q]

\* The outcomes of a round of drain_pending for a request of slot s.
Waits(p) == Rotated(p) /\ UNCHANGED <<slot, jobVars>>
Drops(p, s) ==
  /\ Dequeued(p) /\ OneSlot(s, Failed(slot[s])) /\ slot[s].cancelled /\ UNCHANGED jobVars
Starts(p, s) ==
  /\ Dequeued(p) /\ OneSlot(s, WithJob(Loading(slot[s]), nextJob)) /\ ~slot[s].cancelled
  /\ nextJob' = nextJob + 1 /\ stopped' = stopped
  /\ \E j \in ReadJob : /\ j.id = nextJob /\ j.slot = s /\ j.data = None
                        /\ JobStep({}, "ioWaiting", {j})
Postpones(p, s) ==
  /\ Rotated(p) /\ OneSlot(s, Requeued(slot[s])) /\ ~slot[s].cancelled /\ UNCHANGED jobVars

LEMMA DispatchEffect ==
  ASSUME TypeInv, UniqueIds, Dispatch
  PROVE  LET p == draining.prio
             req == Head(pend[p])
             s == req.slot
         IN /\ p \in Priority /\ pend[p] # <<>> /\ pend[p] \in Seq(RequestType)
            /\ req \in RequestType /\ req \in Range(pend[p]) /\ s \in Slots
            /\ QueuesOK' /\ UniqueIds'
            /\ draining' = [draining EXCEPT !.left = draining.left - 1] /\ draining.left > 0
            /\ Waits(p) \/ Drops(p, s) \/ Starts(p, s) \/ Postpones(p, s)
  <1> DEFINE p == draining.prio
             w == pend[p]
             req == Head(w)
             s == req.slot
  <1>1. /\ QueuesOK /\ IdsOK /\ UniqueIds /\ nextJob \in Nat
        /\ p \in Priority /\ pend \in [Priority -> Seq(RequestType)] /\ slot \in Seq(SlotType)
        /\ w \in Seq(RequestType) /\ draining.left > 0 /\ draining.left \in Nat /\ draining.left <= Len(w)
        /\ draining' = [draining EXCEPT !.left = draining.left - 1]
        /\ \A r \in Range(w) : r.slot \in Slots
    BY DEF TypeInv, CacheOK, DrainOK, IdsOK, Dispatch
  <1>2. w # <<>>
    BY <1>1, EmptyQueue
  <1>3. req \in RequestType /\ Tail(w) \in Seq(RequestType) /\ Range(w) = Range(Tail(w)) \cup {req}
    <2> HIDE DEF w
    <2> QED  BY <1>1, <1>2, QueueTail
  <1>4. Append(Tail(w), req) \in Seq(RequestType) /\ Tail(w) \o <<req>> = Append(Tail(w), req)
    <2> HIDE DEF w, req
    <2> QED  BY <1>3, QueueAppend
  <1>5. s \in Slots /\ slot[s] \in SlotType
    <2>1. s \in Slots
      BY <1>1, <1>3
    <2> QED  BY <1>1, <2>1, ElementOfSeq, LenProperties DEF Slots
  <1>6. UNCHANGED jobVars => QueuesOK' /\ UniqueIds'
    BY <1>1, HeldIs DEF jobVars, QueuesOK, UniqueIds, Unique
  <1> HIDE DEF p
  <1>7. \A q \in Seq(RequestType) :
          pend' = [pend EXCEPT ![p] = q] =>
            /\ pend' \in [Priority -> Seq(RequestType)] /\ pend'[p] = q
            /\ \A r \in Priority : r # p => pend'[r] = pend[r]
    BY <1>1
  <1>8. pend' = [pend EXCEPT ![p] = Tail(w)] => Dequeued(p)
    BY <1>3, <1>7 DEF Dequeued
  <1>9. pend' = [pend EXCEPT ![p] = Append(Tail(w), req)] => Rotated(p)
    BY <1>4, <1>7 DEF Rotated
  <1> SUFFICES /\ QueuesOK' /\ UniqueIds'
               /\ Waits(p) \/ Drops(p, s) \/ Starts(p, s) \/ Postpones(p, s)
    BY <1>1, <1>2, <1>3, <1>5 DEF p
  <1>10. CASE /\ pend' = [pend EXCEPT ![p] = Append(Tail(@), req)]
              /\ UNCHANGED <<slot, jobVars>>
    <2>1. pend' = [pend EXCEPT ![p] = Append(Tail(w), req)]
      BY <1>10 DEF p
    <2>2. Waits(p)
      BY <1>9, <1>10, <2>1 DEF Waits
    <2> QED  BY <1>6, <1>10, <2>2
  <1>11. CASE /\ IsCancelled(s) /\ slot' = [slot EXCEPT ![s] = Failed(@)]
              /\ pend' = [pend EXCEPT ![p] = Tail(@)] /\ UNCHANGED jobVars
    <2>1. pend' = [pend EXCEPT ![p] = Tail(w)]
      BY <1>11 DEF p
    <2>2. OneSlot(s, Failed(slot[s]))
      <3>1. slot' = [slot EXCEPT ![s] = Failed(slot[s])]
        BY <1>11
      <3> HIDE DEF s
      <3> QED  BY <1>1, <1>5, <3>1, SlotOps, OneSlotStep
    <2>3. Drops(p, s)
      BY <1>8, <1>11, <2>1, <2>2 DEF Drops, IsCancelled
    <2> QED  BY <1>6, <1>11, <2>3
  <1>12. CASE /\ ~IsCancelled(s) /\ HasRoom("io")
              /\ Put("io", [id |-> nextJob, for |-> "read", slot |-> s, data |-> None])
              /\ slot' = [slot EXCEPT ![s] = WithJob(Loading(@), nextJob)]
              /\ pend' = [pend EXCEPT ![p] = Tail(@)]
    <2> DEFINE j == [id |-> nextJob, for |-> "read", slot |-> s, data |-> None]
    <2>1. pend' = [pend EXCEPT ![p] = Tail(w)]
      BY <1>12 DEF p
    <2>2. OneSlot(s, WithJob(Loading(slot[s]), nextJob))
      <3>1. slot' = [slot EXCEPT ![s] = WithJob(Loading(slot[s]), nextJob)]
        BY <1>12
      <3> HIDE DEF s
      <3>2. WithJob(Loading(slot[s]), nextJob) \in SlotType
        BY <1>1, <1>5, LoadingIs
      <3> QED  BY <1>1, <1>5, <3>1, <3>2, OneSlotStep
    <2>3. j \in ReadJob /\ j.id = nextJob /\ j.slot = s /\ j.data = None
      BY <1>1, <1>3 DEF ReadJob, RequestType
    <2> HIDE DEF j
    <2>4. QueuesOK' /\ UniqueIds' /\ JobStep({}, "ioWaiting", {j}) /\ nextJob' = nextJob + 1
      <3>1. Put("io", j)
        BY <1>12 DEF j
      <3> QED  BY <1>1, <1>12, <2>3, <3>1, PutStep
    <2>5. stopped' = stopped /\ ~slot[s].cancelled
      BY <1>12 DEF Put, IsCancelled
    <2>6. Starts(p, s)
      BY <1>8, <2>1, <2>2, <2>3, <2>4, <2>5 DEF Starts
    <2> QED  BY <2>4, <2>6
  <1>13. CASE /\ ~IsCancelled(s) /\ slot' = [slot EXCEPT ![s] = Requeued(@)]
              /\ pend' = [pend EXCEPT ![p] = Tail(@) \o PutBack(req)] /\ UNCHANGED jobVars
    <2>1. pend' = [pend EXCEPT ![p] = Append(Tail(w), req)]
      BY <1>4, <1>13 DEF p, PutBack
    <2>2. OneSlot(s, Requeued(slot[s]))
      <3>1. slot' = [slot EXCEPT ![s] = Requeued(slot[s])]
        BY <1>13
      <3> HIDE DEF s
      <3> QED  BY <1>1, <1>5, <3>1, SlotOps, OneSlotStep
    <2>3. Postpones(p, s)
      BY <1>9, <1>13, <2>1, <2>2 DEF Postpones, IsCancelled
    <2> QED  BY <1>6, <1>13, <2>3
  <1> QED  BY <1>10, <1>11, <1>12, <1>13 DEF Dispatch, p

\* What a reload, by whichever thread, does to the cache.
Registers(k, o) ==
  /\ Made(k) /\ entries[k] = None /\ entries' = [entries EXCEPT ![k] = Len(slot) + 1]
  /\ IF disk[k].kind # "gone" THEN Queued(Len(slot) + 1, o) ELSE pend' = pend
  /\ wanted' = [wanted EXCEPT ![k] = disk[k].ver] /\ tooLate' = tooLate
Requeues(k, o) ==
  /\ entries[k] \in Slots /\ ~Busy(slot[entries[k]]) /\ disk[k].kind # "gone"
  /\ OneSlot(entries[k], Reloading(slot[entries[k]])) /\ Queued(entries[k], o)
  /\ wanted' = [wanted EXCEPT ![k] = disk[k].ver] /\ tooLate' = tooLate \ {entries[k]}
  /\ entries' = entries

LEMMA ReloadEffect ==
  ASSUME CacheOK, NEW k \in Key, NEW o \in OptsType, Reload(k, o)
  PROVE  /\ SameCache \/ Registers(k, o) \/ Requeues(k, o)
         /\ UNCHANGED <<spent, disk>>
  <1>1. /\ slot \in Seq(SlotType) /\ pend \in [Priority -> Seq(RequestType)]
        /\ entries[k] # None => entries[k] \in Slots
    BY DEF CacheOK
  <1>2. CASE entries[k] = None
    <2>1. Register(k, o)
      BY <1>2 DEF Reload
    <2> QED  BY <1>1, <2>1, RegisterStep DEF Registers
  <1>3. CASE entries[k] # None /\ (Busy(slot[entries[k]]) \/ disk[k].kind = "gone")
    BY <1>3 DEF Reload, SameCache, history
  <1>4. CASE entries[k] # None /\ ~Busy(slot[entries[k]]) /\ disk[k].kind # "gone"
    <2>1. Requeue(k, o) /\ entries[k] \in Slots
      BY <1>1, <1>4 DEF Reload
    <2> QED  BY <1>1, <1>4, <2>1, RequeueStep DEF Requeues
  <1> QED  BY <1>2, <1>3, <1>4

Purges(k) ==
  /\ entries[k] \in Slots /\ OneSlot(entries[k], Purged(slot[entries[k]]))
  /\ entries' = [entries EXCEPT ![k] = None] /\ wanted' = [wanted EXCEPT ![k] = disk[k].ver]
  /\ UNCHANGED <<pend, tooLate>>

LEMMA PurgeEffect ==
  ASSUME CacheOK, NEW job, job.key \in Key, Purge(job)
  PROVE  (SameCache \/ Purges(job.key)) /\ UNCHANGED <<spent, disk, panics, cancels>>
  <1> DEFINE k == job.key
             s == entries[k]
  <1>1. /\ slot \in Seq(SlotType) /\ (s # None => s \in Slots)
        /\ IF s = None THEN UNCHANGED <<entries, slot, history>>
           ELSE /\ entries' = [entries EXCEPT ![k] = None] /\ slot' = [slot EXCEPT ![s] = Purged(slot[s])]
                /\ wanted' = [wanted EXCEPT ![k] = disk[k].ver] /\ tooLate' = tooLate
        /\ UNCHANGED <<pend, spent, disk, panics, cancels>>
    BY DEF CacheOK, Purge, WithoutEntry, counts
  <1>2. CASE s = None
    BY <1>1, <1>2 DEF SameCache, history
  <1>3. CASE s # None
    <2>1. Purged(slot[s]) \in SlotType
      <3>1. slot[s] \in SlotType
        BY <1>1, <1>3, ElementOfSeq, LenProperties DEF Slots
      <3> QED  BY <3>1, SlotOps
    <2> HIDE DEF s
    <2>2. OneSlot(s, Purged(slot[s]))
      BY <1>1, <1>3, <2>1, OneSlotStep
    <2> QED  BY <1>1, <1>3, <2>2 DEF Purges, s
  <1> QED  BY <1>2, <1>3

Cancellation(s) ==
  /\ OneSlot(s, CancelledSlot(slot[s]))
  /\ stopped' = IF slot[s].job = None THEN stopped ELSE stopped \cup {slot[s].job}
  /\ tooLate' = IF \E i \in DOMAIN channel : channel[i].for = "decode" /\ channel[i].slot = s
                THEN tooLate \cup {s} ELSE tooLate
  /\ cancels' = cancels + 1
  /\ UNCHANGED <<entries, pend, wanted, panics>>

LEMMA CancelEffect ==
  ASSUME CacheOK, NEW s \in Slots, Cancel(s)
  PROVE  Cancellation(s) /\ SameJobs
  <1>1. slot \in Seq(SlotType) /\ slot[s] \in SlotType
    BY ElementOfSeq, LenProperties DEF CacheOK, Slots
  <1>2. slot' = [slot EXCEPT ![s] = CancelledSlot(slot[s])] /\ CancelledSlot(slot[s]) \in SlotType
    BY <1>1, SlotOps DEF Cancel
  <1>3. OneSlot(s, CancelledSlot(slot[s]))
    BY <1>1, <1>2, OneSlotStep
  <1> QED  BY <1>3 DEF Cancel, Cancellation, SameJobs

-----------------------------------------------------------------------------
(* The shapes are kept.                                                    *)

LEMMA InitHeld ==
  ASSUME Init
  PROVE  (\A z \in Place : held[z] = {}) /\ Loads = {}
  <1>1. Range(waiting["io"]) = {} /\ Range(waiting["cpu"]) = {} /\ Range(channel) = {}
    BY EmptyQueue DEF Init, Queue
  <1>2. running["io"] = {} /\ running["cpu"] = {}
    BY DEF Init, Queue
  <1>3. \A z \in Place : held[z] = {}
    BY <1>1, <1>2, HeldIs
  <1> QED  BY <1>3 DEF Loads, LoadIn

LEMMA EmptyInSeq == ASSUME NEW T PROVE <<>> \in Seq(T)
  OBVIOUS

LEMMA InitTypes == Init => TypeInv /\ UniqueIds
  <1> SUFFICES ASSUME Init PROVE TypeInv /\ UniqueIds
    OBVIOUS
  <1>1. (\A z \in Place : held[z] = {}) /\ Loads = {}
    BY InitHeld
  <1>2. Slots = {} /\ slot \in Seq(SlotType)
    BY EmptyInSeq DEF Init, Slots
  <1>3. CacheOK
    <2>1. pend \in [Priority -> Seq(RequestType)]
      BY EmptyInSeq DEF Init
    <2>2. \A p \in Priority : Range(pend[p]) = {}
      BY EmptyQueue DEF Init
    <2> QED  BY <1>2, <2>1, <2>2 DEF Init, CacheOK
  <1>4. CountsOK
    BY ConstantFacts DEF Init, CountsOK
  <1>5. FilesOK
    <2>1. [ver |-> 0, kind |-> "good"] \in File
      BY DEF File, FileKinds
    <2>2. MaxEdits \in Nat
      BY ConstantFacts
    <2> QED  BY <2>1, <2>2 DEF Init, FilesOK
  <1>6. QueuesOK
    <2>1. /\ waiting["io"] = <<>> /\ waiting["cpu"] = <<>> /\ running["io"] = {} /\ running["cpu"] = {}
          /\ waiting \in [Queue -> {<<>>}] /\ running \in [Queue -> {{}}] /\ channel = <<>>
          /\ \A q \in Queue : waiting[q] = <<>> /\ running[q] = {}
      BY DEF Init, Queue
    <2>2. IsFiniteSet({}) /\ Cardinality({}) = 0 /\ Len(<<>>) = 0
      BY FS_EmptySet
    <2>3. \A q \in Queue : /\ Len(waiting[q]) <= Capacity
                           /\ IsFiniteSet(running[q]) /\ Cardinality(running[q]) <= Workers[q]
      <3> SUFFICES ASSUME NEW q \in Queue
                   PROVE  /\ Len(waiting[q]) <= Capacity
                          /\ IsFiniteSet(running[q]) /\ Cardinality(running[q]) <= Workers[q]
        OBVIOUS
      <3>1. waiting[q] = <<>> /\ running[q] = {}
        BY <2>1
      <3>2. Workers[q] \in Nat /\ Capacity \in Nat
        BY ConstantFacts
      <3>3. 0 <= Workers[q] /\ 0 <= Capacity
        BY <3>2
      <3> QED  BY <2>2, <3>1, <3>3
    <2>4. waiting \in [Queue -> Seq(ReadJob \cup CommandJob \cup DecodeJob)]
          /\ running \in [Queue -> SUBSET (ReadJob \cup CommandJob \cup DecodeJob)]
      BY <2>1, EmptyInSeq
    <2> QED  BY <2>1, <2>3, <2>4, EmptyInSeq DEF QueuesOK
  <1>7. IdsOK /\ LinksOK
    BY <1>1, <1>2 DEF Init, IdsOK, LinksOK
  <1>8. DrainOK
    <2>1. pend[1] = <<>> /\ Len(<<>>) = 0 /\ 1 \in Priority
      BY PriorityFacts DEF Init
    <2>2. draining \in [prio : Priority, left : Nat] /\ draining.left = 0 /\ draining.prio = 1
      BY <2>1 DEF Init
    <2> QED  BY <2>1, <2>2 DEF Init, DrainOK
  <1>9. UniqueIds
    <2>1. EachOnce(<<>>)
      BY DEF EachOnce
    <2> QED  BY <1>1, <2>1 DEF Init, UniqueIds, Unique, Queue
  <1> QED  BY <1>3, <1>4, <1>5, <1>6, <1>7, <1>8, <1>9 DEF TypeInv

\* Which worker does what.
LEMMA WorkerCases ==
  ASSUME NEW q \in Queue, WorkerStep(q)
  PROVE  \/ Take(q)
         \/ \E job \in running["io"] : Read(job) \/ Purge(job) \/ BeginReload(job) \/ EndReload(job)
         \/ \E job \in running["cpu"] : Decode(job)
  <1>1. ASSUME NEW job \in running[q],
               Read(job) \/ Decode(job) \/ Purge(job) \/ BeginReload(job) \/ EndReload(job)
        PROVE  \/ \E j \in running["io"] : Read(j) \/ Purge(j) \/ BeginReload(j) \/ EndReload(j)
               \/ \E j \in running["cpu"] : Decode(j)
    <2>1. /\ Read(job) \/ Purge(job) \/ BeginReload(job) \/ EndReload(job) => job \in running["io"]
          /\ Decode(job) => job \in running["cpu"]
      BY DEF Read, Purge, BeginReload, EndReload, Decode
    <2> QED  BY <1>1, <2>1
  <1> QED  BY <1>1 DEF WorkerStep

\* The jobs are as before.
LEMMA SameJobsStep ==
  ASSUME QueuesOK, IdsOK, UniqueIds, SameJobs
  PROVE  QueuesOK' /\ IdsOK' /\ UniqueIds' /\ (\A z \in Place : held'[z] = held[z])
  <1>1. \A z \in Place : held'[z] = held[z]
    BY HeldIs DEF SameJobs
  <1> QED  BY <1>1 DEF SameJobs, QueuesOK, IdsOK, UniqueIds, Unique

\* Ids stay below the next one.
LEMMA IdsStep ==
  ASSUME QueuesOK, IdsOK, NEW gone, NEW y \in Place, NEW new, JobStep(gone, y, new),
         nextJob' = nextJob \/ nextJob' = nextJob + 1,
         \A b \in new : b.id \in Nat /\ b.id < nextJob'
  PROVE  IdsOK'
  <1>1. nextJob \in Nat /\ nextJob' \in Nat /\ nextJob <= nextJob'
    BY DEF IdsOK
  <1>2. ASSUME NEW z \in Place, NEW c \in held'[z] PROVE c.id < nextJob'
    <2>1. c \in held[z] \/ c \in new
      BY DEF JobStep
    <2>2. CASE c \in held[z]
      <3>1. c.id \in Nat /\ c.id < nextJob
        BY <2>2, JobTypes DEF IdsOK
      <3> QED  BY <1>1, <3>1
    <2> QED  BY <2>1, <2>2
  <1> QED  BY <1>1, <1>2 DEF IdsOK

\* Every step keeps the jobs and their ids in order.
LEMMA JobsKept ==
  ASSUME TypeInv, UniqueIds, [Next]_vars
  PROVE  QueuesOK' /\ IdsOK' /\ UniqueIds'
  <1>1. /\ QueuesOK /\ IdsOK /\ UniqueIds /\ nextJob \in Nat
        /\ \A z \in Place : \A c \in held[z] : c.id \in Nat /\ c.id < nextJob
        /\ "ioWaiting" \in Place /\ "done" \in Place /\ "cpuWaiting" \in Place /\ "ioRunning" \in Place
        /\ \A q \in Queue : HandsOf(q) \in Place /\ QueueOf(q) \in Place
        /\ "io" \in Queue /\ "cpu" \in Queue
    BY JobTypes, HeldIs DEF TypeInv, IdsOK, Queue
  <1>2. SameJobs => QueuesOK' /\ IdsOK' /\ UniqueIds'
    BY <1>1, SameJobsStep
  <1>3. CASE UNCHANGED vars
    BY <1>2, <1>3 DEF vars, jobVars, SameJobs
  <1>4. ASSUME NEW k \in Key, NEW o \in Opts, Request(k, o) \/ ReloadNow(k, o)
        PROVE  QueuesOK' /\ IdsOK' /\ UniqueIds'
    BY <1>2, <1>4 DEF Request, ReloadNow, jobVars, SameJobs
  <1>5. ASSUME NEW s \in Slots, Cancel(s) PROVE QueuesOK' /\ IdsOK' /\ UniqueIds'
    BY <1>2, <1>5 DEF Cancel, SameJobs
  <1>6. ASSUME NEW k \in Key, Edit(k) PROVE QueuesOK' /\ IdsOK' /\ UniqueIds'
    BY <1>2, <1>6 DEF Edit, jobVars, SameJobs
  <1>7. CASE BeginPump(TRUE) \/ BeginPump(FALSE) \/ BeginDrain \/ NextPriority
    BY <1>2, <1>7 DEF BeginPump, BeginDrain, NextPriority, jobVars, SameJobs
  <1>8. ASSUME NEW k \in Key, NEW for \in {"reload", "purge"}, Command(k, for)
        PROVE  QueuesOK' /\ IdsOK' /\ UniqueIds'
    <2>1. PICK j \in CommandJob :
            /\ j.id = nextJob /\ JobStep({}, "ioWaiting", {j})
            /\ QueuesOK' /\ UniqueIds' /\ nextJob' = nextJob + 1
      BY <1>8, CommandEffect
    <2>2. \A b \in {j} : b.id \in Nat /\ b.id < nextJob'
      BY <1>1, <2>1
    <2> QED  BY <1>1, <2>1, <2>2, IdsStep
  <1>9. ASSUME NEW q \in Queue, Take(q) PROVE QueuesOK' /\ IdsOK' /\ UniqueIds'
    <2>1. PICK h \in held[QueueOf(q)] :
            JobStep({h}, HandsOf(q), IF h.id \in stopped THEN {} ELSE {h})
      BY <1>1, <1>9, TakeStep
    <2>2. QueuesOK' /\ UniqueIds' /\ nextJob' = nextJob
      BY <1>1, <1>9, TakeStep
    <2> DEFINE new == IF h.id \in stopped THEN {} ELSE {h}
    <2>3. \A b \in new : b.id \in Nat /\ b.id < nextJob'
      BY <1>1, <2>1, <2>2
    <2> HIDE DEF new
    <2>4. JobStep({h}, HandsOf(q), new)
      BY <2>1 DEF new
    <2> QED  BY <1>1, <2>2, <2>3, <2>4, IdsStep
  <1>10. ASSUME NEW job \in running["io"], Read(job) PROVE QueuesOK' /\ IdsOK' /\ UniqueIds'
    <2>1. PICK b \in ReadDone : b.id = job.id /\ JobStep({job}, "done", IF job.id \in stopped THEN {} ELSE {b})
      BY <1>10, ReadEffect
    <2>2. QueuesOK' /\ UniqueIds' /\ nextJob' = nextJob /\ job \in held["ioRunning"]
      BY <1>10, ReadEffect
    <2> DEFINE new == IF job.id \in stopped THEN {} ELSE {b}
    <2>3. \A c \in new : c.id \in Nat /\ c.id < nextJob'
      BY <1>1, <2>1, <2>2
    <2> HIDE DEF new
    <2>4. JobStep({job}, "done", new)
      BY <2>1 DEF new
    <2> QED  BY <1>1, <2>2, <2>3, <2>4, IdsStep
  <1>11. ASSUME NEW job \in running["cpu"], Decode(job) PROVE QueuesOK' /\ IdsOK' /\ UniqueIds'
    <2>1. /\ QueuesOK' /\ UniqueIds' /\ nextJob' = nextJob /\ job \in held["cpuRunning"]
          /\ "cpuRunning" \in Place
      BY <1>11, DecodeEffect, HeldIs
    <2>2. PICK new \in {{}, {job}} : JobStep({job}, "done", new)
      BY <1>11, DecodeEffect
    <2>3. \A c \in new : c.id \in Nat /\ c.id < nextJob'
      BY <1>1, <2>1, <2>2
    <2> QED  BY <1>1, <2>1, <2>2, <2>3, IdsStep
  <1>12. ASSUME NEW job \in running["io"], Purge(job) \/ EndReload(job)
         PROVE  QueuesOK' /\ IdsOK' /\ UniqueIds'
    <2>1. job.for \in {"purge", "reload", "watch"} /\ Complete("io", job, <<>>)
      BY <1>12 DEF Purge, EndReload
    <2>2. JobStep({job}, "done", {}) /\ QueuesOK' /\ UniqueIds' /\ nextJob' = nextJob
      BY <2>1, OverEffect
    <2> QED  BY <1>1, <2>2, IdsStep
  <1>13. ASSUME NEW job \in running["io"], BeginReload(job) PROVE QueuesOK' /\ IdsOK' /\ UniqueIds'
    <2>1. /\ QueuesOK' /\ UniqueIds' /\ nextJob' = nextJob /\ job \in held["ioRunning"]
      BY <1>13, BeginReloadEffect
    <2>2. PICK w \in CommandJob : w.id = job.id /\ \E new \in {{}, {w}} : JobStep({job}, "ioRunning", new)
      BY <1>13, BeginReloadEffect
    <2>3. PICK new \in {{}, {w}} : JobStep({job}, "ioRunning", new)
      BY <2>2
    <2>4. \A c \in new : c.id \in Nat /\ c.id < nextJob'
      BY <1>1, <2>1, <2>2, <2>3
    <2> QED  BY <1>1, <2>1, <2>3, <2>4, IdsStep
  <1>14. CASE Callback
    <2> DEFINE h == Head(channel)
               decode == [h EXCEPT !.id = nextJob, !.for = "decode"]
    <2>1. QueuesOK' /\ UniqueIds'
      BY <1>14, CallbackEffect
    <2>2. \/ JobStep({h}, "cpuWaiting", {}) /\ nextJob' = nextJob
          \/ decode.id = nextJob /\ JobStep({h}, "cpuWaiting", {decode}) /\ nextJob' = nextJob + 1
      BY <1>14, CallbackEffect
    <2> HIDE DEF h, decode
    <2>3. CASE JobStep({h}, "cpuWaiting", {}) /\ nextJob' = nextJob
      BY <1>1, <2>1, <2>3, IdsStep
    <2>4. CASE decode.id = nextJob /\ JobStep({h}, "cpuWaiting", {decode}) /\ nextJob' = nextJob + 1
      <3>1. \A c \in {decode} : c.id \in Nat /\ c.id < nextJob'
        BY <1>1, <2>4
      <3> QED  BY <1>1, <2>1, <2>4, <3>1, IdsStep
    <2> QED  BY <2>2, <2>3, <2>4
  <1>15. CASE Dispatch
    <2> DEFINE p == draining.prio
               s == Head(pend[p]).slot
    <2>1. QueuesOK' /\ UniqueIds' /\ (Waits(p) \/ Drops(p, s) \/ Starts(p, s) \/ Postpones(p, s))
      BY <1>15, DispatchEffect
    <2> HIDE DEF p, s
    <2>2. CASE Starts(p, s)
      <3>1. PICK j \in ReadJob : j.id = nextJob /\ JobStep({}, "ioWaiting", {j})
        BY <2>2 DEF Starts
      <3>2. nextJob' = nextJob + 1
        BY <2>2 DEF Starts
      <3>3. \A c \in {j} : c.id \in Nat /\ c.id < nextJob'
        BY <1>1, <3>1, <3>2
      <3> QED  BY <1>1, <2>1, <3>1, <3>2, <3>3, IdsStep
    <2>3. CASE Waits(p) \/ Drops(p, s) \/ Postpones(p, s)
      BY <1>2, <2>3 DEF Waits, Drops, Postpones, jobVars, SameJobs
    <2> QED  BY <2>1, <2>2, <2>3
  <1> QED  BY <1>3, <1>4, <1>5, <1>6, <1>7, <1>8, <1>9, <1>10, <1>11, <1>12, <1>13, <1>14, <1>15,
              WorkerCases
           DEF Next, FrameStep

\* Counters stay counters.
LEMMA CountsKept ==
  ASSUME TypeInv, UniqueIds, [Next]_vars
  PROVE  CountsOK'
  <1>1. /\ spent \in 0 .. Budget /\ Budget \in Nat /\ Cost \in Nat
        /\ commands \in Nat /\ reloads \in Nat /\ cancels \in Nat /\ panics \in Nat
    BY ConstantFacts DEF TypeInv, CountsOK
  <1>2. /\ commands' \in {commands, commands + 1} /\ reloads' \in {reloads, reloads + 1}
        /\ cancels' \in {cancels, cancels + 1} /\ panics' \in {panics, panics + 1}
        /\ spent' \in {spent, 0} \/ \E ms \in {0, Cost} : Spend(ms)
    <2>1. CASE UNCHANGED vars
      BY <2>1 DEF vars, counts
    <2>2. ASSUME NEW k \in Key, NEW o \in Opts, Request(k, o) \/ ReloadNow(k, o)
          PROVE  /\ commands' = commands /\ reloads' \in {reloads, reloads + 1}
                 /\ cancels' = cancels /\ panics' = panics /\ spent' = spent
      BY <2>2 DEF Request, ReloadNow, Register, Reload, Requeue, counts
    <2>3. ASSUME NEW s \in Slots, Cancel(s)
          PROVE  /\ commands' = commands /\ reloads' = reloads
                 /\ cancels' = cancels + 1 /\ panics' = panics /\ spent' = spent
      BY <2>3 DEF Cancel
    <2>4. ASSUME NEW k \in Key, NEW for \in {"reload", "purge"}, Command(k, for)
          PROVE  /\ commands' = commands + 1 /\ reloads' = reloads
                 /\ cancels' = cancels /\ panics' = panics /\ spent' = spent
      BY <2>4 DEF Command
    <2>5. ASSUME NEW k \in Key, Edit(k)
          PROVE  /\ commands' = commands /\ reloads' = reloads
                 /\ cancels' = cancels /\ panics' = panics /\ spent' = spent
      BY <2>5 DEF Edit
    <2>6. CASE \/ BeginPump(TRUE) \/ BeginPump(FALSE) \/ BeginDrain \/ NextPriority \/ Dispatch
               \/ \E q \in Queue : Take(q)
      BY <2>6 DEF BeginPump, BeginDrain, NextPriority, Dispatch, Take, counts, Reset
    <2>7. ASSUME NEW job, Read(job) \/ Decode(job) \/ Purge(job) \/ BeginReload(job) \/ EndReload(job)
          PROVE  /\ commands' = commands /\ reloads' = reloads
                 /\ cancels' = cancels /\ panics' \in {panics, panics + 1} /\ spent' = spent
      BY <2>7 DEF Read, Decode, Purge, BeginReload, EndReload, Register, Reload, Requeue, counts
    <2>8. CASE Callback
      BY <2>8 DEF Callback, ReadCallback, DecodeCallback, counts
    <2> QED  BY <2>1, <2>2, <2>3, <2>4, <2>5, <2>6, <2>7, <2>8, WorkerCases DEF Next, FrameStep
  <1>3. spent' \in 0 .. Budget
    BY <1>1, <1>2 DEF Spend
  <1> QED  BY <1>1, <1>2, <1>3 DEF CountsOK

\* What an accepted load or a purge records of the files.
LEMMA FilesKept ==
  ASSUME TypeInv, UniqueIds, [Next]_vars
  PROVE  FilesOK'
  <1> DEFINE Still == disk' = disk /\ edits' = edits /\ wanted' = wanted
             Marks == \E k \in Key : /\ disk' = disk /\ edits' = edits
                                     /\ wanted' = [wanted EXCEPT ![k] = disk[k].ver]
  <1>1. FilesOK /\ CacheOK
    BY DEF TypeInv
  <1>2. ASSUME NEW k \in Key, NEW o \in OptsType, Reload(k, o), edits' = edits
        PROVE  Still \/ Marks
    BY <1>1, <1>2, ReloadEffect DEF SameCache, Registers, Requeues
  <1>3. Still \/ Marks \/ \E k \in Key : Edit(k)
    <2>1. CASE UNCHANGED vars
      BY <2>1 DEF vars, counts, history
    <2>2. ASSUME NEW k \in Key, NEW o \in Opts, Request(k, o) PROVE Marks
      BY <2>2 DEF Request, Register, counts
    <2>3. ASSUME NEW k \in Key, NEW o \in Opts, ReloadNow(k, o) PROVE Still \/ Marks
      <3>1. o \in OptsType /\ Reload(k, o) /\ edits' = edits
        BY <2>3, ConstantFacts DEF ReloadNow
      <3> QED  BY <1>2, <3>1
    <2>4. ASSUME NEW s \in Slots, Cancel(s) PROVE Still
      BY <2>4 DEF Cancel
    <2>5. ASSUME NEW k \in Key, NEW for \in {"reload", "purge"}, Command(k, for) PROVE Still
      BY <2>5 DEF Command, history
    <2>6. CASE \/ BeginPump(TRUE) \/ BeginPump(FALSE) \/ BeginDrain \/ NextPriority \/ Dispatch
               \/ (\E q \in Queue : Take(q)) \/ Callback
      BY <2>6 DEF BeginPump, BeginDrain, NextPriority, Dispatch, Take, Callback, counts, history
    <2>7. ASSUME NEW job, Read(job) \/ Decode(job) \/ EndReload(job) PROVE Still
      BY <2>7 DEF Read, Decode, EndReload, counts, history
    <2>8. ASSUME NEW job \in running["io"], BeginReload(job) PROVE Still \/ Marks
      <3>1. job.key \in Key /\ HighBoot \in OptsType
        BY <2>8, BeginReloadEffect
      <3>2. Reload(job.key, HighBoot) /\ edits' = edits
        BY <2>8 DEF BeginReload, counts
      <3> QED  BY <1>2, <3>1, <3>2
    <2>9. ASSUME NEW job \in running["io"], Purge(job) PROVE Still \/ Marks
      <3>1. job \in CommandJob
        BY <2>9, OverEffect DEF Purge
      <3> QED  BY <2>9, <3>1 DEF Purge, CommandJob, counts, history
    <2> QED  BY <2>1, <2>2, <2>3, <2>4, <2>5, <2>6, <2>7, <2>8, <2>9, WorkerCases
             DEF Next, FrameStep
  <1>4. CASE Still
    BY <1>1, <1>4 DEF FilesOK
  <1>5. CASE Marks
    <2>1. PICK k \in Key : /\ disk' = disk /\ edits' = edits
                           /\ wanted' = [wanted EXCEPT ![k] = disk[k].ver]
      BY <1>5
    <2>2. disk[k].ver \in Nat /\ wanted \in [Key -> Nat] /\ disk \in [Key -> File]
          /\ \A m \in Key : wanted[m] <= disk[m].ver
      BY <1>1 DEF FilesOK, File
    <2>3. wanted' \in [Key -> Nat] /\ \A m \in Key : wanted'[m] <= disk[m].ver
      BY <2>1, <2>2
    <2> QED  BY <1>1, <2>1, <2>3 DEF FilesOK
  <1>6. ASSUME NEW k \in Key, Edit(k) PROVE FilesOK'
    <2>1. PICK kind \in FileKinds : disk' = [disk EXCEPT ![k] = [ver |-> disk[k].ver + 1, kind |-> kind]]
      BY <1>6 DEF Edit
    <2>2. edits < MaxEdits /\ edits' = edits + 1 /\ wanted' = wanted /\ MaxEdits \in Nat
      BY <1>6, ConstantFacts DEF Edit, history
    <2>3. /\ disk \in [Key -> File] /\ wanted \in [Key -> Nat] /\ edits \in 0 .. MaxEdits
          /\ disk[k].ver \in Nat
          /\ \A m \in Key : wanted[m] <= disk[m].ver /\ disk[m].ver <= edits
          /\ \A m \in Key : wanted[m] \in Nat /\ disk[m].ver \in Nat
      BY <1>1 DEF FilesOK, File
    <2>4. [ver |-> disk[k].ver + 1, kind |-> kind] \in File
      BY <2>3 DEF File
    <2>5. disk' \in [Key -> File]
      BY <2>1, <2>3, <2>4
    <2>6. \A m \in Key : disk'[m] = IF m = k THEN [ver |-> disk[k].ver + 1, kind |-> kind] ELSE disk[m]
      BY <2>1, <2>3
    <2>7. \A m \in Key : wanted[m] <= disk'[m].ver /\ disk'[m].ver <= edits + 1
      <3> SUFFICES ASSUME NEW m \in Key PROVE wanted[m] <= disk'[m].ver /\ disk'[m].ver <= edits + 1
        OBVIOUS
      <3>1. disk'[m].ver = IF m = k THEN disk[k].ver + 1 ELSE disk[m].ver
        BY <2>6
      <3> QED  BY <2>3, <3>1
    <2>8. edits + 1 \in 0 .. MaxEdits
      BY <2>2, <2>3
    <2> QED  BY <2>2, <2>3, <2>5, <2>7, <2>8 DEF FilesOK
  <1> QED  BY <1>3, <1>4, <1>5, <1>6

\* The draining of a pending queue keeps within its length.
LEMMA DrainKept ==
  ASSUME TypeInv, UniqueIds, [Next]_vars
  PROVE  DrainOK'
  <1>1. /\ CacheOK /\ DrainOK /\ draining.prio \in Priority /\ draining.left \in Nat
        /\ pend \in [Priority -> Seq(RequestType)]
        /\ \A p \in Priority : Len(pend[p]) \in Nat
    BY LenProperties DEF TypeInv, CacheOK, DrainOK
  <1> DEFINE Grows == /\ at' = at /\ draining' = draining
                      /\ Len(pend'[draining.prio]) \in {Len(pend[draining.prio]), Len(pend[draining.prio]) + 1}
  <1>2. Grows => DrainOK'
    BY <1>1 DEF DrainOK
  <1>3. ASSUME NEW s, NEW o, Queued(s, o), at' = at, draining' = draining PROVE Grows
    <2>1. CASE o.prio = draining.prio
      BY <1>1, <1>3, <2>1 DEF Queued
    <2>2. CASE o.prio # draining.prio
      BY <1>1, <1>3, <2>2 DEF Queued
    <2> QED  BY <2>1, <2>2
  <1>4. ASSUME NEW k \in Key, NEW o \in OptsType, Reload(k, o), at' = at, draining' = draining
        PROVE  Grows
    <2>1. SameCache \/ Registers(k, o) \/ Requeues(k, o)
      BY <1>1, <1>4, ReloadEffect
    <2>2. CASE pend' = pend
      BY <1>1, <1>4, <2>2
    <2>3. CASE \E s : Queued(s, o)
      BY <1>3, <1>4, <2>3
    <2> QED  BY <2>1, <2>2, <2>3 DEF SameCache, Registers, Requeues
  <1>5. CASE UNCHANGED vars
    BY <1>2, <1>1, <1>5 DEF vars, frameVars
  <1>6. ASSUME NEW k \in Key, NEW o \in Opts, Request(k, o) \/ ReloadNow(k, o) PROVE DrainOK'
    <2>1. o \in OptsType /\ at' = at /\ draining' = draining
      BY <1>6, ConstantFacts DEF Request, ReloadNow, frameVars
    <2>2. Reload(k, o)
      BY <1>6 DEF Request, ReloadNow, Reload, Register
    <2> QED  BY <1>2, <1>4, <2>1, <2>2
  <1>7. CASE \/ \E s \in Slots : Cancel(s)
             \/ \E k \in Key, for \in {"reload", "purge"} : Command(k, for)
             \/ \E k \in Key : Edit(k)
             \/ \E q \in Queue : Take(q)
             \/ Callback
    <2>1. at' = at /\ draining' = draining /\ pend' = pend
      BY <1>7 DEF Cancel, Command, Edit, Take, Callback, frameVars
    <2> QED  BY <1>1, <1>2, <2>1
  <1>8. ASSUME NEW job, Read(job) \/ Decode(job) \/ Purge(job) \/ EndReload(job) PROVE DrainOK'
    <2>1. at' = at /\ draining' = draining /\ pend' = pend
      BY <1>8 DEF Read, Decode, Purge, EndReload, frameVars
    <2> QED  BY <1>1, <1>2, <2>1
  <1>9. ASSUME NEW job \in running["io"], BeginReload(job) PROVE DrainOK'
    <2>1. job.key \in Key /\ HighBoot \in OptsType
      BY <1>9, BeginReloadEffect
    <2>2. Reload(job.key, HighBoot) /\ at' = at /\ draining' = draining
      BY <1>9 DEF BeginReload, frameVars
    <2> QED  BY <1>2, <1>4, <2>1, <2>2
  <1>10. CASE BeginPump(TRUE) \/ BeginPump(FALSE)
    <2>1. at' = "pump" /\ draining' = draining /\ pend' = pend
      BY <1>10 DEF BeginPump
    <2> QED  BY <1>1, <2>1 DEF DrainOK
  <1>11. CASE BeginDrain
    <2>1. at' = "drain" /\ draining' = [prio |-> 1, left |-> Len(pend[1])] /\ pend' = pend /\ 1 \in Priority
      BY <1>11, PriorityFacts DEF BeginDrain
    <2> QED  BY <1>1, <2>1 DEF DrainOK
  <1>12. CASE NextPriority
    <2> DEFINE p == draining.prio
    <2>1. CASE p = Max(Priority)
      <3>1. at' = "idle" /\ draining' = draining /\ pend' = pend
        BY <1>12, <2>1 DEF NextPriority
      <3> QED  BY <1>1, <3>1 DEF DrainOK
    <2>2. CASE p # Max(Priority)
      <3>1. p + 1 \in Priority
        BY <1>1, <2>2, PriorityFacts
      <3>2. at' = at /\ draining' = [prio |-> p + 1, left |-> Len(pend[p + 1])] /\ pend' = pend
        BY <1>12, <2>2 DEF NextPriority
      <3> DEFINE n == p + 1
      <3>3. n \in Priority /\ draining' = [prio |-> n, left |-> Len(pend[n])] /\ Len(pend[n]) \in Nat
        BY <1>1, <3>1, <3>2
      <3> HIDE DEF n
      <3> QED  BY <1>1, <3>2, <3>3 DEF DrainOK
    <2> QED  BY <2>1, <2>2
  <1>13. CASE Dispatch
    <2> DEFINE p == draining.prio
               w == pend[p]
               s == Head(w).slot
    <2>1. /\ w # <<>> /\ w \in Seq(RequestType)
          /\ draining' = [draining EXCEPT !.left = draining.left - 1] /\ draining.left > 0
          /\ Waits(p) \/ Drops(p, s) \/ Starts(p, s) \/ Postpones(p, s)
          /\ at' = at
      BY <1>13, DispatchEffect DEF Dispatch
    <2> HIDE DEF p, w, s
    <2>2. Dequeued(p) \/ Rotated(p)
      BY <2>1 DEF Waits, Drops, Starts, Postpones
    <2>3. /\ Tail(w) \in Seq(RequestType) /\ Len(Tail(w)) = Len(w) - 1 /\ Len(w) \in Nat \ {0}
          /\ Head(w) \in RequestType
      BY <2>1, QueueTail
    <2>4. Len(Append(Tail(w), Head(w))) = Len(w)
      <3>1. Len(Append(Tail(w), Head(w))) = Len(Tail(w)) + 1
        BY <2>3, QueueAppend
      <3> QED  BY <2>3, <3>1
    <2>5. Len(pend'[p]) \in {Len(w) - 1, Len(w)}
      BY <2>2, <2>3, <2>4 DEF Dequeued, Rotated, w
    <2>6. p = draining.prio /\ draining.left <= Len(w) /\ Len(w) \in Nat
      BY <1>1, <2>3 DEF DrainOK, p, w
    <2>7. /\ draining' \in [prio : Priority, left : Nat] /\ draining'.prio = p
          /\ draining'.left = draining.left - 1
      <3> DEFINE n == draining.left - 1
      <3>1. n \in Nat /\ draining \in [prio : Priority, left : Nat]
        BY <1>1, <2>1 DEF DrainOK
      <3>2. draining' = [draining EXCEPT !.left = n]
        BY <2>1
      <3> HIDE DEF n
      <3>3. /\ draining' \in [prio : Priority, left : Nat] /\ draining'.prio = draining.prio
            /\ draining'.left = n
        BY <3>1, <3>2
      <3> QED  BY <2>6, <3>3 DEF n
    <2>8. draining'.left <= Len(pend'[draining'.prio])
      BY <1>1, <2>5, <2>6, <2>7
    <2> QED  BY <1>1, <2>1, <2>7, <2>8 DEF DrainOK
  <1> QED  BY <1>5, <1>6, <1>7, <1>8, <1>9, <1>10, <1>11, <1>12, <1>13, WorkerCases
           DEF Next, FrameStep

-----------------------------------------------------------------------------
(* What is left of a step when only the loads are looked at.               *)

LoadStep(gone, y, new) ==
  \A z \in Place : LoadIn(z)' = (LoadIn(z) \ gone) \cup (IF z = y THEN new ELSE {})
SameLoads == \A z \in Place : LoadIn(z)' = LoadIn(z)
Others == UNCHANGED <<stopped, cancels, panics>>

LEMMA LoadStepOf ==
  ASSUME NEW gone, NEW y, NEW new, JobStep(gone, y, new), \A b \in new : b.for \in Load
  PROVE  LoadStep(gone, y, new)
  <1>1. ASSUME NEW z \in Place
        PROVE  LoadIn(z)' = (LoadIn(z) \ gone) \cup (IF z = y THEN new ELSE {})
    <2>1. held'[z] = (held[z] \ gone) \cup (IF z = y THEN new ELSE {})
      BY DEF JobStep
    <2>2. LoadIn(z)' = {j \in held'[z] : j.for \in Load} /\ LoadIn(z) = {j \in held[z] : j.for \in Load}
      BY DEF LoadIn
    <2> HIDE DEF held
    <2> QED  BY <2>1, <2>2
  <1> QED  BY <1>1 DEF LoadStep

LEMMA SameLoadsOf ==
  ASSUME NEW gone, NEW y, NEW new, JobStep(gone, y, new),
         \A b \in new : b.for \notin Load, \A b \in gone : b.for \notin Load
  PROVE  SameLoads
  <1>1. ASSUME NEW z \in Place PROVE LoadIn(z)' = LoadIn(z)
    <2>1. held'[z] = (held[z] \ gone) \cup (IF z = y THEN new ELSE {})
      BY DEF JobStep
    <2>2. LoadIn(z)' = {j \in held'[z] : j.for \in Load} /\ LoadIn(z) = {j \in held[z] : j.for \in Load}
      BY DEF LoadIn
    <2> QED  BY <2>1, <2>2
  <1> QED  BY <1>1 DEF SameLoads

\* The kinds of steps.
IdleStep == SameCache /\ SameLoads /\ Others
ReloadStep ==
  /\ \E k \in Key, o \in OptsType : Registers(k, o) \/ Requeues(k, o)
  /\ SameLoads /\ Others
PurgeStep == (\E k \in Key : Purges(k)) /\ SameLoads /\ Others
CancelStep == (\E s \in Slots : Cancellation(s)) /\ SameLoads

\* A load goes on, with the file if it was a read, or is lost.
Onwards(j, b) ==
  /\ b.id = j.id /\ b.slot = j.slot /\ b.for = j.for
  /\ b.data = j.data \/ b.data = disk[slot[j.slot].key]
MoveStep ==
  /\ \E x \in Place \ {"done"}, y \in Place : \E j \in LoadIn(x) : \E b :
       Onwards(j, b) /\ LoadStep({j}, y, {b}) /\ j.id \notin stopped
  /\ SameCache /\ Others
LossStep ==
  /\ \E x \in Place \ {"done"}, y \in Place : \E j \in LoadIn(x) :
       /\ LoadStep({j}, y, {})
       /\ (j.id \in stopped /\ panics' = panics) \/ panics' = panics + 1
  /\ SameCache /\ UNCHANGED <<stopped, cancels>>

\* A completion's callback: the load fails, goes on to a decoder or is published.
Fails(h) == OneSlot(h.slot, Failed(slot[h.slot])) /\ LoadStep({h}, "cpuWaiting", {})
GoesOn(h) ==
  /\ OneSlot(h.slot, WithJob(slot[h.slot], nextJob)) /\ ~slot[h.slot].cancelled
  /\ \E b : /\ b.id = nextJob /\ b.slot = h.slot /\ b.for = "decode" /\ b.data = h.data
            /\ LoadStep({h}, "cpuWaiting", {b})
  /\ nextJob' = nextJob + 1
Publishes(h) ==
  /\ h = Head(channel) /\ h.for = "decode" /\ h.data \in File
  /\ OneSlot(h.slot, Finished(slot[h.slot], h.data.ver)) /\ LoadStep({h}, "cpuWaiting", {})
BackStep ==
  /\ \E h \in LoadIn("done") : h.slot \in Slots /\ (Fails(h) \/ GoesOn(h) \/ Publishes(h))
  /\ UNCHANGED <<entries, pend, wanted, tooLate>> /\ Others

\* A round of drain_pending.
BeginsLoad(s) ==
  \E j : /\ j.id = nextJob /\ j.slot = s /\ j.for = "read" /\ j.data = None
         /\ LoadStep({}, "ioWaiting", {j})
DrainStep ==
  /\ \E p \in Priority : \E s \in Slots :
       /\ pend[p] # <<>> /\ pend[p] \in Seq(RequestType) /\ s = Head(pend[p]).slot
       /\ \/ Waits(p) /\ SameLoads
          \/ Drops(p, s) /\ SameLoads
          \/ Starts(p, s) /\ BeginsLoad(s)
          \/ Postpones(p, s) /\ SameLoads
  /\ UNCHANGED <<entries, wanted, tooLate>> /\ Others

AnyStep ==
  \/ IdleStep \/ ReloadStep \/ PurgeStep \/ CancelStep \/ MoveStep \/ LossStep
  \/ BackStep \/ DrainStep

LEMMA SameJobsLoads == ASSUME SameJobs PROVE SameLoads
  BY HeldIs DEF SameJobs, SameLoads, LoadIn

LEMMA CommandsNoLoads ==
  \A j : /\ j \in CommandJob => j.for \notin Load
         /\ j \in ReadJob => j.for = "read"
         /\ j \in ReadDone => j.for = "read"
         /\ j \in DecodeJob => j.for = "decode"
  BY DEF CommandJob, ReadJob, ReadDone, DecodeJob, Load

\* A worker takes a job.
LEMMA TakeKind ==
  ASSUME TypeInv, UniqueIds, NEW q \in Queue, Take(q)
  PROVE  IdleStep \/ MoveStep \/ LossStep
  <1>1. PICK h \in held[QueueOf(q)] : JobStep({h}, HandsOf(q), IF h.id \in stopped THEN {} ELSE {h})
    BY TakeStep DEF TypeInv
  <1>2. SameCache /\ Others
    BY DEF Take, SameCache, Others, history, counts
  <1>3. /\ QueueOf(q) \in Place \ {"done"} /\ HandsOf(q) \in Place
    BY HeldIs DEF QueueOf
  <1> DEFINE new == IF h.id \in stopped THEN {} ELSE {h}
  <1>4. JobStep({h}, HandsOf(q), new) /\ new \subseteq {h}
    BY <1>1
  <1>5. CASE h.for \notin Load
    <2> HIDE DEF new
    <2>1. SameLoads
      BY <1>4, <1>5, SameLoadsOf
    <2> QED  BY <1>2, <2>1 DEF IdleStep
  <1>6. CASE h.for \in Load
    <2>1. LoadStep({h}, HandsOf(q), new)
      <3> HIDE DEF new
      <3> QED  BY <1>4, <1>6, LoadStepOf
    <2>2. h \in LoadIn(QueueOf(q))
      BY <1>1, <1>6 DEF LoadIn
    <2>3. CASE h.id \in stopped
      <3>1. LoadStep({h}, HandsOf(q), {})
        BY <2>1, <2>3
      <3> QED  BY <1>2, <1>3, <2>2, <2>3, <3>1 DEF LossStep, Others
    <2>4. CASE h.id \notin stopped
      <3>1. LoadStep({h}, HandsOf(q), {h}) /\ Onwards(h, h)
        BY <2>1, <2>4 DEF Onwards
      <3> QED  BY <1>2, <1>3, <2>2, <2>4, <3>1 DEF MoveStep
    <2> QED  BY <2>3, <2>4
  <1> QED  BY <1>5, <1>6

\* A worker reads a file.
LEMMA ReadKind ==
  ASSUME TypeInv, UniqueIds, NEW job \in running["io"], Read(job)
  PROVE  MoveStep \/ LossStep
  <1>1. PICK b \in ReadDone :
          /\ b.id = job.id /\ b.slot = job.slot /\ b.for = "read" /\ b.data = disk[slot[job.slot].key]
          /\ JobStep({job}, "done", IF job.id \in stopped THEN {} ELSE {b})
    BY ReadEffect
  <1>2. job \in held["ioRunning"] /\ job.for = "read" /\ job \in LoadIn("ioRunning")
    <2>1. job \in held["ioRunning"] /\ job \in ReadJob
      BY ReadEffect
    <2> QED  BY <2>1, CommandsNoLoads DEF LoadIn, Load
  <1>3. SameCache /\ Others
    BY ReadEffect DEF Read, SameCache, Others, history, counts
  <1>4. "ioRunning" \in Place \ {"done"} /\ "done" \in Place
    BY HeldIs
  <1>5. b.for \in Load
    BY <1>1 DEF Load
  <1>6. CASE job.id \in stopped
    <2>1. JobStep({job}, "done", {})
      BY <1>1, <1>6
    <2>2. LoadStep({job}, "done", {})
      BY <2>1, LoadStepOf
    <2> QED  BY <1>2, <1>3, <1>4, <1>6, <2>2 DEF LossStep, Others
  <1>7. CASE job.id \notin stopped
    <2>1. JobStep({job}, "done", {b})
      BY <1>1, <1>7
    <2>2. LoadStep({job}, "done", {b})
      BY <1>5, <2>1, LoadStepOf
    <2>3. Onwards(job, b)
      BY <1>1, <1>2 DEF Onwards
    <2> QED  BY <1>2, <1>3, <1>4, <1>7, <2>2, <2>3 DEF MoveStep
  <1> QED  BY <1>6, <1>7

\* A worker decodes.
LEMMA DecodeKind ==
  ASSUME TypeInv, UniqueIds, NEW job \in running["cpu"], Decode(job)
  PROVE  MoveStep \/ LossStep
  <1>1. /\ job \in DecodeJob /\ job \in held["cpuRunning"] /\ stopped' = stopped
        /\ \/ JobStep({job}, "done", IF job.id \in stopped THEN {} ELSE {job}) /\ panics' = panics
           \/ JobStep({job}, "done", {}) /\ panics' = panics + 1
    BY DecodeEffect
  <1>2. job.for = "decode" /\ job.for \in Load /\ job \in LoadIn("cpuRunning")
    BY <1>1, CommandsNoLoads DEF LoadIn, Load
  <1>3. SameCache /\ UNCHANGED <<stopped, cancels>>
    BY <1>1 DEF Decode, SameCache, history
  <1>4. "cpuRunning" \in Place \ {"done"} /\ "done" \in Place
    BY HeldIs
  <1>5. CASE JobStep({job}, "done", {}) /\ ((job.id \in stopped /\ panics' = panics) \/ panics' = panics + 1)
    <2>1. LoadStep({job}, "done", {})
      BY <1>5, LoadStepOf
    <2> QED  BY <1>2, <1>3, <1>4, <1>5, <2>1 DEF LossStep
  <1>6. CASE JobStep({job}, "done", {job}) /\ job.id \notin stopped /\ panics' = panics
    <2>1. LoadStep({job}, "done", {job}) /\ Onwards(job, job)
      BY <1>2, <1>6, LoadStepOf DEF Onwards
    <2> QED  BY <1>2, <1>3, <1>4, <1>6, <2>1 DEF MoveStep, Others
  <1>7. CASE job.id \in stopped
    BY <1>1, <1>5, <1>7
  <1>8. CASE job.id \notin stopped
    BY <1>1, <1>5, <1>6, <1>8
  <1> QED  BY <1>7, <1>8

\* A console command on its worker.
LEMMA CommandKind ==
  ASSUME TypeInv, UniqueIds, NEW job \in running["io"],
         Purge(job) \/ BeginReload(job) \/ EndReload(job)
  PROVE  IdleStep \/ ReloadStep \/ PurgeStep
  <1>1. CacheOK
    BY DEF TypeInv
  <1>2. ASSUME NEW y, NEW new, JobStep({job}, y, new), \A b \in new : b \in CommandJob,
               job \in CommandJob
        PROVE  SameLoads
    BY <1>2, CommandsNoLoads, SameLoadsOf
  <1>3. CASE Purge(job) \/ EndReload(job)
    <2>1. job.for \in {"purge", "reload", "watch"} /\ Complete("io", job, <<>>)
      BY <1>3 DEF Purge, EndReload
    <2>2. job \in CommandJob /\ JobStep({job}, "done", {}) /\ stopped' = stopped
      BY <2>1, OverEffect
    <2>3. SameLoads /\ job.key \in Key
      BY <1>2, <2>2 DEF CommandJob
    <2>4. CASE Purge(job)
      <3>1. SameCache \/ Purges(job.key)
        BY <1>1, <2>3, <2>4, PurgeEffect
      <3>2. Others
        BY <2>2, <2>4 DEF Purge, Others, counts
      <3> QED  BY <2>3, <3>1, <3>2 DEF IdleStep, PurgeStep
    <2>5. CASE EndReload(job)
      <3>1. SameCache /\ Others
        BY <2>2, <2>5 DEF EndReload, SameCache, Others, history, counts
      <3> QED  BY <2>3, <3>1 DEF IdleStep
    <2> QED  BY <1>3, <2>4, <2>5
  <1>4. CASE BeginReload(job)
    <2>1. job \in CommandJob /\ job.key \in Key /\ stopped' = stopped /\ HighBoot \in OptsType
      BY <1>4, BeginReloadEffect
    <2>2. PICK w \in CommandJob : \E new \in {{}, {w}} : JobStep({job}, "ioRunning", new)
      BY <1>4, BeginReloadEffect
    <2>3. SameLoads
      BY <1>2, <2>1, <2>2
    <2>4. Reload(job.key, HighBoot) /\ Others
      BY <1>4, <2>1 DEF BeginReload, Others, counts
    <2>5. SameCache \/ Registers(job.key, HighBoot) \/ Requeues(job.key, HighBoot)
      BY <1>1, <2>1, <2>4, ReloadEffect
    <2> QED  BY <2>1, <2>3, <2>4, <2>5 DEF IdleStep, ReloadStep
  <1> QED  BY <1>3, <1>4

\* A callback.
LEMMA BackKind ==
  ASSUME TypeInv, UniqueIds, Callback
  PROVE  BackStep
  <1>1. PICK h \in ReadDone \cup DecodeJob :
          LET s == h.slot
              decode == [h EXCEPT !.id = nextJob, !.for = "decode"]
          IN /\ h = Head(channel) /\ h \in held["done"] /\ h \in Loads /\ s \in Slots
             /\ stopped' = stopped
             /\ \/ OneSlot(s, Failed(slot[s])) /\ JobStep({h}, "cpuWaiting", {})
                \/ /\ OneSlot(s, WithJob(slot[s], nextJob)) /\ ~slot[s].cancelled
                   /\ decode \in DecodeJob /\ decode.id = nextJob /\ decode.slot = s
                   /\ decode.data = h.data
                   /\ JobStep({h}, "cpuWaiting", {decode}) /\ nextJob' = nextJob + 1
                \/ /\ h \in DecodeJob /\ OneSlot(s, Finished(slot[s], h.data.ver))
                   /\ JobStep({h}, "cpuWaiting", {})
    BY CallbackEffect
  <1>2. UNCHANGED <<entries, pend, wanted, tooLate>> /\ Others
    BY <1>1 DEF Callback, Others, history, counts
  <1>3. h \in LoadIn("done")
    <2>1. h.for \in Load
      BY CommandsNoLoads DEF Load
    <2> QED  BY <1>1, <2>1 DEF LoadIn
  <1>4. JobStep({h}, "cpuWaiting", {}) => LoadStep({h}, "cpuWaiting", {})
    BY LoadStepOf
  <1>5. CASE OneSlot(h.slot, Failed(slot[h.slot])) /\ JobStep({h}, "cpuWaiting", {})
    BY <1>1, <1>2, <1>3, <1>4, <1>5 DEF BackStep, Fails
  <1> DEFINE d == [h EXCEPT !.id = nextJob, !.for = "decode"]
  <1>6. CASE /\ OneSlot(h.slot, WithJob(slot[h.slot], nextJob)) /\ ~slot[h.slot].cancelled
             /\ d \in DecodeJob /\ d.id = nextJob /\ d.slot = h.slot /\ d.data = h.data
             /\ JobStep({h}, "cpuWaiting", {d}) /\ nextJob' = nextJob + 1
    <2> HIDE DEF d
    <2>1. d.for = "decode" /\ d.for \in Load
      BY <1>6, CommandsNoLoads DEF Load
    <2>2. LoadStep({h}, "cpuWaiting", {d})
      BY <1>6, <2>1, LoadStepOf
    <2>3. GoesOn(h)
      BY <1>6, <2>1, <2>2 DEF GoesOn
    <2> QED  BY <1>1, <1>2, <1>3, <2>3 DEF BackStep
  <1>7. CASE /\ h \in DecodeJob /\ OneSlot(h.slot, Finished(slot[h.slot], h.data.ver))
             /\ JobStep({h}, "cpuWaiting", {})
    <2>1. h.for = "decode" /\ h.data \in File
      BY <1>7 DEF DecodeJob
    <2>2. Publishes(h)
      BY <1>1, <1>4, <1>7, <2>1 DEF Publishes
    <2> QED  BY <1>1, <1>2, <1>3, <2>2 DEF BackStep
  <1> QED  BY <1>1, <1>5, <1>6, <1>7

\* A round of drain_pending.
LEMMA DrainKind ==
  ASSUME TypeInv, UniqueIds, Dispatch
  PROVE  DrainStep
  <1> DEFINE p == draining.prio
             req == Head(pend[p])
             s == req.slot
  <1>1. /\ p \in Priority /\ pend[p] # <<>> /\ pend[p] \in Seq(RequestType) /\ s \in Slots
        /\ Waits(p) \/ Drops(p, s) \/ Starts(p, s) \/ Postpones(p, s)
    BY DispatchEffect
  <1> HIDE DEF p
  <1>2. UNCHANGED <<entries, wanted, tooLate, cancels, panics>>
    BY DEF Dispatch, history, counts
  <1>3. UNCHANGED jobVars => SameLoads /\ stopped' = stopped
    BY SameJobsLoads DEF jobVars, SameJobs
  <1>4. CASE Starts(p, s)
    <2>1. PICK j \in ReadJob : /\ j.id = nextJob /\ j.slot = s /\ j.data = None
                               /\ JobStep({}, "ioWaiting", {j})
      BY <1>4 DEF Starts
    <2>2. j.for = "read" /\ j.for \in Load
      BY CommandsNoLoads DEF Load
    <2>3. LoadStep({}, "ioWaiting", {j})
      BY <2>1, <2>2, LoadStepOf
    <2>4. BeginsLoad(s) /\ stopped' = stopped
      BY <1>4, <2>1, <2>2, <2>3 DEF BeginsLoad, Starts
    <2> QED  BY <1>1, <1>2, <1>4, <2>4 DEF DrainStep, Others
  <1>5. CASE Waits(p)
    BY <1>1, <1>2, <1>3, <1>5 DEF DrainStep, Others, Waits
  <1>6. CASE Drops(p, s)
    BY <1>1, <1>2, <1>3, <1>6 DEF DrainStep, Others, Drops
  <1>7. CASE Postpones(p, s)
    BY <1>1, <1>2, <1>3, <1>7 DEF DrainStep, Others, Postpones
  <1> QED  BY <1>1, <1>4, <1>5, <1>6, <1>7

\* Every step is of one of these kinds.
LEMMA StepKinds ==
  ASSUME TypeInv, UniqueIds, [Next]_vars
  PROVE  AnyStep
  <1>1. CacheOK /\ QueuesOK /\ IdsOK
    BY DEF TypeInv
  <1>2. ASSUME SameCache, SameJobs, Others PROVE AnyStep
    BY <1>2, SameJobsLoads DEF AnyStep, IdleStep
  <1>3. CASE UNCHANGED vars
    BY <1>2, <1>3 DEF vars, jobVars, SameCache, SameJobs, Others, history, counts
  <1>4. ASSUME NEW k \in Key, NEW o \in Opts, Request(k, o) \/ ReloadNow(k, o) PROVE AnyStep
    <2>1. o \in OptsType /\ SameJobs /\ Others
      BY <1>4, ConstantFacts DEF Request, ReloadNow, jobVars, SameJobs, Others, counts
    <2>2. Reload(k, o)
      BY <1>4 DEF Request, ReloadNow, Reload, Register
    <2>3. SameCache \/ Registers(k, o) \/ Requeues(k, o)
      BY <1>1, <2>1, <2>2, ReloadEffect
    <2> QED  BY <1>2, <2>1, <2>3, SameJobsLoads DEF AnyStep, ReloadStep
  <1>5. ASSUME NEW s \in Slots, Cancel(s) PROVE AnyStep
    BY <1>1, <1>5, CancelEffect, SameJobsLoads DEF AnyStep, CancelStep
  <1>6. ASSUME NEW k \in Key, NEW for \in {"reload", "purge"}, Command(k, for) PROVE AnyStep
    <2>1. PICK j \in CommandJob : JobStep({}, "ioWaiting", {j})
      BY <1>6, CommandEffect
    <2>2. SameLoads
      BY <2>1, CommandsNoLoads, SameLoadsOf
    <2>3. SameCache /\ Others
      BY <1>6 DEF Command, Put, SameCache, Others, history
    <2> QED  BY <2>2, <2>3 DEF AnyStep, IdleStep
  <1>7. CASE \/ BeginPump(TRUE) \/ BeginPump(FALSE) \/ BeginDrain \/ NextPriority
             \/ \E k \in Key : Edit(k)
    <2>1. SameCache /\ SameJobs /\ Others
      BY <1>7 DEF BeginPump, BeginDrain, NextPriority, Edit, SameCache, SameJobs, Others, history,
                  counts, jobVars
    <2> QED  BY <1>2, <2>1
  <1>8. CASE Callback
    BY <1>8, BackKind DEF AnyStep
  <1>9. CASE Dispatch
    BY <1>9, DrainKind DEF AnyStep
  <1>10. ASSUME NEW q \in Queue, WorkerStep(q) PROVE AnyStep
    BY <1>10, WorkerCases, TakeKind, ReadKind, DecodeKind, CommandKind DEF AnyStep
  <1> QED  BY <1>3, <1>4, <1>5, <1>6, <1>7, <1>8, <1>9, <1>10 DEF Next, FrameStep

-----------------------------------------------------------------------------
(* Shapes of the cache, by the kinds of steps.                             *)

LEMMA NextJobGrows ==
  ASSUME [Next]_vars
  PROVE  nextJob' \in {nextJob, nextJob + 1}
  <1>1. CASE UNCHANGED vars
    BY <1>1 DEF vars, jobVars
  <1>2. ASSUME NEW k \in Key, NEW o \in Opts, Request(k, o) \/ ReloadNow(k, o) PROVE nextJob' = nextJob
    BY <1>2 DEF Request, ReloadNow, jobVars
  <1>3. CASE \/ \E s \in Slots : Cancel(s)
             \/ \E k \in Key, for \in {"reload", "purge"} : Command(k, for)
             \/ \E k \in Key : Edit(k)
             \/ \E q \in Queue : Take(q)
    BY <1>3 DEF Cancel, Command, Put, Edit, Take, jobVars
  <1>4. ASSUME NEW job, Read(job) \/ Decode(job) \/ Purge(job) \/ BeginReload(job) \/ EndReload(job)
        PROVE  nextJob' = nextJob
    BY <1>4 DEF Read, Decode, Purge, BeginReload, EndReload, Complete
  <1>5. CASE BeginPump(TRUE) \/ BeginPump(FALSE) \/ BeginDrain \/ NextPriority
    BY <1>5 DEF BeginPump, BeginDrain, NextPriority, jobVars
  <1>6. CASE Callback
    BY <1>6 DEF Callback, ReadCallback, DecodeCallback
  <1>7. CASE Dispatch
    BY <1>7 DEF Dispatch, Put, jobVars
  <1> QED  BY <1>1, <1>2, <1>3, <1>4, <1>5, <1>6, <1>7, WorkerCases DEF Next, FrameStep

LEMMA LoadsOfStep ==
  ASSUME NEW gone, NEW y, NEW new, LoadStep(gone, y, new)
  PROVE  /\ Loads' \subseteq Loads \cup new
         /\ Loads \ gone \subseteq Loads'
         /\ y \in Place => new \subseteq Loads'
  <1>1. /\ Loads' = UNION {LoadIn(x)' : x \in Place} /\ Loads = UNION {LoadIn(x) : x \in Place}
    BY DEF Loads
  <1>2. \A z \in Place : LoadIn(z)' = (LoadIn(z) \ gone) \cup (IF z = y THEN new ELSE {})
    BY DEF LoadStep
  <1>3. Loads' \subseteq Loads \cup new
    BY <1>1, <1>2
  <1>4. Loads \ gone \subseteq Loads'
    BY <1>1, <1>2
  <1>5. y \in Place => new \subseteq Loads'
    BY <1>1, <1>2
  <1> QED  BY <1>3, <1>4, <1>5

LEMMA SameLoadsStep ==
  ASSUME SameLoads
  PROVE  Loads' = Loads
  BY DEF SameLoads, Loads

\* Slots keep their keys, and the jobs they refer to are theirs or the next.
SlotLinks ==
  /\ slot' \in Seq(SlotType) /\ Slots \subseteq DOMAIN slot'
  /\ \A t \in Slots : slot'[t].key = slot[t].key
  /\ \A t \in DOMAIN slot' :
       \/ slot'[t].job = None
       \/ t \in Slots /\ slot'[t].job = slot[t].job
       \/ slot'[t].job = nextJob /\ nextJob' = nextJob + 1

LEMMA OneSlotLinks ==
  ASSUME NEW s, NEW v, OneSlot(s, v), v.key = slot[s].key,
         v.job \in {None, slot[s].job} \/ (v.job = nextJob /\ nextJob' = nextJob + 1)
  PROVE  SlotLinks
  BY DEF OneSlot, SlotLinks

LEMMA LinksOfStep ==
  ASSUME TypeInv, AnyStep
  PROVE  SlotLinks
  <1>1. slot \in Seq(SlotType) /\ nextJob \in Nat
    BY DEF TypeInv, CacheOK, IdsOK
  <1>2. slot' = slot => SlotLinks
    BY <1>1 DEF SlotLinks, Slots
  <1>3. CASE IdleStep \/ MoveStep \/ LossStep
    BY <1>2, <1>3 DEF IdleStep, MoveStep, LossStep, SameCache
  <1>4. CASE ReloadStep
    <2>1. PICK k \in Key, o \in OptsType : Registers(k, o) \/ Requeues(k, o)
      BY <1>4 DEF ReloadStep
    <2>2. CASE Registers(k, o)
      <3>1. Made(k) /\ MadeSlot(k).job = None
        BY <2>2, MadeSlotIs DEF Registers
      <3> QED  BY <3>1 DEF Made, SlotLinks
    <2>3. CASE Requeues(k, o)
      <3> DEFINE s == entries[k]
                 v == Reloading(slot[s])
      <3>1. OneSlot(s, v) /\ slot[s] \in SlotType
        BY <2>3 DEF Requeues, OneSlot
      <3>2. v.key = slot[s].key /\ v.job = None
        BY <3>1, ReloadingIs
      <3> HIDE DEF s, v
      <3> QED  BY <3>1, <3>2, OneSlotLinks
    <2> QED  BY <2>1, <2>2, <2>3
  <1>5. CASE PurgeStep
    <2>1. PICK k \in Key : Purges(k)
      BY <1>5 DEF PurgeStep
    <2> DEFINE s == entries[k]
               v == Purged(slot[s])
    <2>2. OneSlot(s, v) /\ slot[s] \in SlotType
      BY <2>1 DEF Purges, OneSlot
    <2>3. v.key = slot[s].key /\ v.job = slot[s].job
      BY <2>2, PurgedIs
    <2> HIDE DEF s, v
    <2> QED  BY <2>2, <2>3, OneSlotLinks
  <1>6. CASE CancelStep
    <2>1. PICK s \in Slots : Cancellation(s)
      BY <1>6 DEF CancelStep
    <2> DEFINE v == CancelledSlot(slot[s])
    <2>2. OneSlot(s, v) /\ slot[s] \in SlotType
      BY <2>1 DEF Cancellation, OneSlot
    <2>3. v.key = slot[s].key /\ v.job = slot[s].job
      BY <2>2, CancelledIs
    <2> HIDE DEF v
    <2> QED  BY <2>2, <2>3, OneSlotLinks
  <1>7. CASE BackStep
    <2>1. PICK h \in LoadIn("done") : h.slot \in Slots /\ (Fails(h) \/ GoesOn(h) \/ Publishes(h))
      BY <1>7 DEF BackStep
    <2> DEFINE s == h.slot
    <2>2. slot[s] \in SlotType
      BY <2>1 DEF Fails, GoesOn, Publishes, OneSlot
    <2>3. CASE Fails(h)
      <3> DEFINE v == Failed(slot[s])
      <3>1. OneSlot(s, v) /\ v.key = slot[s].key /\ v.job = slot[s].job
        BY <2>2, <2>3, FailedIs DEF Fails
      <3> HIDE DEF s, v
      <3> QED  BY <3>1, OneSlotLinks
    <2>4. CASE GoesOn(h)
      <3> DEFINE v == WithJob(slot[s], nextJob)
      <3>1. OneSlot(s, v) /\ v.key = slot[s].key /\ v.job = nextJob /\ nextJob' = nextJob + 1
        BY <1>1, <2>2, <2>4, WithJobIs DEF GoesOn
      <3> HIDE DEF s, v
      <3> QED  BY <3>1, OneSlotLinks
    <2>5. CASE Publishes(h)
      <3> DEFINE v == Finished(slot[s], h.data.ver)
      <3>1. h.data.ver \in Nat
        BY <2>5 DEF Publishes, File
      <3>2. OneSlot(s, v) /\ v.key = slot[s].key /\ v.job = slot[s].job
        BY <2>2, <2>5, <3>1, FinishedIs DEF Publishes
      <3> HIDE DEF s, v
      <3> QED  BY <3>2, OneSlotLinks
    <2> QED  BY <2>1, <2>3, <2>4, <2>5
  <1>8. CASE DrainStep
    <2>1. PICK p \in Priority, s \in Slots :
            Waits(p) \/ Drops(p, s) \/ Starts(p, s) \/ Postpones(p, s)
      BY <1>8 DEF DrainStep
    <2>2. slot[s] \in SlotType
      BY <1>1, ElementOfSeq, LenProperties DEF Slots
    <2>3. CASE Waits(p)
      BY <1>2, <2>3 DEF Waits
    <2>4. CASE Drops(p, s)
      <3> DEFINE v == Failed(slot[s])
      <3>1. OneSlot(s, v) /\ v.key = slot[s].key /\ v.job = slot[s].job
        BY <2>2, <2>4, FailedIs DEF Drops
      <3> HIDE DEF v
      <3> QED  BY <3>1, OneSlotLinks
    <2>5. CASE Starts(p, s)
      <3> DEFINE v == WithJob(Loading(slot[s]), nextJob)
      <3>1. OneSlot(s, v) /\ v.key = slot[s].key /\ v.job = nextJob /\ nextJob' = nextJob + 1
        BY <1>1, <2>2, <2>5, LoadingIs DEF Starts
      <3> HIDE DEF v
      <3> QED  BY <3>1, OneSlotLinks
    <2>6. CASE Postpones(p, s)
      <3> DEFINE v == Requeued(slot[s])
      <3>1. OneSlot(s, v) /\ v.key = slot[s].key /\ v.job = slot[s].job
        BY <2>2, <2>6, RequeuedIs DEF Postpones
      <3> HIDE DEF v
      <3> QED  BY <3>1, OneSlotLinks
    <2> QED  BY <2>1, <2>3, <2>4, <2>5, <2>6
  <1> QED  BY <1>3, <1>4, <1>5, <1>6, <1>7, <1>8 DEF AnyStep

\* A pending queue after a round.
LEMMA RotatedRange ==
  ASSUME NEW p \in Priority, pend[p] # <<>>, pend[p] \in Seq(RequestType)
  PROVE  /\ Rotated(p) => Range(pend'[p]) = Range(pend[p])
         /\ Dequeued(p) => Range(pend'[p]) \subseteq Range(pend[p])
         /\ Range(pend[p]) = Range(Tail(pend[p])) \cup {Head(pend[p])}
  <1> DEFINE w == pend[p]
  <1>1. /\ Tail(w) \in Seq(RequestType) /\ Head(w) \in RequestType
        /\ Range(w) = Range(Tail(w)) \cup {Head(w)}
    <2> HIDE DEF w
    <2>1. w # <<>> /\ w \in Seq(RequestType)
      BY DEF w
    <2> QED  BY <2>1, QueueTail
  <1>2. Range(Append(Tail(w), Head(w))) = Range(w)
    <2> HIDE DEF w
    <2> DEFINE t == Tail(w)
               h == Head(w)
    <2>1. t \in Seq(RequestType) /\ h \in RequestType /\ Range(w) = Range(t) \cup {h}
      BY <1>1
    <2> HIDE DEF t, h
    <2>2. Range(Append(t, h)) = Range(t) \cup {h}
      BY <2>1, AppendRange
    <2>3. Range(Append(t, h)) = Range(w)
      BY <2>1, <2>2
    <2> QED  BY <2>3 DEF t, h
  <1> QED  BY <1>1, <1>2 DEF Rotated, Dequeued

\* Requests name slots that exist.
LEMMA PendKept ==
  ASSUME TypeInv, AnyStep, SlotLinks
  PROVE  /\ pend' \in [Priority -> Seq(RequestType)]
         /\ \A p \in Priority : \A r \in Range(pend'[p]) : r.slot \in DOMAIN slot'
  <1>1. /\ pend \in [Priority -> Seq(RequestType)]
        /\ \A p \in Priority : \A r \in Range(pend[p]) : r.slot \in Slots
        /\ Slots \subseteq DOMAIN slot'
    BY DEF TypeInv, CacheOK, SlotLinks
  <1>2. CASE pend' = pend
    BY <1>1, <1>2
  <1>3. ASSUME NEW s \in DOMAIN slot', NEW o, Queued(s, o)
        PROVE  /\ pend' \in [Priority -> Seq(RequestType)]
               /\ \A p \in Priority : \A r \in Range(pend'[p]) : r.slot \in DOMAIN slot'
    <2>1. ASSUME NEW p \in Priority, NEW r \in Range(pend'[p]) PROVE r.slot \in DOMAIN slot'
      <3>1. r \in Range(pend[p]) \/ r = [slot |-> s, opts |-> o]
        BY <1>3 DEF Queued
      <3> QED  BY <1>1, <3>1
    <2> QED  BY <1>3, <2>1 DEF Queued
  <1>4. CASE ReloadStep
    <2>1. PICK k \in Key, o \in OptsType : Registers(k, o) \/ Requeues(k, o)
      BY <1>4 DEF ReloadStep
    <2>2. CASE Requeues(k, o)
      <3>1. entries[k] \in DOMAIN slot' /\ Queued(entries[k], o)
        BY <1>1, <2>2 DEF Requeues
      <3> QED  BY <1>3, <3>1
    <2>3. CASE Registers(k, o)
      <3>1. Len(slot) + 1 \in DOMAIN slot' /\ (pend' = pend \/ Queued(Len(slot) + 1, o))
        BY <2>3 DEF Registers, Made
      <3> QED  BY <1>2, <1>3, <3>1
    <2> QED  BY <2>1, <2>2, <2>3
  <1>5. CASE DrainStep
    <2>1. PICK p \in Priority :
            /\ pend[p] # <<>> /\ pend[p] \in Seq(RequestType)
            /\ Rotated(p) \/ Dequeued(p)
      BY <1>5 DEF DrainStep, Waits, Drops, Starts, Postpones
    <2>2. Range(pend'[p]) \subseteq Range(pend[p])
      BY <2>1, RotatedRange
    <2>3. /\ pend' \in [Priority -> Seq(RequestType)]
          /\ \A q \in Priority : q # p => pend'[q] = pend[q]
      BY <2>1 DEF Rotated, Dequeued
    <2> QED  BY <1>1, <2>2, <2>3
  <1>6. CASE IdleStep \/ PurgeStep \/ CancelStep \/ MoveStep \/ LossStep \/ BackStep
    <2>1. pend' = pend
      BY <1>6 DEF IdleStep, SameCache, PurgeStep, Purges, CancelStep, Cancellation, MoveStep,
                  LossStep, BackStep
    <2> QED  BY <1>2, <2>1
  <1> QED  BY <1>4, <1>5, <1>6 DEF AnyStep

\* Entries name slots of their keys.
LEMMA EntriesKept ==
  ASSUME TypeInv, AnyStep, SlotLinks
  PROVE  /\ entries' \in [Key -> Nat \cup {None}]
         /\ \A k \in Key : entries'[k] # None =>
              entries'[k] \in DOMAIN slot' /\ slot'[entries'[k]].key = k
         /\ tooLate' \subseteq DOMAIN slot'
  <1>1. /\ entries \in [Key -> Nat \cup {None}]
        /\ \A k \in Key : entries[k] # None => entries[k] \in Slots /\ slot[entries[k]].key = k
        /\ tooLate \subseteq Slots /\ Slots \subseteq DOMAIN slot'
        /\ \A t \in Slots : slot'[t].key = slot[t].key
    BY DEF TypeInv, CacheOK, SlotLinks
  <1>2. /\ entries' \in [Key -> Nat \cup {None}]
        /\ \A k \in Key : entries'[k] # None =>
             entries'[k] \in DOMAIN slot' /\ slot'[entries'[k]].key = k
    <2>1. CASE entries' = entries
      BY <1>1, <2>1
    <2>2. ASSUME NEW m \in Key, entries' = [entries EXCEPT ![m] = None]
          PROVE  /\ entries' \in [Key -> Nat \cup {None}]
                 /\ \A k \in Key : entries'[k] # None =>
                      entries'[k] \in DOMAIN slot' /\ slot'[entries'[k]].key = k
      BY <1>1, <2>2
    <2>3. ASSUME NEW m \in Key, NEW o, Registers(m, o)
          PROVE  /\ entries' \in [Key -> Nat \cup {None}]
                 /\ \A k \in Key : entries'[k] # None =>
                      entries'[k] \in DOMAIN slot' /\ slot'[entries'[k]].key = k
      <3> DEFINE n == Len(slot) + 1
      <3>1. n \in Nat /\ n \in DOMAIN slot' /\ slot'[n].key = m
        <4>1. Made(m) /\ MadeSlot(m).key = m
          BY <2>3, MadeSlotIs DEF Registers
        <4> QED  BY <4>1 DEF Made
      <3>2. entries' = [entries EXCEPT ![m] = n]
        BY <2>3 DEF Registers
      <3> HIDE DEF n
      <3> QED  BY <1>1, <3>1, <3>2
    <2>4. entries' = entries \/ (\E m \in Key : entries' = [entries EXCEPT ![m] = None])
            \/ \E m \in Key, o \in OptsType : Registers(m, o)
      BY DEF AnyStep, IdleStep, SameCache, PurgeStep, Purges, CancelStep, Cancellation, MoveStep,
             LossStep, BackStep, DrainStep, ReloadStep, Requeues
    <2> QED  BY <2>1, <2>2, <2>3, <2>4
  <1>3. tooLate' \subseteq DOMAIN slot'
    <2>1. tooLate' \subseteq tooLate \cup Slots
      BY DEF AnyStep, IdleStep, SameCache, PurgeStep, Purges, CancelStep, Cancellation, MoveStep,
             LossStep, BackStep, DrainStep, ReloadStep, Registers, Requeues
    <2> QED  BY <1>1, <2>1
  <1> QED  BY <1>2, <1>3

\* Loads belong to slots that exist.
LEMMA LinksKept ==
  ASSUME TypeInv, AnyStep, SlotLinks, nextJob' \in {nextJob, nextJob + 1}
  PROVE  LinksOK'
  <1>1. /\ nextJob \in Nat /\ nextJob' \in Nat /\ nextJob <= nextJob'
        /\ stopped \subseteq 0 .. nextJob - 1 /\ Slots \subseteq DOMAIN slot'
        /\ \A j \in Loads : j.slot \in Slots
        /\ \A s \in Slots : slot[s].job # None => slot[s].job < nextJob
        /\ \A s \in Slots : slot[s].job \in Nat \cup {None}
    <2>1. \A s \in Slots : slot[s] \in SlotType
      BY ElementOfSeq, LenProperties DEF TypeInv, CacheOK, Slots
    <2>2. \A s \in Slots : slot[s].job \in Nat \cup {None}
      BY <2>1 DEF SlotType
    <2> QED  BY <2>2 DEF TypeInv, IdsOK, LinksOK, SlotLinks
  <1>2. ASSUME NEW t \in DOMAIN slot', slot'[t].job # None PROVE slot'[t].job < nextJob'
    <2>1. (t \in Slots /\ slot'[t].job = slot[t].job) \/ (slot'[t].job = nextJob /\ nextJob' = nextJob + 1)
      BY <1>2 DEF SlotLinks
    <2> QED  BY <1>1, <1>2, <2>1
  <1>3. stopped' \subseteq 0 .. nextJob' - 1
    <2>1. stopped' = stopped \/ \E s \in Slots : stopped' = stopped \cup {slot[s].job} /\ slot[s].job # None
      BY DEF AnyStep, IdleStep, ReloadStep, PurgeStep, CancelStep, Cancellation, MoveStep, LossStep,
             BackStep, DrainStep, Others
    <2>2. \A s \in Slots : slot[s].job # None => slot[s].job \in 0 .. nextJob - 1
      BY <1>1
    <2> DEFINE m == nextJob
               n == nextJob'
               Ids == 0 .. m - 1
               Ids2 == 0 .. n - 1
    <2>3. Ids \subseteq Ids2
      <3>1. m \in Nat /\ n \in Nat /\ m <= n
        BY <1>1
      <3> HIDE DEF m, n
      <3> QED  BY <3>1
    <2>4. stopped' \subseteq Ids
      <3>1. stopped \subseteq Ids /\ \A s \in Slots : slot[s].job # None => slot[s].job \in Ids
        BY <1>1, <2>2
      <3> HIDE DEF Ids
      <3>2. CASE stopped' = stopped
        BY <3>1, <3>2
      <3>3. CASE \E s \in Slots : stopped' = stopped \cup {slot[s].job} /\ slot[s].job # None
        BY <3>1, <3>3
      <3> QED  BY <2>1, <3>2, <3>3
    <2> QED  BY <2>3, <2>4
  <1>4. ASSUME NEW j \in Loads' PROVE j.slot \in DOMAIN slot'
    <2>1. j \in Loads \/ j.slot \in Slots
      <3>1. CASE SameLoads
        BY <1>4, <3>1, SameLoadsStep
      <3>2. CASE MoveStep
        <4>1. PICK x \in Place \ {"done"}, y \in Place : \E i \in LoadIn(x) : \E b :
                     Onwards(i, b) /\ LoadStep({i}, y, {b})
          BY <3>2 DEF MoveStep
        <4>2. PICK i \in LoadIn(x) : \E b : Onwards(i, b) /\ LoadStep({i}, y, {b})
          BY <4>1
        <4>3. PICK b : Onwards(i, b) /\ LoadStep({i}, y, {b})
          BY <4>2
        <4>4. i \in Loads /\ Loads' \subseteq Loads \cup {b} /\ b.slot = i.slot
          BY <4>1, <4>3, LoadsOfStep DEF Loads, Onwards
        <4> QED  BY <1>1, <1>4, <4>4
      <3>3. CASE LossStep
        BY <1>4, <3>3, LoadsOfStep DEF LossStep
      <3>4. CASE BackStep
        <4>1. PICK h \in LoadIn("done") : h.slot \in Slots /\ (Fails(h) \/ GoesOn(h) \/ Publishes(h))
          BY <3>4 DEF BackStep
        <4>2. CASE Fails(h) \/ Publishes(h)
          BY <1>4, <4>2, LoadsOfStep DEF Fails, Publishes
        <4>3. CASE GoesOn(h)
          <5>1. PICK b : b.slot = h.slot /\ LoadStep({h}, "cpuWaiting", {b})
            BY <4>3 DEF GoesOn
          <5>2. Loads' \subseteq Loads \cup {b}
            BY <5>1, LoadsOfStep
          <5> QED  BY <1>4, <4>1, <5>1, <5>2
        <4> QED  BY <4>1, <4>2, <4>3
      <3>5. CASE DrainStep
        <4>1. PICK s \in Slots : SameLoads \/ BeginsLoad(s)
          BY <3>5 DEF DrainStep
        <4>2. CASE BeginsLoad(s)
          <5>1. PICK b : b.slot = s /\ LoadStep({}, "ioWaiting", {b})
            BY <4>2 DEF BeginsLoad
          <5>2. Loads' \subseteq Loads \cup {b}
            BY <5>1, LoadsOfStep
          <5> QED  BY <1>4, <5>1, <5>2
        <4> QED  BY <3>1, <4>1, <4>2
      <3> QED  BY <3>1, <3>2, <3>3, <3>4, <3>5
               DEF AnyStep, IdleStep, ReloadStep, PurgeStep, CancelStep
    <2> QED  BY <1>1, <2>1
  <1> QED  BY <1>2, <1>3, <1>4 DEF LinksOK, Slots

\* Every step keeps the shapes.
LEMMA TypesKept ==
  ASSUME TypeInv, UniqueIds, [Next]_vars
  PROVE  TypeInv' /\ UniqueIds' /\ AnyStep /\ SlotLinks
  <1>1. AnyStep /\ SlotLinks
    BY StepKinds, LinksOfStep
  <1>2. CacheOK'
    BY <1>1, PendKept, EntriesKept DEF CacheOK, SlotLinks, Slots
  <1>3. LinksOK'
    BY <1>1, NextJobGrows, LinksKept
  <1> QED  BY <1>1, <1>2, <1>3, JobsKept, CountsKept, FilesKept, DrainKept DEF TypeInv

LEMMA ShapesInvariant == Spec => [](TypeInv /\ UniqueIds)
  <1>1. Init => TypeInv /\ UniqueIds
    BY InitTypes
  <1>2. (TypeInv /\ UniqueIds) /\ [Next]_vars => (TypeInv /\ UniqueIds)'
    BY TypesKept
  <1> QED  BY <1>1, <1>2, PTL DEF Spec

LEMMA ShapesImplyTypes == ASSUME TypeInv PROVE TypeOK
  <1>1. entries \in [Key -> Slots \cup {None}]
    BY DEF TypeInv, CacheOK
  <1>2. ASSUME NEW s \in Slots
        PROVE  /\ slot[s].key \in Key
               /\ slot[s].status \in {"Queued", "Loading", "Ready", "Failed"}
               /\ slot[s].val \in Nat \cup {None} /\ slot[s].ver \in Nat
               /\ slot[s].job \in (0 .. nextJob - 1) \cup {None}
               /\ {slot[s].err, slot[s].pending, slot[s].inFlight, slot[s].retain,
                   slot[s].cancelled} \subseteq BOOLEAN
    <2>1. slot[s] \in SlotType
      BY ElementOfSeq, LenProperties DEF TypeInv, CacheOK, Slots
    <2>2. slot[s].job \in Nat \cup {None} /\ nextJob \in Nat /\ (slot[s].job # None => slot[s].job < nextJob)
      BY <2>1 DEF SlotType, TypeInv, IdsOK, LinksOK
    <2>3. slot[s].job \in (0 .. nextJob - 1) \cup {None}
      BY <2>2
    <2> QED  BY <2>1, <2>3 DEF SlotType
  <1>3. ASSUME NEW p \in Priority, NEW i \in DOMAIN pend[p] PROVE pend[p][i].slot \in Slots
    BY DEF TypeInv, CacheOK, Range
  <1>4. spent \in 0 .. Budget /\ tooLate \subseteq Slots /\ at \in {"idle", "pump", "drain"}
    BY DEF TypeInv, CountsOK, CacheOK, DrainOK
  <1>5. \A q \in Queue : Len(waiting[q]) <= Capacity /\ Cardinality(running[q]) <= Workers[q]
    BY DEF TypeInv, QueuesOK
  <1>6. draining.prio \in Priority /\ draining.left \in 0 .. Len(pend[draining.prio])
    <2>1. /\ draining.prio \in Priority /\ draining.left \in Nat /\ draining.left <= Len(pend[draining.prio])
          /\ Len(pend[draining.prio]) \in Nat
      BY LenProperties DEF TypeInv, DrainOK, CacheOK
    <2> QED  BY <2>1
  <1>7. disk \in [Key -> [ver : 0 .. MaxEdits, kind : FileKinds]] /\ wanted \in [Key -> 0 .. MaxEdits]
    <2>1. /\ disk \in [Key -> File] /\ wanted \in [Key -> Nat] /\ edits \in 0 .. MaxEdits
          /\ MaxEdits \in Nat
          /\ \A k \in Key : wanted[k] <= disk[k].ver /\ disk[k].ver <= edits
      BY ConstantFacts DEF TypeInv, FilesOK
    <2>2. \A k \in Key : /\ disk[k] \in File /\ disk[k].ver \in Nat /\ disk[k].kind \in FileKinds
                         /\ wanted[k] \in Nat
      BY <2>1 DEF File
    <2>3. \A k \in Key : disk[k].ver \in 0 .. MaxEdits /\ wanted[k] \in 0 .. MaxEdits
      BY <2>1, <2>2
    <2>4. \A k \in Key : disk[k] \in [ver : 0 .. MaxEdits, kind : FileKinds]
      BY <2>2, <2>3 DEF File
    <2> QED  BY <2>1, <2>3, <2>4
  <1>8. stopped \subseteq 0 .. nextJob - 1
    BY DEF TypeInv, LinksOK
  <1> QED  BY <1>1, <1>2, <1>3, <1>4, <1>5, <1>6, <1>7, <1>8 DEF TypeOK

-----------------------------------------------------------------------------
(* The flags of slots, as long as nobody cancels.                          *)

\* Requests for different slots, as they come and go.
LEMMA SlotOnceAppend ==
  ASSUME NEW T, NEW s \in Seq(T), NEW x \in T, SlotOnce(s), \A r \in Range(s) : r.slot # x.slot
  PROVE  SlotOnce(Append(s, x))
  <1> DEFINE a == Append(s, x)
  <1>1. /\ DOMAIN a = 1 .. Len(s) + 1 /\ Len(s) \in Nat /\ DOMAIN s = 1 .. Len(s)
        /\ \A i \in 1 .. Len(s) : a[i] = s[i]
        /\ a[Len(s) + 1] = x
    BY QueueAppend
  <1> HIDE DEF a
  <1>2. \A i \in 1 .. Len(s) : s[i] \in Range(s)
    BY <1>1 DEF Range
  <1>3. \A i \in DOMAIN a : i \in 1 .. Len(s) \/ i = Len(s) + 1
    BY <1>1
  <1>4. SlotOnce(a)
    <2> SUFFICES ASSUME NEW i \in DOMAIN a, NEW j \in DOMAIN a, a[i].slot = a[j].slot
                 PROVE  i = j
      BY DEF SlotOnce
    <2>1. CASE i \in 1 .. Len(s) /\ j \in 1 .. Len(s)
      BY <1>1, <2>1 DEF SlotOnce
    <2>2. CASE i \in 1 .. Len(s) /\ j = Len(s) + 1
      BY <1>1, <1>2, <2>2
    <2>3. CASE i = Len(s) + 1 /\ j \in 1 .. Len(s)
      BY <1>1, <1>2, <2>3
    <2> QED  BY <1>3, <2>1, <2>2, <2>3
  <1> QED  BY <1>4 DEF a

LEMMA SlotOnceTail ==
  ASSUME NEW T, NEW s \in Seq(T), s # <<>>, SlotOnce(s)
  PROVE  SlotOnce(Tail(s)) /\ \A r \in Range(Tail(s)) : r.slot # Head(s).slot
  <1> DEFINE t == Tail(s)
             h == Head(s)
  <1>1. /\ Len(s) \in Nat \ {0} /\ DOMAIN s = 1 .. Len(s) /\ DOMAIN t = 1 .. Len(s) - 1
        /\ h = s[1]
        /\ \A i \in 1 .. Len(s) - 1 : t[i] = s[i + 1]
    BY QueueTail
  <1> HIDE DEF t, h
  <1>2. SlotOnce(t)
    <2> SUFFICES ASSUME NEW i \in 1 .. Len(s) - 1, NEW j \in 1 .. Len(s) - 1, t[i].slot = t[j].slot
                 PROVE  i = j
      BY <1>1 DEF SlotOnce
    <2>1. i + 1 \in DOMAIN s /\ j + 1 \in DOMAIN s /\ s[i + 1].slot = s[j + 1].slot
      BY <1>1
    <2>2. i + 1 = j + 1
      BY <2>1 DEF SlotOnce
    <2> QED  BY <1>1, <2>2
  <1>3. \A r \in Range(t) : r.slot # h.slot
    <2> SUFFICES ASSUME NEW i \in 1 .. Len(s) - 1, t[i].slot = h.slot
                 PROVE  FALSE
      BY <1>1 DEF Range
    <2>1. i + 1 \in DOMAIN s /\ 1 \in DOMAIN s /\ s[i + 1].slot = s[1].slot
      BY <1>1
    <2>2. i + 1 = 1
      BY <2>1 DEF SlotOnce
    <2> QED  BY <1>1, <2>2
  <1> QED  BY <1>2, <1>3 DEF t, h

\* Slots stay apart in the pending queues when one that is in none is queued.
LEMMA PendQueued ==
  ASSUME pend \in [Priority -> Seq(RequestType)], PendOnce, NEW s, NEW o, Queued(s, o), ~InPend(s)
  PROVE  PendOnce' /\ \A t : InPend(t)' <=> InPend(t) \/ t = s
  <1> DEFINE p == o.prio
             r == [slot |-> s, opts |-> o]
             w == pend[p]
  <1>1. /\ p \in Priority /\ r \in RequestType /\ r.slot = s /\ w \in Seq(RequestType)
        /\ pend'[p] = Append(w, r) /\ Range(pend'[p]) = Range(w) \cup {r}
        /\ \A q \in Priority : q # p => pend'[q] = pend[q]
    BY DEF Queued
  <1>2. \A q \in Priority : \A x \in Range(pend[q]) : x.slot # s
    BY DEF InPend
  <1>3. \A q \in Priority : SlotOnce(pend[q])
    BY DEF PendOnce, SlotOnce
  <1>4. SlotOnce(pend'[p])
    <2>1. SlotOnce(w) /\ \A x \in Range(w) : x.slot # r.slot
      BY <1>1, <1>2, <1>3
    <2> HIDE DEF w, r
    <2> QED  BY <1>1, <2>1, SlotOnceAppend
  <1>5. \A q \in Priority : SlotOnce(pend'[q])
    BY <1>1, <1>3, <1>4
  <1> HIDE DEF r, p
  <1>6. \A q \in Priority : Range(pend'[q]) = IF q = p THEN Range(pend[q]) \cup {r} ELSE Range(pend[q])
    BY <1>1
  <1>7. ASSUME NEW q \in Priority, NEW m \in Priority, NEW x \in Range(pend'[q]),
               NEW y \in Range(pend'[m]), x.slot = y.slot
        PROVE  q = m
    <2>1. (x \in Range(pend[q]) \/ (q = p /\ x = r)) /\ (y \in Range(pend[m]) \/ (m = p /\ y = r))
      BY <1>6, <1>7
    <2>2. CASE x \in Range(pend[q]) /\ y \in Range(pend[m])
      BY <1>7, <2>2 DEF PendOnce
    <2> QED  BY <1>1, <1>2, <1>7, <2>1, <2>2
  <1>8. PendOnce'
    BY <1>5, <1>7 DEF PendOnce, SlotOnce
  <1>9. ASSUME NEW t PROVE InPend(t)' <=> InPend(t) \/ t = s
    BY <1>1, <1>6 DEF InPend
  <1> QED  BY <1>8, <1>9

\* And when the head of a queue leaves it or goes to its end.
LEMMA PendDequeued ==
  ASSUME pend \in [Priority -> Seq(RequestType)], PendOnce, NEW p \in Priority, pend[p] # <<>>,
         Dequeued(p)
  PROVE  PendOnce' /\ \A t : InPend(t)' <=> InPend(t) /\ t # Head(pend[p]).slot
  <1> DEFINE w == pend[p]
             h == Head(w)
  <1>1. /\ w \in Seq(RequestType) /\ w # <<>> /\ pend'[p] = Tail(w)
        /\ \A q \in Priority : q # p => pend'[q] = pend[q]
    BY DEF Dequeued
  <1>2. \A q \in Priority : SlotOnce(pend[q])
    BY DEF PendOnce, SlotOnce
  <1>3. SlotOnce(Tail(w)) /\ (\A r \in Range(Tail(w)) : r.slot # h.slot)
        /\ Range(w) = Range(Tail(w)) \cup {h}
    <2>1. SlotOnce(w)
      BY <1>2
    <2> HIDE DEF w
    <2> QED  BY <1>1, <2>1, SlotOnceTail, QueueTail
  <1> HIDE DEF h
  <1>4. /\ \A q \in Priority : SlotOnce(pend'[q])
        /\ \A q \in Priority : Range(pend'[q]) \subseteq Range(pend[q])
    BY <1>1, <1>2, <1>3
  <1>5. PendOnce'
    BY <1>4 DEF PendOnce, SlotOnce
  <1>6. ASSUME NEW t PROVE InPend(t)' <=> InPend(t) /\ t # h.slot
    <2>1. ASSUME InPend(t)' PROVE InPend(t) /\ t # h.slot
      <3>1. PICK q \in Priority : \E r \in Range(pend'[q]) : r.slot = t
        BY <2>1 DEF InPend
      <3>2. InPend(t)
        BY <1>4, <3>1 DEF InPend
      <3>3. CASE q = p
        BY <1>1, <1>3, <3>1, <3>2, <3>3
      <3>4. CASE q # p
        BY <1>1, <1>3, <3>1, <3>2, <3>4 DEF PendOnce
      <3> QED  BY <3>3, <3>4
    <2>2. ASSUME InPend(t), t # h.slot PROVE InPend(t)'
      <3>1. PICK q \in Priority : \E r \in Range(pend[q]) : r.slot = t
        BY <2>2 DEF InPend
      <3>2. \E r \in Range(pend'[q]) : r.slot = t
        BY <1>1, <1>3, <2>2, <3>1
      <3> QED  BY <3>2 DEF InPend
    <2> QED  BY <2>1, <2>2
  <1> QED  BY <1>5, <1>6 DEF h

LEMMA PendRotated ==
  ASSUME pend \in [Priority -> Seq(RequestType)], PendOnce, NEW p \in Priority, pend[p] # <<>>,
         Rotated(p)
  PROVE  PendOnce' /\ \A t : InPend(t)' <=> InPend(t)
  <1> DEFINE w == pend[p]
             t == Tail(w)
             h == Head(w)
  <1>1. /\ w \in Seq(RequestType) /\ w # <<>> /\ pend'[p] = Append(t, h)
        /\ \A q \in Priority : q # p => pend'[q] = pend[q]
    BY DEF Rotated
  <1>2. \A q \in Priority : SlotOnce(pend[q])
    BY DEF PendOnce, SlotOnce
  <1>3. /\ SlotOnce(t) /\ (\A r \in Range(t) : r.slot # h.slot)
        /\ t \in Seq(RequestType) /\ h \in RequestType
    <2>1. SlotOnce(w)
      BY <1>2
    <2> HIDE DEF w
    <2> QED  BY <1>1, <2>1, SlotOnceTail, QueueTail
  <1>4. SlotOnce(pend'[p])
    <2> HIDE DEF t, h
    <2> QED  BY <1>1, <1>3, SlotOnceAppend
  <1>5. \A q \in Priority : SlotOnce(pend'[q]) /\ Range(pend'[q]) = Range(pend[q])
    <2>1. Range(pend'[p]) = Range(pend[p])
      BY <1>1, RotatedRange
    <2> HIDE DEF t, h
    <2> QED  BY <1>1, <1>2, <1>4, <2>1
  <1>6. PendOnce'
    BY <1>5 DEF PendOnce, SlotOnce
  <1>7. \A x : InPend(x)' <=> InPend(x)
    BY <1>5 DEF InPend
  <1> QED  BY <1>6, <1>7

\* The ids of a slot's loads, as loads come and go.
LEMMA LoadsApart ==
  ASSUME UniqueIds, NEW i \in Loads, NEW j \in Loads, i.id = j.id
  PROVE  i = j
  <1>1. PICK x \in Place, y \in Place : i \in held[x] /\ j \in held[y]
    BY DEF Loads, LoadIn
  <1> QED  BY <1>1 DEF UniqueIds, Unique

LEMMA OwnSame == ASSUME SameLoads, NEW t PROVE OwnIds(t)' = OwnIds(t)
  BY SameLoadsStep DEF OwnIds

LEMMA OwnMove ==
  ASSUME NEW j \in Loads, NEW b, b.id = j.id, b.slot = j.slot, NEW y \in Place,
         LoadStep({j}, y, {b}), NEW t
  PROVE  OwnIds(t)' = OwnIds(t)
  <1>1. Loads' \subseteq Loads \cup {b} /\ Loads \ {j} \subseteq Loads' /\ b \in Loads'
    BY LoadsOfStep
  <1>2. OwnIds(t)' = {i.id : i \in {l \in Loads' : l.slot = t}}
    BY DEF OwnIds
  <1>3. ASSUME NEW id \in OwnIds(t) PROVE id \in OwnIds(t)'
    <2>1. PICK i \in Loads : i.slot = t /\ i.id = id
      BY <1>3 DEF OwnIds
    <2>2. CASE i = j
      BY <1>1, <1>2, <2>1, <2>2
    <2>3. CASE i # j
      BY <1>1, <1>2, <2>1, <2>3
    <2> QED  BY <2>2, <2>3
  <1>4. ASSUME NEW id \in OwnIds(t)' PROVE id \in OwnIds(t)
    <2>1. PICK i \in Loads' : i.slot = t /\ i.id = id
      BY <1>2, <1>4
    <2>2. CASE i = b
      BY <2>1, <2>2 DEF OwnIds
    <2>3. CASE i \in Loads
      BY <2>1, <2>3 DEF OwnIds
    <2> QED  BY <1>1, <2>1, <2>2, <2>3
  <1> QED  BY <1>3, <1>4

LEMMA OwnLose ==
  ASSUME NEW j \in Loads, NEW y, LoadStep({j}, y, {}), NEW t
  PROVE  /\ OwnIds(t)' \subseteq OwnIds(t)
         /\ t # j.slot => OwnIds(t)' = OwnIds(t)
         /\ UniqueIds /\ t = j.slot /\ (\A id \in OwnIds(t) : id = j.id) => OwnIds(t)' = {}
  <1>1. Loads' \subseteq Loads /\ Loads \ {j} \subseteq Loads' /\ j \notin Loads'
    <2>1. Loads' \subseteq Loads \cup {} /\ Loads \ {j} \subseteq Loads'
      BY LoadsOfStep
    <2>2. j \notin Loads'
      <3>1. \A z \in Place : LoadIn(z)' = (LoadIn(z) \ {j}) \cup (IF z = y THEN {} ELSE {})
        BY DEF LoadStep
      <3>2. Loads' = UNION {LoadIn(x)' : x \in Place}
        BY DEF Loads
      <3> QED  BY <3>1, <3>2
    <2> QED  BY <2>1, <2>2
  <1>2. OwnIds(t)' = {i.id : i \in {l \in Loads' : l.slot = t}} /\
        OwnIds(t) = {i.id : i \in {l \in Loads : l.slot = t}}
    BY DEF OwnIds
  <1>3. OwnIds(t)' \subseteq OwnIds(t)
    BY <1>1, <1>2
  <1>4. t # j.slot => OwnIds(t) \subseteq OwnIds(t)'
    BY <1>1, <1>2
  <1>5. ASSUME UniqueIds, t = j.slot, \A id \in OwnIds(t) : id = j.id, NEW id \in OwnIds(t)'
        PROVE  FALSE
    <2>1. PICK i \in Loads' : i.slot = t /\ i.id = id
      BY <1>2, <1>5
    <2>2. i \in Loads /\ i.id = j.id
      BY <1>1, <1>3, <1>5, <2>1
    <2> QED  BY <1>1, <1>5, <2>1, <2>2, LoadsApart
  <1> QED  BY <1>3, <1>4, <1>5

LEMMA OwnReplace ==
  ASSUME UniqueIds, NEW j \in Loads, NEW b, b.slot = j.slot, NEW y \in Place,
         LoadStep({j}, y, {b}), \A id \in OwnIds(j.slot) : id = j.id, NEW t
  PROVE  OwnIds(t)' = IF t = j.slot THEN {b.id} ELSE OwnIds(t)
  <1>1. /\ Loads' \subseteq (Loads \ {j}) \cup {b} /\ Loads \ {j} \subseteq Loads' /\ b \in Loads'
    <2>1. Loads \ {j} \subseteq Loads' /\ b \in Loads'
      BY LoadsOfStep
    <2>2. /\ \A z \in Place : LoadIn(z)' = (LoadIn(z) \ {j}) \cup (IF z = y THEN {b} ELSE {})
          /\ Loads' = UNION {LoadIn(x)' : x \in Place} /\ Loads = UNION {LoadIn(x) : x \in Place}
      BY DEF LoadStep, Loads
    <2>3. Loads' \subseteq (Loads \ {j}) \cup {b}
      BY <2>2
    <2> QED  BY <2>1, <2>3
  <1>2. OwnIds(t)' = {i.id : i \in {l \in Loads' : l.slot = t}} /\
        OwnIds(t) = {i.id : i \in {l \in Loads : l.slot = t}}
    BY DEF OwnIds
  <1>3. CASE t # j.slot
    <2>1. \A i : i \in Loads' /\ i.slot = t <=> i \in Loads /\ i.slot = t
      BY <1>1, <1>3
    <2> QED  BY <1>2, <1>3, <2>1
  <1>4. CASE t = j.slot
    <2>1. ASSUME NEW i \in Loads, i.slot = t PROVE i = j
      <3>1. i.id \in OwnIds(t)
        BY <1>2, <2>1
      <3> QED  BY <1>4, <3>1, LoadsApart
    <2>2. \A i \in Loads' : i.slot = t => i = b
      BY <1>1, <2>1
    <2> QED  BY <1>1, <1>2, <1>4, <2>2
  <1> QED  BY <1>3, <1>4

LEMMA OwnAdd ==
  ASSUME NEW b, NEW y \in Place, LoadStep({}, y, {b}), NEW t
  PROVE  OwnIds(t)' = OwnIds(t) \cup (IF t = b.slot THEN {b.id} ELSE {})
  <1>1. Loads' = Loads \cup {b}
    <2>1. Loads' \subseteq Loads \cup {b} /\ Loads \ {} \subseteq Loads' /\ b \in Loads'
      BY LoadsOfStep
    <2> QED  BY <2>1
  <1> QED  BY <1>1 DEF OwnIds

LEMMA OwnTypes ==
  ASSUME TypeInv, NEW j \in Loads
  PROVE  j.slot \in Slots /\ j.id \in OwnIds(j.slot) /\ j.id \in Nat /\ slot[j.slot] \in SlotType
  <1>1. PICK x \in Place : j \in held[x] /\ j.for \in Load
    BY DEF Loads, LoadIn
  <1>2. j.slot \in Slots /\ slot[j.slot] \in SlotType /\ j.id \in Nat
    BY <1>1, LoadSlots, JobTypes DEF TypeInv
  <1> QED  BY <1>2 DEF OwnIds

\* A slot that a step leaves alone keeps its flags.
LEMMA FlagsSame ==
  ASSUME NEW t, SlotFlags(t),
         slot'[t].cancelled = slot[t].cancelled, slot'[t].pending = slot[t].pending,
         slot'[t].inFlight = slot[t].inFlight, slot'[t].job = slot[t].job,
         InPend(t)' <=> InPend(t), OwnIds(t)' \subseteq OwnIds(t),
         panics' = 0 => panics = 0 /\ OwnIds(t)' = OwnIds(t)
  PROVE  SlotFlags(t)'
  <1> DEFINE a == InPend(t)
             c == OwnIds(t)
  <1>1. /\ ~slot[t].cancelled /\ (slot[t].pending <=> a) /\ ~(slot[t].pending /\ slot[t].inFlight)
        /\ \A id \in c : slot[t].inFlight /\ slot[t].job = id
        /\ slot[t].inFlight /\ panics = 0 => c # {}
    BY DEF SlotFlags
  <1>2. (a' <=> a) /\ c' \subseteq c /\ (panics' = 0 => panics = 0 /\ c' = c)
    OBVIOUS
  <1> HIDE DEF a, c
  <1>3. /\ ~slot'[t].cancelled /\ (slot'[t].pending <=> a') /\ ~(slot'[t].pending /\ slot'[t].inFlight)
        /\ \A id \in c' : slot'[t].inFlight /\ slot'[t].job = id
        /\ slot'[t].inFlight /\ panics' = 0 => c' # {}
    BY <1>1, <1>2
  <1> QED  BY <1>3 DEF SlotFlags, a, c

\* One slot changes; the others keep their flags.
LEMMA OrderlyOne ==
  ASSUME PendOnce', stopped' = {}, \A t \in Slots : SlotFlags(t),
         NEW s, NEW v, OneSlot(s, v),
         \A t \in Slots : t # s => (InPend(t)' <=> InPend(t)) /\ OwnIds(t)' = OwnIds(t),
         panics' = panics, SlotFlags(s)'
  PROVE  Orderly'
  <1>1. ASSUME NEW t \in DOMAIN slot' PROVE SlotFlags(t)'
    <2>1. t \in Slots
      BY DEF OneSlot
    <2>2. CASE t # s
      <3>1. slot'[t] = slot[t]
        BY <2>1, <2>2 DEF OneSlot
      <3> QED  BY <2>1, <2>2, <3>1, FlagsSame
    <2> QED  BY <2>2
  <1> QED  BY <1>1 DEF Orderly, Slots

\* No slot changes its flags.
LEMMA OrderlySame ==
  ASSUME PendOnce', stopped' = {}, \A t \in Slots : SlotFlags(t), DOMAIN slot' = Slots,
         \A t \in Slots : /\ slot'[t].cancelled = slot[t].cancelled
                          /\ slot'[t].pending = slot[t].pending
                          /\ slot'[t].inFlight = slot[t].inFlight /\ slot'[t].job = slot[t].job
                          /\ InPend(t)' <=> InPend(t)
                          /\ OwnIds(t)' \subseteq OwnIds(t)
                          /\ panics' = 0 => panics = 0 /\ OwnIds(t)' = OwnIds(t)
  PROVE  Orderly'
  <1>1. ASSUME NEW t \in DOMAIN slot' PROVE SlotFlags(t)'
    BY FlagsSame
  <1> QED  BY <1>1 DEF Orderly, Slots

\* An accepted load is queued once.
LEMMA OrderlyReload ==
  ASSUME TypeInv, stopped = {}, PendOnce, \A t \in Slots : SlotFlags(t), ReloadStep
  PROVE  Orderly'
  <1>1. PICK k \in Key, o \in OptsType : Registers(k, o) \/ Requeues(k, o)
    BY DEF ReloadStep
  <1>2. /\ pend \in [Priority -> Seq(RequestType)] /\ stopped' = {} /\ panics' = panics
        /\ \A t : OwnIds(t)' = OwnIds(t)
        /\ \A t : InPend(t) => t \in Slots
        /\ \A t : OwnIds(t) # {} => t \in Slots
    <2>1. \A t : InPend(t) => t \in Slots
      BY DEF InPend, TypeInv, CacheOK
    <2>2. \A t : OwnIds(t) # {} => t \in Slots
      BY DEF OwnIds, TypeInv, LinksOK
    <2> QED  BY <2>1, <2>2, OwnSame DEF ReloadStep, Others, TypeInv, CacheOK
  <1>3. CASE Registers(k, o)
    <2>0. PICK n \in Nat : n = Len(slot) + 1
      BY DEF TypeInv, CacheOK
    <2> DEFINE v == slot'[n]
    <2>1. /\ DOMAIN slot' = Slots \cup {n} /\ n \notin Slots /\ \A t \in Slots : slot'[t] = slot[t]
          /\ v = MadeSlot(k)
          /\ IF disk[k].kind # "gone" THEN Queued(n, o) ELSE pend' = pend
      BY <1>3, <2>0 DEF Registers, Made
    <2>2. /\ v.pending = (disk[k].kind # "gone") /\ v.inFlight = FALSE /\ v.cancelled = FALSE
      BY <2>1, MadeSlotIs
    <2> HIDE DEF v
    <2>3. ~InPend(n) /\ OwnIds(n) = {}
      BY <1>2, <2>1
    <2>4. PendOnce' /\ \A t : InPend(t)' <=> InPend(t) \/ (t = n /\ disk[k].kind # "gone")
      <3>1. CASE disk[k].kind # "gone"
        BY <1>2, <2>1, <2>3, <3>1, PendQueued
      <3>2. CASE disk[k].kind = "gone"
        BY <2>1, <3>2 DEF PendOnce, InPend
      <3> QED  BY <3>1, <3>2
    <2>5. SlotFlags(n)'
      <3>1. InPend(n)' <=> disk[k].kind # "gone"
        BY <2>3, <2>4
      <3>2. OwnIds(n)' = {}
        BY <1>2, <2>3
      <3>3. slot'[n] = v
        BY DEF v
      <3> QED  BY <2>2, <3>1, <3>2, <3>3 DEF SlotFlags
    <2>6. ASSUME NEW t \in DOMAIN slot' PROVE SlotFlags(t)'
      <3>1. CASE t \in Slots
        <4>1. slot'[t] = slot[t] /\ (InPend(t)' <=> InPend(t)) /\ OwnIds(t)' = OwnIds(t)
          BY <1>2, <2>1, <2>4, <3>1
        <4> QED  BY <1>2, <3>1, <4>1, FlagsSame
      <3> QED  BY <2>1, <2>5, <3>1
    <2> QED  BY <1>2, <2>4, <2>6 DEF Orderly, Slots
  <1>4. CASE Requeues(k, o)
    <2>0. PICK s \in Slots : s = entries[k]
      BY <1>4 DEF Requeues, OneSlot
    <2> DEFINE v == Reloading(slot[s])
    <2>1. s \in Slots /\ ~Busy(slot[s]) /\ OneSlot(s, v) /\ Queued(s, o) /\ slot[s] \in SlotType
      BY <1>4, <2>0 DEF Requeues, OneSlot
    <2>2. v.pending = TRUE /\ v.inFlight = FALSE /\ v.cancelled = FALSE
      BY <2>1, ReloadingIs
    <2> HIDE DEF v
    <2>3. ~slot[s].pending /\ ~slot[s].inFlight
      BY <2>1 DEF Busy
    <2>4. ~InPend(s) /\ OwnIds(s) = {}
      BY <2>1, <2>3 DEF SlotFlags
    <2>5. PendOnce' /\ \A t : InPend(t)' <=> InPend(t) \/ t = s
      BY <1>2, <2>1, <2>4, PendQueued
    <2>6. SlotFlags(s)'
      <3>1. slot'[s] = v
        BY <2>1 DEF OneSlot
      <3>2. InPend(s)' /\ OwnIds(s)' = {}
        BY <1>2, <2>4, <2>5
      <3> QED  BY <2>2, <3>1, <3>2 DEF SlotFlags
    <2>7. \A t \in Slots : t # s => (InPend(t)' <=> InPend(t)) /\ OwnIds(t)' = OwnIds(t)
      BY <1>2, <2>5
    <2> QED  BY <1>2, <2>1, <2>5, <2>6, <2>7, OrderlyOne
  <1> QED  BY <1>1, <1>3, <1>4

\* Purging, and loads that go on or are lost.
LEMMA OrderlyMove ==
  ASSUME TypeInv, stopped = {}, PendOnce, \A t \in Slots : SlotFlags(t),
         IdleStep \/ PurgeStep \/ MoveStep \/ LossStep, panics' \in Nat
  PROVE  Orderly'
  <1>1. stopped' = {} /\ PendOnce' /\ (\A t : InPend(t)' <=> InPend(t)) /\ panics \in Nat
    <2>1. pend' = pend /\ stopped' = stopped
      BY DEF IdleStep, PurgeStep, MoveStep, LossStep, SameCache, Purges, Others
    <2> QED  BY <2>1 DEF PendOnce, InPend, TypeInv, CountsOK
  <1>2. CASE IdleStep
    <2>1. slot' = slot /\ panics' = panics /\ SameLoads
      BY <1>2 DEF IdleStep, SameCache, Others
    <2> QED  BY <1>1, <2>1, OwnSame, OrderlySame DEF Slots
  <1>3. CASE PurgeStep
    <2>1. PICK k \in Key : Purges(k)
      BY <1>3 DEF PurgeStep
    <2> DEFINE s == entries[k]
               v == Purged(slot[s])
    <2>2. OneSlot(s, v) /\ slot[s] \in SlotType /\ panics' = panics /\ SameLoads /\ s \in Slots
      BY <1>3, <2>1 DEF PurgeStep, Purges, OneSlot, Others
    <2>3. /\ v.pending = slot[s].pending /\ v.inFlight = slot[s].inFlight
          /\ v.cancelled = slot[s].cancelled /\ v.job = slot[s].job
      BY <2>2, PurgedIs
    <2> HIDE DEF s, v
    <2>4. /\ DOMAIN slot' = Slots
          /\ \A t \in Slots : slot'[t] = IF t = s THEN v ELSE slot[t]
      BY <2>2 DEF OneSlot
    <2>5. \A t \in Slots : /\ slot'[t].cancelled = slot[t].cancelled
                           /\ slot'[t].pending = slot[t].pending
                           /\ slot'[t].inFlight = slot[t].inFlight /\ slot'[t].job = slot[t].job
      BY <2>3, <2>4
    <2> QED  BY <1>1, <2>2, <2>4, <2>5, OwnSame, OrderlySame
  <1>4. CASE MoveStep
    <2>1. PICK x \in Place \ {"done"}, y \in Place : \E j \in LoadIn(x) : \E b :
                 Onwards(j, b) /\ LoadStep({j}, y, {b})
      BY <1>4 DEF MoveStep
    <2>2. PICK j \in LoadIn(x) : \E b : Onwards(j, b) /\ LoadStep({j}, y, {b})
      BY <2>1
    <2>3. PICK b : Onwards(j, b) /\ LoadStep({j}, y, {b})
      BY <2>2
    <2>4. j \in Loads /\ b.id = j.id /\ b.slot = j.slot
      BY <2>3 DEF Loads, Onwards
    <2>5. \A t : OwnIds(t)' = OwnIds(t)
      BY <2>3, <2>4, OwnMove
    <2>6. slot' = slot /\ panics' = panics
      BY <1>4 DEF MoveStep, SameCache, Others
    <2> QED  BY <1>1, <2>5, <2>6, OrderlySame DEF Slots
  <1>5. CASE LossStep
    <2>1. PICK x \in Place \ {"done"}, y \in Place : \E j \in LoadIn(x) :
                 LoadStep({j}, y, {}) /\ panics' = panics + 1
      BY <1>5 DEF LossStep
    <2>2. PICK j \in LoadIn(x) : LoadStep({j}, y, {}) /\ panics' = panics + 1
      BY <2>1
    <2>3. j \in Loads /\ panics' # 0
      BY <1>1, <2>2 DEF Loads
    <2>4. \A t : OwnIds(t)' \subseteq OwnIds(t)
      BY <2>2, <2>3, OwnLose
    <2>5. slot' = slot
      BY <1>5 DEF LossStep, SameCache
    <2> QED  BY <1>1, <2>3, <2>4, <2>5, OrderlySame DEF Slots
  <1> QED  BY <1>2, <1>3, <1>4, <1>5

\* A completion's callback ends the slot's load or hands it to a decoder.
LEMMA OrderlyBack ==
  ASSUME TypeInv, UniqueIds, stopped = {}, PendOnce, \A t \in Slots : SlotFlags(t), BackStep
  PROVE  Orderly'
  <1>1. /\ stopped' = {} /\ panics' = panics /\ PendOnce' /\ nextJob \in Nat
        /\ \A t : InPend(t)' <=> InPend(t)
    <2>1. pend' = pend
      BY DEF BackStep
    <2> QED  BY <2>1 DEF BackStep, Others, PendOnce, InPend, TypeInv, IdsOK
  <1>2. PICK h \in LoadIn("done") : h.slot \in Slots /\ (Fails(h) \/ GoesOn(h) \/ Publishes(h))
    BY DEF BackStep
  <1>3. h \in Loads /\ "cpuWaiting" \in Place
    BY DEF Loads, Place
  <1> DEFINE s == h.slot
  <1>4. s \in Slots /\ h.id \in OwnIds(s) /\ slot[s] \in SlotType
    BY <1>3, OwnTypes
  <1>5. /\ slot[s].inFlight /\ ~slot[s].pending /\ ~slot[s].cancelled /\ ~InPend(s)
        /\ \A id \in OwnIds(s) : id = h.id
    BY <1>4 DEF SlotFlags
  <1>6. ASSUME NEW v, OneSlot(s, v), LoadStep({h}, "cpuWaiting", {}),
               v.pending = FALSE, v.inFlight = FALSE, v.cancelled = slot[s].cancelled
        PROVE  Orderly'
    <2>1. OwnIds(s)' = {}
      BY <1>3, <1>5, <1>6, OwnLose
    <2>2. \A t : t # s => OwnIds(t)' = OwnIds(t)
      BY <1>3, <1>6, OwnLose
    <2>3. slot'[s] = v /\ ~InPend(s)'
      BY <1>1, <1>4, <1>5, <1>6 DEF OneSlot
    <2> HIDE DEF s
    <2>4. SlotFlags(s)'
      BY <1>5, <1>6, <2>1, <2>3 DEF SlotFlags
    <2> QED  BY <1>1, <1>6, <2>2, <2>4, OrderlyOne
  <1>7. CASE Fails(h)
    <2> DEFINE v == Failed(slot[s])
    <2>1. v.pending = FALSE /\ v.inFlight = FALSE /\ v.cancelled = slot[s].cancelled
      BY <1>4, FailedIs
    <2>2. OneSlot(s, v) /\ LoadStep({h}, "cpuWaiting", {})
      BY <1>7 DEF Fails
    <2> HIDE DEF s, v
    <2> QED  BY <1>6, <2>1, <2>2
  <1>8. CASE Publishes(h)
    <2> DEFINE v == Finished(slot[s], h.data.ver)
    <2>1. v.pending = FALSE /\ v.inFlight = FALSE /\ v.cancelled = slot[s].cancelled
      <3>1. h.data.ver \in Nat
        BY <1>8 DEF Publishes, File
      <3> QED  BY <1>4, <3>1, FinishedIs
    <2>2. OneSlot(s, v) /\ LoadStep({h}, "cpuWaiting", {})
      BY <1>8 DEF Publishes
    <2> HIDE DEF s, v
    <2> QED  BY <1>6, <2>1, <2>2
  <1>9. CASE GoesOn(h)
    <2> DEFINE v == WithJob(slot[s], nextJob)
    <2>1. /\ v.pending = slot[s].pending /\ v.inFlight = slot[s].inFlight
          /\ v.cancelled = slot[s].cancelled /\ v.job = nextJob
      BY <1>1, <1>4, WithJobIs
    <2>2. PICK b : b.id = nextJob /\ b.slot = h.slot /\ LoadStep({h}, "cpuWaiting", {b})
      BY <1>9 DEF GoesOn
    <2>3. OneSlot(s, v)
      BY <1>9 DEF GoesOn
    <2>4. \A t : OwnIds(t)' = IF t = s THEN {b.id} ELSE OwnIds(t)
      BY <1>3, <1>5, <2>2, OwnReplace
    <2>5. slot'[s] = v /\ ~InPend(s)' /\ OwnIds(s)' = {b.id}
      BY <1>1, <1>4, <1>5, <2>3, <2>4 DEF OneSlot
    <2> HIDE DEF s, v
    <2>6. SlotFlags(s)'
      BY <1>5, <2>1, <2>2, <2>5 DEF SlotFlags
    <2>7. \A t \in Slots : t # s => (InPend(t)' <=> InPend(t)) /\ OwnIds(t)' = OwnIds(t)
      BY <1>1, <2>4
    <2> QED  BY <1>1, <2>3, <2>6, <2>7, OrderlyOne
  <1> QED  BY <1>2, <1>7, <1>8, <1>9

\* The head of a pending queue is pending.
LEMMA HeadQueued ==
  ASSUME NEW p \in Priority, NEW s, pend[p] # <<>>, pend[p] \in Seq(RequestType),
         s = Head(pend[p]).slot
  PROVE  InPend(s)
  <1> DEFINE w == pend[p]
             h == Head(w)
  <1>1. w \in Seq(RequestType) /\ w # <<>> /\ h.slot = s
    OBVIOUS
  <1>2. h \in Range(w)
    <2> HIDE DEF w
    <2> QED  BY <1>1, QueueTail
  <1> HIDE DEF h
  <1> QED  BY <1>1, <1>2 DEF InPend

\* A round of drain_pending starts the slot's only load, or leaves it queued.
LEMMA OrderlyDrain ==
  ASSUME TypeInv, stopped = {}, PendOnce, \A t \in Slots : SlotFlags(t), DrainStep
  PROVE  Orderly'
  <1>1. /\ stopped' = {} /\ panics' = panics /\ nextJob \in Nat
        /\ pend \in [Priority -> Seq(RequestType)] /\ slot \in Seq(SlotType)
    BY DEF DrainStep, Others, TypeInv, IdsOK, CacheOK
  <1>2. PICK p \in Priority, s \in Slots :
          /\ pend[p] # <<>> /\ pend[p] \in Seq(RequestType) /\ s = Head(pend[p]).slot
          /\ \/ Waits(p) /\ SameLoads
             \/ Drops(p, s) /\ SameLoads
             \/ Starts(p, s) /\ BeginsLoad(s)
             \/ Postpones(p, s) /\ SameLoads
    BY DEF DrainStep
  <1>3. slot[s] \in SlotType
    BY <1>1, ElementOfSeq, LenProperties DEF Slots
  <1>4. InPend(s)
    BY <1>2, HeadQueued
  <1>5. slot[s].pending /\ ~slot[s].inFlight /\ ~slot[s].cancelled /\ OwnIds(s) = {}
    BY <1>4 DEF SlotFlags
  <1>6. CASE Waits(p) /\ SameLoads
    <2>1. PendOnce' /\ \A t : InPend(t)' <=> InPend(t)
      BY <1>1, <1>2, <1>6, PendRotated DEF Waits
    <2>2. slot' = slot
      BY <1>6 DEF Waits
    <2> QED  BY <1>1, <1>6, <2>1, <2>2, OwnSame, OrderlySame DEF Slots
  <1>7. CASE Starts(p, s) /\ BeginsLoad(s)
    <2> DEFINE v == WithJob(Loading(slot[s]), nextJob)
    <2>1. /\ v.pending = FALSE /\ v.inFlight = TRUE
          /\ v.cancelled = slot[s].cancelled /\ v.job = nextJob
      BY <1>1, <1>3, LoadingIs
    <2>2. OneSlot(s, v) /\ Dequeued(p)
      BY <1>7 DEF Starts
    <2>3. PICK j : j.id = nextJob /\ j.slot = s /\ LoadStep({}, "ioWaiting", {j})
      BY <1>7 DEF BeginsLoad
    <2>4. PendOnce' /\ \A t : InPend(t)' <=> InPend(t) /\ t # s
      BY <1>1, <1>2, <2>2, PendDequeued
    <2>5. "ioWaiting" \in Place
      BY DEF Place
    <2>6. \A t : OwnIds(t)' = OwnIds(t) \cup (IF t = s THEN {j.id} ELSE {})
      BY <2>3, <2>5, OwnAdd
    <2>7. slot'[s] = v /\ ~InPend(s)' /\ OwnIds(s)' = {j.id}
      BY <1>5, <2>2, <2>4, <2>6 DEF OneSlot
    <2> HIDE DEF v
    <2>8. SlotFlags(s)'
      BY <1>5, <2>1, <2>3, <2>7 DEF SlotFlags
    <2>9. \A t \in Slots : t # s => (InPend(t)' <=> InPend(t)) /\ OwnIds(t)' = OwnIds(t)
      BY <2>4, <2>6
    <2> QED  BY <1>1, <2>2, <2>4, <2>8, <2>9, OrderlyOne
  <1>8. CASE Postpones(p, s) /\ SameLoads
    <2> DEFINE v == Requeued(slot[s])
    <2>1. v.pending = TRUE /\ v.inFlight = FALSE /\ v.cancelled = slot[s].cancelled
      BY <1>3, RequeuedIs
    <2>2. OneSlot(s, v) /\ Rotated(p)
      BY <1>8 DEF Postpones
    <2>3. PendOnce' /\ \A t : InPend(t)' <=> InPend(t)
      BY <1>1, <1>2, <2>2, PendRotated
    <2>4. \A t : OwnIds(t)' = OwnIds(t)
      BY <1>8, OwnSame
    <2>5. slot'[s] = v /\ InPend(s)' /\ OwnIds(s)' = {}
      BY <1>4, <1>5, <2>2, <2>3, <2>4 DEF OneSlot
    <2> HIDE DEF v
    <2>6. SlotFlags(s)'
      BY <1>5, <2>1, <2>5 DEF SlotFlags
    <2> QED  BY <1>1, <2>2, <2>3, <2>4, <2>6, OrderlyOne
  <1>9. ~Drops(p, s)
    BY <1>5 DEF Drops
  <1> QED  BY <1>2, <1>6, <1>7, <1>8, <1>9

\* No cancellation yet: the step was none, and neither was one before.
LEMMA NobodyCancels ==
  ASSUME TypeInv, AnyStep, cancels' = 0
  PROVE  cancels = 0 /\ ~CancelStep
  <1>1. cancels \in Nat
    BY DEF TypeInv, CountsOK
  <1>2. ~CancelStep
    BY <1>1 DEF CancelStep, Cancellation
  <1> QED  BY <1>2 DEF AnyStep, IdleStep, ReloadStep, PurgeStep, MoveStep, LossStep,
           BackStep, DrainStep, Others

LEMMA OrderlyKept ==
  ASSUME TypeInv, UniqueIds, Orderly, [Next]_vars
  PROVE  Orderly'
  <1>1. TypeInv' /\ AnyStep
    BY TypesKept
  <1>2. CASE cancels' # 0
    BY <1>2 DEF Orderly
  <1>3. CASE cancels' = 0
    <2>1. panics' \in Nat
      BY <1>1 DEF TypeInv, CountsOK
    <2>2. ~CancelStep /\ cancels = 0
      BY <1>1, <1>3, NobodyCancels
    <2>3. stopped = {} /\ PendOnce /\ \A t \in Slots : SlotFlags(t)
      BY <2>2 DEF Orderly
    <2> QED  BY <1>1, <2>1, <2>2, <2>3, OrderlyReload, OrderlyMove, OrderlyBack, OrderlyDrain
             DEF AnyStep
  <1> QED  BY <1>2, <1>3

LEMMA InitOrderly == Init => Orderly
  <1> SUFFICES ASSUME Init PROVE Orderly
    OBVIOUS
  <1>1. stopped = {} /\ slot = <<>> /\ \A p \in Priority : pend[p] = <<>>
    BY DEF Init
  <1>2. PendOnce
    BY <1>1 DEF PendOnce, SlotOnce, Range
  <1>3. Slots = {}
    BY <1>1 DEF Slots
  <1> QED  BY <1>1, <1>2, <1>3 DEF Orderly

\* No slot is loaded twice at a time, as long as nobody cancels.
LEMMA OrderlyInvariant == Spec => [](TypeInv /\ UniqueIds /\ Orderly)
  <1>1. Init => Orderly
    BY InitOrderly
  <1>2. TypeInv /\ UniqueIds /\ Orderly /\ [Next]_vars => Orderly'
    BY OrderlyKept
  <1> QED  BY <1>1, <1>2, ShapesInvariant, PTL DEF Spec

-----------------------------------------------------------------------------
(* What the flags say, counted.                                            *)

Requests(s) ==
  {pi \in UNION {{p} \X DOMAIN pend[p] : p \in Priority} : pend[pi[1]][pi[2]].slot = s}
WaitingLoads(s) ==
  {qi \in Queue \X (1 .. Capacity) :
     qi[2] \in DOMAIN waiting[qi[1]] /\ IsLoad(waiting[qi[1]][qi[2]], s)}
RunningLoads(s) == {job \in running["io"] \cup running["cpu"] : IsLoad(job, s)}
DoneLoads(s) == {i \in DOMAIN channel : IsLoad(channel[i], s)}

LEMMA QueuedOnce ==
  ASSUME PendOnce, NEW s
  PROVE  LoadsQueued(s) = IF InPend(s) THEN 1 ELSE 0
  <1>1. LoadsQueued(s) = Cardinality(Requests(s))
    BY DEF LoadsQueued, Requests
  <1>2. CASE InPend(s)
    <2>1. PICK p \in Priority : \E r \in Range(pend[p]) : r.slot = s
      BY <1>2 DEF InPend
    <2>2. PICK i \in DOMAIN pend[p] : pend[p][i].slot = s
      BY <2>1 DEF Range
    <2>3. <<p, i>> \in Requests(s)
      BY <2>2 DEF Requests
    <2>4. ASSUME NEW pi \in Requests(s) PROVE pi = <<p, i>>
      <3>1. PICK q \in Priority : pi \in {q} \X DOMAIN pend[q]
        BY DEF Requests
      <3>2. pi = <<q, pi[2]>> /\ pi[2] \in DOMAIN pend[q] /\ pend[q][pi[2]].slot = s
        BY <3>1 DEF Requests
      <3>3. q = p
        BY <2>2, <3>2 DEF PendOnce, Range
      <3> QED  BY <2>2, <3>2, <3>3 DEF PendOnce, SlotOnce
    <2>5. Requests(s) = {<<p, i>>}
      BY <2>3, <2>4
    <2> QED  BY <1>1, <1>2, <2>5, FS_Singleton
  <1>3. CASE ~InPend(s)
    <2>1. Requests(s) = {}
      BY <1>3 DEF Requests, InPend, Range
    <2> QED  BY <1>1, <1>3, <2>1, FS_EmptySet
  <1> QED  BY <1>2, <1>3

\* Where the loads are that LoadsInJobs counts.
LEMMA LoadsPlaced ==
  ASSUME NEW s
  PROVE  /\ \A qi \in WaitingLoads(s) :
              LET j == waiting[qi[1]][qi[2]]
              IN /\ qi = <<qi[1], qi[2]>> /\ qi[1] \in Queue /\ qi[2] \in DOMAIN waiting[qi[1]]
                 /\ j \in Loads /\ j.slot = s /\ j \in held[QueueOf(qi[1])]
         /\ \A j \in RunningLoads(s) :
              /\ j \in Loads /\ j.slot = s /\ (j \in held["ioRunning"] \/ j \in held["cpuRunning"])
         /\ \A i \in DoneLoads(s) :
              /\ i \in DOMAIN channel /\ channel[i] \in Loads /\ channel[i].slot = s
              /\ channel[i] \in held["done"]
  <1>1. \A x \in Place : \A j \in held[x] : IsLoad(j, s) => j \in Loads /\ j.slot = s
    BY DEF Loads, LoadIn, IsLoad
  <1>2. ASSUME NEW qi \in WaitingLoads(s)
        PROVE  LET j == waiting[qi[1]][qi[2]]
               IN /\ qi = <<qi[1], qi[2]>> /\ qi[1] \in Queue /\ qi[2] \in DOMAIN waiting[qi[1]]
                  /\ j \in Loads /\ j.slot = s /\ j \in held[QueueOf(qi[1])]
    <2> DEFINE j == waiting[qi[1]][qi[2]]
    <2>1. /\ qi = <<qi[1], qi[2]>> /\ qi[1] \in Queue /\ qi[2] \in DOMAIN waiting[qi[1]]
          /\ IsLoad(j, s)
      BY DEF WaitingLoads
    <2>2. j \in Range(waiting[qi[1]])
      BY <2>1 DEF Range
    <2>3. j \in held[QueueOf(qi[1])] /\ QueueOf(qi[1]) \in Place
      BY <2>1, <2>2, HeldIs
    <2> QED  BY <1>1, <2>1, <2>3
  <1>3. \A j \in RunningLoads(s) :
              /\ j \in Loads /\ j.slot = s /\ (j \in held["ioRunning"] \/ j \in held["cpuRunning"])
    BY <1>1, HeldIs DEF RunningLoads
  <1>4. \A i \in DoneLoads(s) :
              /\ i \in DOMAIN channel /\ channel[i] \in Loads /\ channel[i].slot = s
              /\ channel[i] \in held["done"]
    BY <1>1, HeldIs DEF DoneLoads, Range
  <1> QED  BY <1>2, <1>3, <1>4

LEMMA NoLoad ==
  ASSUME NEW s, OwnIds(s) = {}
  PROVE  LoadsInJobs(s) = 0
  <1>1. \A j \in Loads : j.slot # s
    BY DEF OwnIds
  <1>2. WaitingLoads(s) = {} /\ RunningLoads(s) = {} /\ DoneLoads(s) = {}
    BY <1>1, LoadsPlaced
  <1>3. LoadsInJobs(s) =
          Cardinality(WaitingLoads(s)) + Cardinality(RunningLoads(s)) + Cardinality(DoneLoads(s))
    BY DEF LoadsInJobs, WaitingLoads, RunningLoads, DoneLoads
  <1> QED  BY <1>2, <1>3, FS_EmptySet

LEMMA OneLoad ==
  ASSUME TypeInv, UniqueIds, NEW j \in Loads, \A id \in OwnIds(j.slot) : id = j.id
  PROVE  LoadsInJobs(j.slot) = 1
  <1> DEFINE s == j.slot
             W == WaitingLoads(s)
             R == RunningLoads(s)
             D == DoneLoads(s)
  <1>1. ASSUME NEW i \in Loads, i.slot = s PROVE i = j
    <2>1. i.id \in OwnIds(s)
      BY <1>1 DEF OwnIds
    <2> QED  BY <2>1, LoadsApart
  <1>2. LoadsInJobs(s) = Cardinality(W) + Cardinality(R) + Cardinality(D)
    BY DEF LoadsInJobs, WaitingLoads, RunningLoads, DoneLoads
  <1>3. PICK x \in Place : j \in held[x] /\ j.for \in Load
    BY DEF Loads, LoadIn
  <1>4. \A y \in Place : j \in held[y] => y = x
    BY <1>3 DEF UniqueIds, Unique
  <1>5. IsLoad(j, s)
    BY <1>3 DEF IsLoad
  <1>6. /\ \A qi \in W : /\ qi = <<qi[1], qi[2]>> /\ qi[1] \in Queue /\ qi[2] \in DOMAIN waiting[qi[1]]
                         /\ waiting[qi[1]][qi[2]] = j /\ x = QueueOf(qi[1])
        /\ R \subseteq {j} /\ (R # {} => x \in {"ioRunning", "cpuRunning"})
        /\ \A i \in D : i \in DOMAIN channel /\ channel[i] = j /\ x = "done"
    <2>1. \A qi \in W : /\ qi = <<qi[1], qi[2]>> /\ qi[1] \in Queue /\ qi[2] \in DOMAIN waiting[qi[1]]
                        /\ waiting[qi[1]][qi[2]] = j /\ x = QueueOf(qi[1])
      BY <1>1, <1>4, LoadsPlaced, HeldIs
    <2>2. R \subseteq {j} /\ (R # {} => x \in {"ioRunning", "cpuRunning"})
      BY <1>1, <1>4, LoadsPlaced, HeldIs
    <2>3. \A i \in D : i \in DOMAIN channel /\ channel[i] = j /\ x = "done"
      BY <1>1, <1>4, LoadsPlaced, HeldIs
    <2> QED  BY <2>1, <2>2, <2>3
  <1>7. \A q \in Queue : EachOnce(waiting[q])
    BY DEF UniqueIds, Queue
  <1> HIDE DEF W, R, D
  <1>12. Cardinality({}) = 0 /\ \A z : Cardinality({z}) = 1
    BY FS_EmptySet, FS_Singleton
  <1>8. CASE x = "done"
    <2>1. W = {} /\ R = {}
      BY <1>6, <1>8 DEF QueueOf
    <2>2. PICK i \in DOMAIN channel : channel[i] = j
      BY <1>3, <1>8, HeldIs DEF Range
    <2>3. D = {i}
      <3>1. i \in D
        BY <1>5, <2>2 DEF D, DoneLoads
      <3>2. \A k \in D : k = i
        BY <1>6, <2>2 DEF UniqueIds, EachOnce
      <3> QED  BY <3>1, <3>2
    <2>5. Cardinality(W) = 0 /\ Cardinality(R) = 0
      BY <1>12, <2>1
    <2>6. Cardinality(D) = 1
      BY <1>12, <2>3
    <2> QED  BY <1>2, <2>5, <2>6
  <1>9. CASE x \in {"ioRunning", "cpuRunning"}
    <2>1. W = {} /\ D = {}
      BY <1>6, <1>9 DEF QueueOf
    <2>2. R = {j}
      <3>1. j \in R
        BY <1>3, <1>5, <1>9, HeldIs DEF R, RunningLoads
      <3> QED  BY <1>6, <3>1
    <2>5. Cardinality(W) = 0 /\ Cardinality(D) = 0
      BY <1>12, <2>1
    <2>6. Cardinality(R) = 1
      BY <1>12, <2>2
    <2> QED  BY <1>2, <2>5, <2>6
  <1>10. ASSUME NEW q \in Queue, x = QueueOf(q) PROVE LoadsInJobs(s) = 1
    <2>1. R = {} /\ D = {}
      BY <1>6, <1>10 DEF QueueOf
    <2>2. j \in Range(waiting[q])
      BY <1>3, <1>10, HeldIs
    <2>3. PICK i \in DOMAIN waiting[q] : waiting[q][i] = j
      BY <2>2 DEF Range
    <2>4. W = {<<q, i>>}
      <3>1. i \in 1 .. Capacity
        <4>1. waiting[q] \in Seq(ReadJob \cup CommandJob \cup DecodeJob) /\ Len(waiting[q]) <= Capacity
          BY DEF TypeInv, QueuesOK
        <4> HIDE DEF s
        <4>2. DOMAIN waiting[q] = 1 .. Len(waiting[q]) /\ Len(waiting[q]) \in Nat
          BY <4>1, LenProperties
        <4> QED  BY <2>3, <4>1, <4>2, ConstantFacts
      <3>2. <<q, i>> \in W
        BY <1>5, <2>3, <3>1 DEF W, WaitingLoads
      <3>3. ASSUME NEW qi \in W PROVE qi = <<q, i>>
        <4>1. /\ qi = <<qi[1], qi[2]>> /\ qi[1] \in Queue /\ qi[2] \in DOMAIN waiting[qi[1]]
              /\ waiting[qi[1]][qi[2]] = j /\ x = QueueOf(qi[1])
          BY <1>6
        <4>2. qi[1] = q
          BY <1>10, <4>1 DEF QueueOf, Queue
        <4>3. qi[2] = i
          BY <1>7, <2>3, <4>1, <4>2 DEF EachOnce
        <4> QED  BY <4>1, <4>2, <4>3
      <3> QED  BY <3>2, <3>3
    <2>5. Cardinality(R) = 0 /\ Cardinality(D) = 0
      BY <1>12, <2>1
    <2>6. Cardinality(W) = 1
      BY <1>12, <2>4
    <2> QED  BY <1>2, <2>5, <2>6
  <1>11. x \in {"ioRunning", "cpuRunning"} \/ x = "done" \/ \E q \in Queue : x = QueueOf(q)
    BY HeldIs DEF QueueOf, Queue
  <1> QED  BY <1>8, <1>9, <1>10, <1>11

LEMMA OrderlyCounts == TypeInv /\ UniqueIds /\ Orderly => OneLoadPerSlot
  <1> SUFFICES ASSUME TypeInv, UniqueIds, Orderly PROVE OneLoadPerSlot
    OBVIOUS
  <1>1. TypeOK
    BY ShapesImplyTypes
  <1>2. ASSUME cancels = 0, NEW s \in Slots
        PROVE  /\ LoadsQueued(s) = (IF slot[s].pending THEN 1 ELSE 0)
               /\ LoadsInJobs(s) <= (IF slot[s].inFlight THEN 1 ELSE 0)
               /\ slot[s].inFlight /\ panics = 0 => LoadsInJobs(s) = 1
    <2>1. PendOnce /\ SlotFlags(s)
      BY <1>2 DEF Orderly
    <2>2. LoadsQueued(s) = (IF slot[s].pending THEN 1 ELSE 0)
      BY <2>1, QueuedOnce DEF SlotFlags
    <2>3. CASE OwnIds(s) = {}
      <3>1. LoadsInJobs(s) = 0
        BY <2>3, NoLoad
      <3> QED  BY <2>1, <2>2, <2>3, <3>1 DEF SlotFlags
    <2>4. CASE OwnIds(s) # {}
      <3>1. PICK j \in Loads : j.slot = s /\ j.id \in OwnIds(s)
        BY <2>4 DEF OwnIds
      <3>2. \A id \in OwnIds(j.slot) : id = j.id
        BY <2>1, <3>1 DEF SlotFlags
      <3>3. LoadsInJobs(s) = 1 /\ slot[s].inFlight
        BY <2>1, <3>1, <3>2, OneLoad DEF SlotFlags
      <3> QED  BY <2>2, <3>3
    <2> QED  BY <2>3, <2>4
  <1> QED  BY <1>1, <1>2 DEF OneLoadPerSlot

\* A slot is queued for loading, or has a job on its way, exactly when its flags
\* say so, and never twice: requests and reloads of a key coalesce (request,
\* reload, drain_pending).
THEOREM LoadsCoalesce == Spec => []OneLoadPerSlot
  BY OrderlyInvariant, OrderlyCounts, PTL

-----------------------------------------------------------------------------
(* What the cache shows, as long as nobody cancels.                        *)

\* A load stays as fresh as it was if its key is not asked for again.
LEMMA FreshSame ==
  ASSUME NEW j, LoadFresh(j), slot'[j.slot].key = slot[j.slot].key,
         entries'[slot[j.slot].key] = j.slot =>
           /\ entries[slot[j.slot].key] = j.slot
           /\ wanted'[slot[j.slot].key] = wanted[slot[j.slot].key]
  PROVE  LoadFresh(j)'
  BY DEF LoadFresh

\* A slot that keeps what these fields say stays good.
LEMMA GoodSame ==
  ASSUME NEW t, SlotGood(t),
         slot'[t].val = slot[t].val, slot'[t].pending = slot[t].pending,
         slot'[t].inFlight = slot[t].inFlight, slot'[t].retain = slot[t].retain,
         slot'[t].status = slot[t].status, slot'[t].err = slot[t].err,
         \A k \in Key : entries'[k] = t => entries[k] = t /\ wanted'[k] = wanted[k]
  PROVE  SlotGood(t)'
  BY DEF SlotGood, Busy

LEMMA GoodKept ==
  ASSUME NEW t, SlotGood(t), slot'[t] = slot[t],
         \A k \in Key : entries'[k] = t => entries[k] = t /\ wanted'[k] = wanted[k]
  PROVE  SlotGood(t)'
  BY GoodSame

\* Each key has a slot of its own.
LEMMA EntryFacts ==
  ASSUME TypeInv
  PROVE  /\ \A j \in Loads : j.slot \in Slots /\ slot[j.slot].key \in Key
         /\ \A s \in Slots : slot[s] \in SlotType
         /\ \A k, l \in Key : entries[k] \in Slots /\ entries[k] = entries[l] => k = l
         /\ entries \in [Key -> Nat \cup {None}] /\ wanted \in [Key -> Nat]
         /\ \A k \in Key : entries[k] # None => entries[k] \in Slots
         /\ \A k \in Key : disk[k].ver \in Nat /\ wanted[k] <= disk[k].ver
         /\ None \notin Nat /\ Slots \subseteq Nat
  <1>1. \A s \in Slots : slot[s] \in SlotType
    BY ElementOfSeq, LenProperties DEF TypeInv, CacheOK, Slots
  <1>2. \A j \in Loads : j.slot \in Slots
    BY DEF TypeInv, LinksOK
  <1>3. \A s \in Slots : slot[s].key \in Key
    BY <1>1 DEF SlotType
  <1>4. Slots \subseteq Nat /\ None \notin Nat
    <2>1. slot \in Seq(SlotType)
      BY DEF TypeInv, CacheOK
    <2>2. Slots = 1 .. Len(slot) /\ Len(slot) \in Nat
      BY <2>1, LenProperties DEF Slots
    <2> QED  BY <2>2, ConstantFacts
  <1>5. \A k \in Key : entries[k] # None => entries[k] \in Slots /\ slot[entries[k]].key = k
    BY DEF TypeInv, CacheOK
  <1>6. \A k, l \in Key : entries[k] \in Slots /\ entries[k] = entries[l] => k = l
    BY <1>4, <1>5
  <1>7. /\ entries \in [Key -> Nat \cup {None}] /\ wanted \in [Key -> Nat]
        /\ \A k \in Key : disk[k].ver \in Nat /\ wanted[k] <= disk[k].ver
    BY DEF TypeInv, CacheOK, FilesOK, File
  <1> QED  BY <1>1, <1>2, <1>3, <1>4, <1>5, <1>6, <1>7

\* An accepted load.
LEMMA GoodReload ==
  ASSUME TypeInv, \A t \in Slots : SlotFlags(t), ReloadStep,
         \A j \in Loads : LoadFresh(j), \A s \in Slots : SlotGood(s)
  PROVE  (\A j \in Loads' : LoadFresh(j)') /\ \A s \in DOMAIN slot' : SlotGood(s)'
  <1>1. PICK k \in Key, o \in OptsType : Registers(k, o) \/ Requeues(k, o)
    BY DEF ReloadStep
  <1>2. Loads' = Loads
    BY SameLoadsStep DEF ReloadStep
  <1>3. wanted' = [wanted EXCEPT ![k] = disk[k].ver]
    BY <1>1 DEF Registers, Requeues
  <1>4. CASE Registers(k, o)
    <2>1. PICK n \in Nat : n = Len(slot) + 1
      BY DEF TypeInv, CacheOK
    <2>2. /\ DOMAIN slot' = Slots \cup {n} /\ n \notin Slots /\ \A t \in Slots : slot'[t] = slot[t]
          /\ slot'[n] = MadeSlot(k) /\ entries' = [entries EXCEPT ![k] = n] /\ entries[k] = None
      BY <1>4, <2>1 DEF Registers, Made
    <2>3. slot'[n].val = None
      BY <2>2, MadeSlotIs
    <2>4. \A l \in Key : entries'[l] = IF l = k THEN n ELSE entries[l]
      BY <2>2, EntryFacts
    <2>5. \A l \in Key : wanted'[l] = IF l = k THEN disk[k].ver ELSE wanted[l]
      BY <1>3, EntryFacts
    <2>6. ASSUME NEW j \in Loads PROVE LoadFresh(j)'
      <3>1. j.slot \in Slots /\ slot'[j.slot] = slot[j.slot] /\ slot[j.slot].key \in Key
        BY <2>2, EntryFacts
      <3> QED  BY <2>2, <2>4, <2>5, <3>1, FreshSame
    <2>7. ASSUME NEW s \in DOMAIN slot' PROVE SlotGood(s)'
      <3>1. CASE s = n
        BY <2>3, <3>1 DEF SlotGood
      <3>2. CASE s \in Slots
        BY <2>2, <2>4, <2>5, <3>2, GoodKept
      <3> QED  BY <2>2, <3>1, <3>2
    <2> QED  BY <1>2, <2>6, <2>7
  <1>5. CASE Requeues(k, o)
    <2>1. PICK n \in Slots : n = entries[k]
      BY <1>5 DEF Requeues
    <2> DEFINE v == Reloading(slot[n])
    <2>2. ~Busy(slot[n]) /\ OneSlot(n, v) /\ slot[n] \in SlotType /\ entries' = entries
      BY <1>5, <2>1 DEF Requeues, OneSlot
    <2>3. v.key = slot[n].key /\ v.val = slot[n].val /\ v.pending = TRUE /\ v.retain = (slot[n].val # None)
      BY <2>2, ReloadingIs
    <2> HIDE DEF v
    <2>4. /\ DOMAIN slot' = Slots
          /\ \A t \in Slots : slot'[t] = IF t = n THEN v ELSE slot[t]
      BY <2>2 DEF OneSlot
    <2>5. \A l \in Key : wanted'[l] = IF l = k THEN disk[k].ver ELSE wanted[l]
      BY <1>3, EntryFacts
    <2>6. ASSUME NEW j \in Loads PROVE LoadFresh(j)'
      <3>1. j.slot # n
        BY <2>2 DEF SlotFlags, OwnIds, Busy
      <3>2. j.slot \in Slots /\ slot'[j.slot] = slot[j.slot] /\ slot[j.slot].key \in Key
        BY <2>4, <3>1, EntryFacts
      <3> QED  BY <2>1, <2>2, <2>5, <3>1, <3>2, FreshSame
    <2>7. ASSUME NEW s \in Slots PROVE SlotGood(s)'
      <3>1. CASE s = n
        BY <2>3, <2>4, <3>1 DEF SlotGood, Busy
      <3>2. CASE s # n
        BY <2>1, <2>2, <2>4, <2>5, <3>2, GoodKept
      <3> QED  BY <3>1, <3>2
    <2> QED  BY <1>2, <2>4, <2>6, <2>7
  <1> QED  BY <1>1, <1>4, <1>5

\* A purge.
LEMMA GoodPurge ==
  ASSUME TypeInv, PurgeStep, \A j \in Loads : LoadFresh(j), \A s \in Slots : SlotGood(s)
  PROVE  (\A j \in Loads' : LoadFresh(j)') /\ \A s \in DOMAIN slot' : SlotGood(s)'
  <1>1. PICK k \in Key : Purges(k)
    BY DEF PurgeStep
  <1>2. Loads' = Loads
    BY SameLoadsStep DEF PurgeStep
  <1>3. PICK n \in Slots : n = entries[k]
    BY <1>1 DEF Purges
  <1> DEFINE v == Purged(slot[n])
  <1>4. /\ OneSlot(n, v) /\ slot[n] \in SlotType /\ entries' = [entries EXCEPT ![k] = None]
        /\ wanted' = [wanted EXCEPT ![k] = disk[k].ver]
    BY <1>1, <1>3 DEF Purges, OneSlot
  <1>5. /\ v.key = slot[n].key /\ v.val = slot[n].val /\ v.pending = slot[n].pending
        /\ v.inFlight = slot[n].inFlight /\ v.retain = slot[n].retain
    BY <1>4, PurgedIs
  <1> HIDE DEF v
  <1>6. /\ DOMAIN slot' = Slots
        /\ \A t \in Slots : slot'[t] = IF t = n THEN v ELSE slot[t]
    BY <1>4 DEF OneSlot
  <1>7. \A l \in Key : /\ wanted'[l] = IF l = k THEN disk[k].ver ELSE wanted[l]
                       /\ entries'[l] = IF l = k THEN None ELSE entries[l]
    BY <1>4, EntryFacts
  <1>8. ASSUME NEW j \in Loads PROVE LoadFresh(j)'
    <2>1. j.slot \in Slots /\ slot'[j.slot].key = slot[j.slot].key /\ slot[j.slot].key \in Key
          /\ j.slot # None
      BY <1>5, <1>6, EntryFacts
    <2> QED  BY <1>7, <2>1, FreshSame
  <1>9. ASSUME NEW s \in Slots PROVE SlotGood(s)'
    <2>1. s # None
      BY EntryFacts
    <2>2. CASE s = n
      <3>1. \A l \in Key : entries'[l] # n
        BY <1>3, <1>7, <2>1, <2>2, EntryFacts
      <3> QED  BY <1>5, <1>6, <2>2, <3>1 DEF SlotGood, Busy
    <2>3. CASE s # n
      BY <1>6, <1>7, <2>1, <2>3, GoodKept
    <2> QED  BY <2>2, <2>3
  <1> QED  BY <1>2, <1>6, <1>8, <1>9

\* Loads that go on or are lost.
LEMMA GoodMove ==
  ASSUME TypeInv, IdleStep \/ MoveStep \/ LossStep,
         \A j \in Loads : LoadFresh(j), \A s \in Slots : SlotGood(s)
  PROVE  (\A j \in Loads' : LoadFresh(j)') /\ \A s \in DOMAIN slot' : SlotGood(s)'
  <1>1. entries' = entries /\ slot' = slot /\ wanted' = wanted
    BY DEF IdleStep, MoveStep, LossStep, SameCache
  <1>2. \A s \in DOMAIN slot' : SlotGood(s)'
    BY <1>1, GoodKept DEF Slots
  <1>3. ASSUME NEW j \in Loads PROVE LoadFresh(j)'
    BY <1>1, FreshSame
  <1>4. CASE IdleStep
    BY <1>2, <1>3, <1>4, SameLoadsStep DEF IdleStep
  <1>5. CASE MoveStep
    <2>1. PICK x \in Place \ {"done"}, y \in Place : \E j \in LoadIn(x) : \E b :
                 Onwards(j, b) /\ LoadStep({j}, y, {b})
      BY <1>5 DEF MoveStep
    <2>2. PICK j \in LoadIn(x) : \E b : Onwards(j, b) /\ LoadStep({j}, y, {b})
      BY <2>1
    <2>3. PICK b : Onwards(j, b) /\ LoadStep({j}, y, {b})
      BY <2>2
    <2>4. j \in Loads /\ Loads' \subseteq Loads \cup {b}
      BY <2>3, LoadsOfStep DEF Loads
    <2>5. LoadFresh(b)'
      <3>1. slot[j.slot].key \in Key
        BY <2>4, EntryFacts
      <3>2. CASE b.data = j.data
        BY <1>1, <2>3, <2>4, <3>2 DEF Onwards, LoadFresh
      <3>3. CASE b.data = disk[slot[j.slot].key]
        BY <1>1, <2>3, <3>1, <3>3, EntryFacts DEF Onwards, LoadFresh
      <3> QED  BY <2>3, <3>2, <3>3 DEF Onwards
    <2> QED  BY <1>2, <1>3, <2>4, <2>5
  <1>6. CASE LossStep
    <2>1. PICK x \in Place \ {"done"}, y \in Place : \E j \in LoadIn(x) : LoadStep({j}, y, {})
      BY <1>6 DEF LossStep
    <2>2. Loads' \subseteq Loads
      BY <2>1, LoadsOfStep
    <2> QED  BY <1>2, <1>3, <2>2
  <1> QED  BY <1>4, <1>5, <1>6

\* One slot changes; its key and the entries stay, and loads only go.
LEMMA GoodOne ==
  ASSUME TypeInv, \A j \in Loads : LoadFresh(j), \A s \in Slots : SlotGood(s),
         entries' = entries, wanted' = wanted, NEW n, NEW v, OneSlot(n, v), v.key = slot[n].key,
         SlotGood(n)', \A j \in Loads' : j \in Loads \/ LoadFresh(j)'
  PROVE  (\A j \in Loads' : LoadFresh(j)') /\ \A s \in DOMAIN slot' : SlotGood(s)'
  <1>1. /\ DOMAIN slot' = Slots
        /\ \A t \in Slots : slot'[t] = IF t = n THEN v ELSE slot[t]
    BY DEF OneSlot
  <1>2. ASSUME NEW j \in Loads PROVE LoadFresh(j)'
    <2>1. j.slot \in Slots
      BY EntryFacts
    <2>2. slot'[j.slot].key = slot[j.slot].key
      BY <1>1, <2>1
    <2> QED  BY <2>2, FreshSame
  <1>3. ASSUME NEW s \in Slots PROVE SlotGood(s)'
    BY <1>1, GoodKept
  <1> QED  BY <1>1, <1>2, <1>3

\* A completion's callback.
LEMMA GoodBack ==
  ASSUME TypeInv, \A t \in Slots : SlotFlags(t), BackStep,
         \A j \in Loads : LoadFresh(j), \A s \in Slots : SlotGood(s)
  PROVE  (\A j \in Loads' : LoadFresh(j)') /\ \A s \in DOMAIN slot' : SlotGood(s)'
  <1>1. entries' = entries /\ wanted' = wanted /\ nextJob \in Nat
    BY DEF BackStep, TypeInv, IdsOK
  <1>2. PICK h \in LoadIn("done") : h.slot \in Slots /\ (Fails(h) \/ GoesOn(h) \/ Publishes(h))
    BY DEF BackStep
  <1>3. h \in Loads /\ "cpuWaiting" \in Place
    BY DEF Loads, Place
  <1> DEFINE n == h.slot
  <1>4. n \in Slots /\ slot[n] \in SlotType /\ slot[n].key \in Key
    BY <1>2, EntryFacts DEF SlotType
  <1>5. Busy(slot[n]) /\ slot[n].inFlight
    <2>1. h.id \in OwnIds(n)
      BY <1>3 DEF OwnIds
    <2> QED  BY <1>4, <2>1 DEF SlotFlags, Busy
  <1>6. CASE Fails(h)
    <2> DEFINE v == Failed(slot[n])
    <2>1. /\ v.key = slot[n].key /\ v.val = slot[n].val /\ v.err = TRUE
          /\ v.pending = FALSE /\ v.inFlight = FALSE
          /\ v.status = IF slot[n].retain /\ slot[n].val # None THEN "Ready" ELSE "Failed"
      BY <1>4, FailedIs
    <2>2. OneSlot(n, v) /\ Loads' \subseteq Loads
      BY <1>6, LoadsOfStep DEF Fails
    <2> HIDE DEF v
    <2>3. slot'[n] = v
      BY <1>4, <2>2 DEF OneSlot
    <2>4. SlotGood(n)'
      BY <1>4, <1>5, <2>1, <2>3 DEF SlotGood, Busy
    <2> HIDE DEF n
    <2> QED  BY <1>1, <2>1, <2>2, <2>4, GoodOne
  <1>7. CASE Publishes(h)
    <2> DEFINE v == Finished(slot[n], h.data.ver)
    <2>0. h.data \in File /\ h.data.ver \in Nat
      BY <1>7 DEF Publishes, File
    <2>1. /\ v.key = slot[n].key /\ v.val = h.data.ver /\ v.err = FALSE
          /\ v.pending = FALSE /\ v.inFlight = FALSE /\ v.status = "Ready"
      BY <1>4, <2>0, FinishedIs
    <2>2. OneSlot(n, v) /\ Loads' \subseteq Loads
      BY <1>7, LoadsOfStep DEF Publishes
    <2> HIDE DEF v
    <2>3. slot'[n] = v
      BY <1>4, <2>2 DEF OneSlot
    <2>4. \A k \in Key : entries[k] = n => h.data.ver >= wanted[k]
      <3>1. h.data # None
        BY <2>0, ConstantFacts
      <3>2. \A k \in Key : entries[k] = n => k = slot[n].key
        BY <1>4, EntryFacts DEF TypeInv, CacheOK
      <3> QED  BY <1>3, <3>1, <3>2 DEF LoadFresh
    <2>5. SlotGood(n)'
      BY <1>1, <2>1, <2>3, <2>4 DEF SlotGood, Busy
    <2> HIDE DEF n
    <2> QED  BY <1>1, <2>1, <2>2, <2>5, GoodOne
  <1>8. CASE GoesOn(h)
    <2> DEFINE v == WithJob(slot[n], nextJob)
    <2>1. /\ v.key = slot[n].key /\ v.val = slot[n].val /\ v.err = slot[n].err
          /\ v.pending = slot[n].pending /\ v.inFlight = slot[n].inFlight
          /\ v.retain = slot[n].retain /\ v.status = slot[n].status
      BY <1>1, <1>4, WithJobIs
    <2>2. PICK b : b.slot = h.slot /\ b.data = h.data /\ LoadStep({h}, "cpuWaiting", {b})
      BY <1>8 DEF GoesOn
    <2>3. OneSlot(n, v) /\ Loads' \subseteq Loads \cup {b}
      BY <1>8, <2>2, LoadsOfStep DEF GoesOn
    <2> HIDE DEF v
    <2>4. slot'[n] = v
      BY <1>4, <2>3 DEF OneSlot
    <2>5. SlotGood(n)'
      BY <1>1, <1>4, <2>1, <2>4, GoodSame
    <2>6. LoadFresh(b)'
      BY <1>1, <1>3, <2>1, <2>2, <2>4 DEF LoadFresh
    <2>7. \A j \in Loads' : j \in Loads \/ LoadFresh(j)'
      BY <2>3, <2>6
    <2> HIDE DEF n
    <2> QED  BY <1>1, <2>1, <2>3, <2>5, <2>7, GoodOne
  <1> QED  BY <1>2, <1>6, <1>7, <1>8

\* A round of drain_pending.
LEMMA GoodDrain ==
  ASSUME TypeInv, PendOnce, \A t \in Slots : SlotFlags(t), DrainStep,
         \A j \in Loads : LoadFresh(j), \A s \in Slots : SlotGood(s)
  PROVE  (\A j \in Loads' : LoadFresh(j)') /\ \A s \in DOMAIN slot' : SlotGood(s)'
  <1>1. entries' = entries /\ wanted' = wanted /\ nextJob \in Nat
    BY DEF DrainStep, TypeInv, IdsOK
  <1>2. PICK p \in Priority, n \in Slots :
          /\ pend[p] # <<>> /\ pend[p] \in Seq(RequestType) /\ n = Head(pend[p]).slot
          /\ \/ Waits(p) /\ SameLoads
             \/ Drops(p, n) /\ SameLoads
             \/ Starts(p, n) /\ BeginsLoad(n)
             \/ Postpones(p, n) /\ SameLoads
    BY DEF DrainStep
  <1>3. slot[n] \in SlotType
    BY EntryFacts
  <1>4. slot[n].pending /\ ~slot[n].cancelled
    BY <1>2, HeadQueued DEF SlotFlags
  <1>5. CASE Waits(p) /\ SameLoads
    <2>1. slot' = slot /\ Loads' = Loads
      BY <1>5, SameLoadsStep DEF Waits
    <2>2. \A j \in Loads : LoadFresh(j)'
      BY <1>1, <2>1, FreshSame
    <2>3. \A s \in Slots : SlotGood(s)'
      BY <1>1, <2>1, GoodKept
    <2> QED  BY <2>1, <2>2, <2>3 DEF Slots
  <1>6. CASE Starts(p, n) /\ BeginsLoad(n)
    <2> DEFINE v == WithJob(Loading(slot[n]), nextJob)
    <2>1. /\ v.key = slot[n].key /\ v.val = slot[n].val
          /\ v.inFlight = TRUE /\ v.retain = slot[n].retain
      BY <1>1, <1>3, LoadingIs
    <2>2. PICK j : j.data = None /\ LoadStep({}, "ioWaiting", {j})
      BY <1>6 DEF BeginsLoad
    <2>3. OneSlot(n, v) /\ Loads' \subseteq Loads \cup {j}
      BY <1>6, <2>2, LoadsOfStep DEF Starts
    <2> HIDE DEF v
    <2>4. slot'[n] = v
      BY <2>3 DEF OneSlot
    <2>5. SlotGood(n)'
      BY <1>4, <2>1, <2>4 DEF SlotGood, Busy
    <2>6. \A i \in Loads' : i \in Loads \/ LoadFresh(i)'
      BY <2>2, <2>3 DEF LoadFresh
    <2> QED  BY <1>1, <2>1, <2>3, <2>5, <2>6, GoodOne
  <1>7. CASE Postpones(p, n) /\ SameLoads
    <2> DEFINE v == Requeued(slot[n])
    <2>1. /\ v.key = slot[n].key /\ v.val = slot[n].val
          /\ v.pending = TRUE /\ v.retain = slot[n].retain
      BY <1>3, RequeuedIs
    <2>2. OneSlot(n, v) /\ Loads' = Loads
      BY <1>7, SameLoadsStep DEF Postpones
    <2> HIDE DEF v
    <2>3. slot'[n] = v
      BY <2>2 DEF OneSlot
    <2>4. SlotGood(n)'
      BY <1>4, <2>1, <2>3 DEF SlotGood, Busy
    <2> QED  BY <1>1, <2>1, <2>2, <2>4, GoodOne
  <1>8. ~Drops(p, n)
    BY <1>4 DEF Drops
  <1> QED  BY <1>2, <1>5, <1>6, <1>7, <1>8

LEMMA CacheKept ==
  ASSUME TypeInv, UniqueIds, Orderly, CacheInv, [Next]_vars
  PROVE  CacheInv'
  <1>1. TypeInv' /\ AnyStep
    BY TypesKept
  <1>2. CASE cancels' # 0
    BY <1>2 DEF CacheInv
  <1>3. CASE cancels' = 0
    <2>1. cancels = 0 /\ ~CancelStep
      BY <1>1, <1>3, NobodyCancels
    <2>2. /\ PendOnce /\ \A t \in Slots : SlotFlags(t)
          /\ (\A j \in Loads : LoadFresh(j)) /\ \A s \in Slots : SlotGood(s)
      BY <2>1 DEF Orderly, CacheInv
    <2>3. (\A j \in Loads' : LoadFresh(j)') /\ \A s \in DOMAIN slot' : SlotGood(s)'
      BY <1>1, <2>1, <2>2, GoodReload, GoodPurge, GoodMove, GoodBack, GoodDrain DEF AnyStep
    <2> QED  BY <2>3 DEF CacheInv, Slots
  <1> QED  BY <1>2, <1>3

LEMMA InitCache == Init => CacheInv
  <1> SUFFICES ASSUME Init PROVE CacheInv
    OBVIOUS
  <1>1. Slots = {}
    BY DEF Init, Slots
  <1>2. \A j \in Loads : j.slot \in Slots
    BY InitTypes, EntryFacts
  <1> QED  BY <1>1, <1>2 DEF CacheInv

LEMMA CacheShows == TypeInv /\ CacheInv => CacheTrue
  <1> SUFFICES ASSUME TypeInv, CacheInv, cancels = 0, NEW k \in Key, NEW s, s = entries[k],
                      s # None, ~Busy(slot[s]), slot[s].val # None
               PROVE  /\ slot[s].status = "Ready"
                      /\ ~slot[s].err => slot[s].val >= wanted[k]
    BY DEF CacheTrue, FreshAfterReload, LastGoodKept, LastGoodActive
  <1>1. s \in Slots
    BY EntryFacts
  <1> QED  BY <1>1 DEF CacheInv, SlotGood

\* What a settled entry shows was read after its load was last accepted and
\* after the key was last purged, or is the last good version where the load
\* failed (reload, finish and fail of AssetSlot), as long as nobody cancels.
THEOREM CacheShowsTheLatest == Spec => []CacheTrue
  <1>1. Init => CacheInv
    BY InitCache
  <1>2. TypeInv /\ UniqueIds /\ Orderly /\ CacheInv /\ [Next]_vars => CacheInv'
    BY CacheKept
  <1>3. TypeInv /\ CacheInv => CacheTrue
    BY CacheShows
  <1> QED  BY <1>1, <1>2, <1>3, OrderlyInvariant, PTL DEF Spec

-----------------------------------------------------------------------------
(* What a cancellation stops.                                              *)

LEMMA StopsSame ==
  ASSUME NEW i, Stops(i), Cancels(i)' => Cancels(i), stopped \subseteq stopped',
         i \in LoadIn("done")' <=> i \in LoadIn("done"),
         i.slot \in tooLate => i.slot \in tooLate'
  PROVE  Stops(i)'
  BY DEF Stops

\* A slot that keeps its flag and its job, or loses the flag.
LEMMA CancelsSame ==
  ASSUME NEW i, cancels' = cancels, slot'[i.slot].cancelled => slot[i.slot].cancelled,
         slot'[i.slot].cancelled => slot'[i.slot].job = slot[i.slot].job
  PROVE  Cancels(i)' => Cancels(i)
  BY DEF Cancels

LEMMA DoneSame ==
  ASSUME NEW gone, NEW y, NEW new, LoadStep(gone, y, new), NEW i, i \notin gone, i \notin new
  PROVE  i \in LoadIn("done")' <=> i \in LoadIn("done")
  <1>1. "done" \in Place
    BY DEF Place
  <1>2. LoadIn("done")' = (LoadIn("done") \ gone) \cup (IF "done" = y THEN new ELSE {})
    BY <1>1 DEF LoadStep
  <1> QED  BY <1>2

\* Reloads, which lift a cancellation, and purges.
LEMMA StopsReload ==
  ASSUME TypeInv, CancelInv, IdleStep \/ ReloadStep \/ PurgeStep
  PROVE  CancelInv'
  <1>1. /\ Loads' = Loads /\ LoadIn("done")' = LoadIn("done")
        /\ stopped' = stopped /\ cancels' = cancels
    <2>1. SameLoads /\ Others /\ "done" \in Place
      BY DEF IdleStep, ReloadStep, PurgeStep, Place
    <2> QED  BY <2>1, SameLoadsStep DEF SameLoads, Others
  <1> SUFFICES ASSUME NEW i \in Loads PROVE Stops(i)'
    BY <1>1 DEF CancelInv
  <1>2. Stops(i) /\ i.slot \in Slots
    BY EntryFacts DEF CancelInv
  <1>3. ASSUME slot'[i.slot] = slot[i.slot], i.slot \in tooLate => i.slot \in tooLate'
        PROVE  Stops(i)'
    BY <1>1, <1>2, <1>3, CancelsSame, StopsSame
  <1>4. CASE IdleStep
    BY <1>3, <1>4 DEF IdleStep, SameCache
  <1>5. CASE ReloadStep
    <2>1. PICK k \in Key, o \in OptsType : Registers(k, o) \/ Requeues(k, o)
      BY <1>5 DEF ReloadStep
    <2>2. CASE Registers(k, o)
      BY <1>2, <1>3, <2>2 DEF Registers, Made
    <2>3. CASE Requeues(k, o)
      <3>1. PICK n \in Slots : n = entries[k]
        BY <2>3 DEF Requeues
      <3> DEFINE v == Reloading(slot[n])
      <3>2. OneSlot(n, v) /\ slot[n] \in SlotType /\ tooLate' = tooLate \ {n}
        BY <2>3, <3>1 DEF Requeues, OneSlot
      <3>3. v.cancelled = FALSE
        BY <3>2, ReloadingIs
      <3> HIDE DEF v
      <3>4. CASE i.slot = n
        <4>1. slot'[i.slot].cancelled = FALSE
          BY <1>2, <3>2, <3>3, <3>4 DEF OneSlot
        <4> QED  BY <4>1 DEF Stops, Cancels
      <3>5. CASE i.slot # n
        BY <1>2, <1>3, <3>2, <3>5 DEF OneSlot
      <3> QED  BY <3>4, <3>5
    <2> QED  BY <2>1, <2>2, <2>3
  <1>6. CASE PurgeStep
    <2>1. PICK k \in Key : Purges(k)
      BY <1>6 DEF PurgeStep
    <2>2. PICK n \in Slots : n = entries[k]
      BY <2>1 DEF Purges
    <2> DEFINE v == Purged(slot[n])
    <2>3. OneSlot(n, v) /\ slot[n] \in SlotType /\ tooLate' = tooLate
      BY <2>1, <2>2 DEF Purges, OneSlot
    <2>4. v.cancelled = slot[n].cancelled /\ v.job = slot[n].job
      BY <2>3, PurgedIs
    <2> HIDE DEF v
    <2>5. slot'[i.slot].cancelled = slot[i.slot].cancelled /\ slot'[i.slot].job = slot[i.slot].job
      BY <1>2, <2>3, <2>4 DEF OneSlot
    <2> QED  BY <1>1, <1>2, <2>3, <2>5, CancelsSame, StopsSame
  <1> QED  BY <1>4, <1>5, <1>6

\* A cancellation, the first or a later one.
LEMMA StopsCancel ==
  ASSUME TypeInv, Orderly, CancelInv, CancelStep
  PROVE  CancelInv'
  <1>1. PICK n \in Slots : Cancellation(n)
    BY DEF CancelStep
  <1>2. Loads' = Loads /\ LoadIn("done")' = LoadIn("done") /\ cancels' = cancels + 1 /\ cancels \in Nat
    BY <1>1, SameLoadsStep DEF CancelStep, SameLoads, Place, Cancellation, TypeInv, CountsOK
  <1> SUFFICES ASSUME NEW i \in Loads, i.for = "decode", Cancels(i)'
               PROVE  IF i \in LoadIn("done") THEN i.slot \in tooLate' ELSE i.id \in stopped'
    BY <1>2 DEF CancelInv, Stops
  <1>3. Stops(i) /\ i.slot \in Slots /\ i.id \in Nat /\ i.id \in OwnIds(i.slot)
    BY OwnTypes DEF CancelInv
  <1> DEFINE v == CancelledSlot(slot[n])
  <1>4. OneSlot(n, v) /\ slot[n] \in SlotType
    BY <1>1 DEF Cancellation, OneSlot
  <1>5. v.job = slot[n].job
    BY <1>4, CancelledIs
  <1> HIDE DEF v
  <1>6. slot'[i.slot].job = slot[i.slot].job /\ (i.slot # n => slot'[i.slot] = slot[i.slot])
    BY <1>3, <1>4, <1>5 DEF OneSlot
  <1>7. stopped \subseteq stopped' /\ tooLate \subseteq tooLate'
    BY <1>1 DEF Cancellation
  <1>8. slot'[i.slot].cancelled /\ (cancels + 1 <= 1 \/ i.id = slot[i.slot].job)
    BY <1>2, <1>6 DEF Cancels
  <1>9. CASE i.slot = n
    <2>1. i.id = slot[n].job
      <3>1. CASE cancels = 0
        BY <1>3, <1>9, <3>1 DEF Orderly, SlotFlags
      <3>2. CASE cancels # 0
        BY <1>2, <1>8, <1>9, <3>2
      <3> QED  BY <3>1, <3>2
    <2>2. i.id \in stopped'
      BY <1>1, <1>3, <2>1, ConstantFacts DEF Cancellation
    <2>3. ASSUME i \in LoadIn("done") PROVE n \in tooLate'
      <3>1. i \in Range(channel)
        BY <2>3, HeldIs DEF LoadIn
      <3>2. \E x \in DOMAIN channel : channel[x].for = "decode" /\ channel[x].slot = n
        BY <1>9, <3>1 DEF Range
      <3> QED  BY <1>1, <3>2 DEF Cancellation
    <2> QED  BY <1>9, <2>2, <2>3
  <1>10. CASE i.slot # n
    <2>1. slot[i.slot].cancelled
      BY <1>6, <1>8, <1>10
    <2>2. cancels # 0
      BY <1>3, <2>1 DEF Orderly, SlotFlags
    <2>3. Cancels(i)
      BY <1>2, <1>8, <2>1, <2>2 DEF Cancels
    <2> QED  BY <1>3, <1>7, <2>3 DEF Stops
  <1> QED  BY <1>9, <1>10

\* Loads that go on, which are not stopped, and loads that are lost.
LEMMA StopsMove ==
  ASSUME TypeInv, UniqueIds, CancelInv, MoveStep \/ LossStep
  PROVE  CancelInv'
  <1>1. slot' = slot /\ tooLate' = tooLate /\ stopped' = stopped /\ cancels' = cancels
    BY DEF MoveStep, LossStep, SameCache, Others
  <1>2. ASSUME NEW i, Stops(i), i \in LoadIn("done")' <=> i \in LoadIn("done")
        PROVE  Stops(i)'
    BY <1>1, <1>2, CancelsSame, StopsSame
  <1>3. CASE MoveStep
    <2>1. PICK x \in Place \ {"done"}, y \in Place : \E j \in LoadIn(x) : \E b :
                 Onwards(j, b) /\ LoadStep({j}, y, {b}) /\ j.id \notin stopped
      BY <1>3 DEF MoveStep
    <2>2. PICK j \in LoadIn(x) : \E b :
                 Onwards(j, b) /\ LoadStep({j}, y, {b}) /\ j.id \notin stopped
      BY <2>1
    <2>3. PICK b : Onwards(j, b) /\ LoadStep({j}, y, {b}) /\ j.id \notin stopped
      BY <2>2
    <2>4. j \in Loads /\ Loads' \subseteq (Loads \ {j}) \cup {b}
      <3>1. j \in Loads
        BY <2>3 DEF Loads
      <3>2. \A z \in Place : LoadIn(z)' \subseteq (LoadIn(z) \ {j}) \cup {b}
        BY <2>3 DEF LoadStep
      <3>3. Loads' = UNION {LoadIn(z)' : z \in Place}
        BY DEF Loads
      <3> QED  BY <3>1, <3>2, <3>3 DEF Loads
    <2>5. j \notin LoadIn("done")
      <3>1. j \in held[x] /\ x # "done" /\ "done" \in Place
        BY <2>1, <2>2 DEF LoadIn, Place
      <3> QED  BY <3>1 DEF LoadIn, UniqueIds, Unique
    <2>6. ~(b.for = "decode" /\ Cancels(b)')
      <3>1. b.for = j.for /\ b.id = j.id /\ b.slot = j.slot
        BY <2>3 DEF Onwards
      <3>2. Cancels(b)' => Cancels(j)
        BY <1>1, <3>1 DEF Cancels
      <3> QED  BY <2>3, <2>4, <2>5, <3>1, <3>2 DEF CancelInv, Stops
    <2>7. Stops(b)'
      BY <2>6 DEF Stops
    <2>8. \A i \in Loads \ {j} : i # b => Stops(i)'
      BY <1>2, <2>3, DoneSame DEF CancelInv
    <2> QED  BY <2>4, <2>7, <2>8 DEF CancelInv
  <1>4. CASE LossStep
    <2>1. PICK x \in Place, y \in Place : \E j \in LoadIn(x) : LoadStep({j}, y, {})
      BY <1>4 DEF LossStep
    <2>2. PICK j \in LoadIn(x) : LoadStep({j}, y, {})
      BY <2>1
    <2>3. Loads' \subseteq Loads \ {j}
      <3>1. \A z \in Place : LoadIn(z)' \subseteq LoadIn(z) \ {j}
        BY <2>2 DEF LoadStep
      <3>2. Loads' = UNION {LoadIn(z)' : z \in Place}
        BY DEF Loads
      <3> QED  BY <3>1, <3>2 DEF Loads
    <2>4. \A i \in Loads \ {j} : Stops(i)'
      BY <1>2, <2>2, DoneSame DEF CancelInv
    <2> QED  BY <2>3, <2>4 DEF CancelInv
  <1> QED  BY <1>3, <1>4

\* One slot changes and keeps its flag, and its job unless it is not cancelled.
LEMMA StopsOne ==
  ASSUME TypeInv, CancelInv, stopped' = stopped, cancels' = cancels, tooLate' = tooLate,
         NEW n, NEW v, OneSlot(n, v), v.cancelled = slot[n].cancelled,
         v.cancelled => v.job = slot[n].job,
         \A i \in Loads' : \/ i.for = "decode" => ~slot[i.slot].cancelled /\ i.slot \in Slots
                           \/ i \in Loads /\ (i \in LoadIn("done")' <=> i \in LoadIn("done"))
  PROVE  CancelInv'
  <1>1. \A t \in Slots : slot'[t] = IF t = n THEN v ELSE slot[t]
    BY DEF OneSlot
  <1>2. \A t \in Slots : /\ slot'[t].cancelled = slot[t].cancelled
                         /\ slot'[t].cancelled => slot'[t].job = slot[t].job
    BY <1>1
  <1>3. ASSUME NEW i \in Loads' PROVE Stops(i)'
    <2>1. CASE i \in Loads /\ (i \in LoadIn("done")' <=> i \in LoadIn("done"))
      <3>1. Stops(i) /\ i.slot \in Slots
        BY <2>1, EntryFacts DEF CancelInv
      <3> QED  BY <1>2, <2>1, <3>1, CancelsSame, StopsSame
    <2>2. CASE i.for = "decode" => ~slot[i.slot].cancelled /\ i.slot \in Slots
      BY <1>2, <2>2 DEF Stops, Cancels
    <2> QED  BY <2>1, <2>2
  <1> QED  BY <1>3 DEF CancelInv

LEMMA StopsBack ==
  ASSUME TypeInv, CancelInv, BackStep
  PROVE  CancelInv'
  <1>1. stopped' = stopped /\ cancels' = cancels /\ tooLate' = tooLate /\ nextJob \in Nat
    BY DEF BackStep, Others, TypeInv, IdsOK
  <1>2. PICK h \in LoadIn("done") : h.slot \in Slots /\ (Fails(h) \/ GoesOn(h) \/ Publishes(h))
    BY DEF BackStep
  <1> DEFINE n == h.slot
  <1>3. n \in Slots /\ slot[n] \in SlotType
    BY <1>2, EntryFacts
  <1>4. ASSUME NEW new, LoadStep({h}, "cpuWaiting", new)
        PROVE  \A i \in Loads' : i \in new \/ (i \in Loads /\ (i \in LoadIn("done")' <=> i \in LoadIn("done")))
    <2>1. \A z \in Place : LoadIn(z)' \subseteq (LoadIn(z) \ {h}) \cup new
      BY <1>4 DEF LoadStep
    <2>2. \A i \in Loads' : i \in new \/ (i \in Loads /\ i \notin {h})
      <3>1. Loads' = UNION {LoadIn(z)' : z \in Place}
        BY DEF Loads
      <3> QED  BY <2>1, <3>1 DEF Loads
    <2> QED  BY <1>4, <2>2, DoneSame
  <1>5. CASE Fails(h)
    <2> DEFINE v == Failed(slot[n])
    <2>1. v.cancelled = slot[n].cancelled /\ v.job = slot[n].job
      BY <1>3, FailedIs
    <2>2. OneSlot(n, v) /\ LoadStep({h}, "cpuWaiting", {})
      BY <1>5 DEF Fails
    <2> HIDE DEF n, v
    <2> QED  BY <1>1, <1>4, <2>1, <2>2, StopsOne
  <1>6. CASE Publishes(h)
    <2> DEFINE v == Finished(slot[n], h.data.ver)
    <2>1. h.data.ver \in Nat
      BY <1>6 DEF Publishes, File
    <2>2. v.cancelled = slot[n].cancelled /\ v.job = slot[n].job
      BY <1>3, <2>1, FinishedIs
    <2>3. OneSlot(n, v) /\ LoadStep({h}, "cpuWaiting", {})
      BY <1>6 DEF Publishes
    <2> HIDE DEF n, v
    <2> QED  BY <1>1, <1>4, <2>2, <2>3, StopsOne
  <1>7. CASE GoesOn(h)
    <2> DEFINE v == WithJob(slot[n], nextJob)
    <2>1. v.cancelled = slot[n].cancelled
      BY <1>1, <1>3, WithJobIs
    <2>2. PICK b : b.slot = h.slot /\ LoadStep({h}, "cpuWaiting", {b})
      BY <1>7 DEF GoesOn
    <2>3. OneSlot(n, v) /\ ~slot[n].cancelled
      BY <1>7 DEF GoesOn
    <2>4. \A i \in Loads' : \/ ~slot[i.slot].cancelled /\ i.slot \in Slots
                            \/ i \in Loads /\ (i \in LoadIn("done")' <=> i \in LoadIn("done"))
      BY <1>3, <1>4, <2>2, <2>3
    <2> HIDE DEF n, v
    <2> QED  BY <1>1, <2>1, <2>3, <2>4, StopsOne
  <1> QED  BY <1>2, <1>5, <1>6, <1>7

LEMMA StopsDrain ==
  ASSUME TypeInv, CancelInv, DrainStep
  PROVE  CancelInv'
  <1>1. stopped' = stopped /\ cancels' = cancels /\ tooLate' = tooLate /\ nextJob \in Nat
    BY DEF DrainStep, Others, TypeInv, IdsOK
  <1>2. PICK p \in Priority, n \in Slots :
          \/ Waits(p) /\ SameLoads
          \/ Drops(p, n) /\ SameLoads
          \/ Starts(p, n) /\ BeginsLoad(n)
          \/ Postpones(p, n) /\ SameLoads
    BY DEF DrainStep
  <1>3. slot[n] \in SlotType /\ "done" \in Place
    BY EntryFacts DEF Place
  <1>4. SameLoads => Loads' = Loads /\ LoadIn("done")' = LoadIn("done")
    BY <1>3, SameLoadsStep DEF SameLoads
  <1>5. CASE Waits(p) /\ SameLoads
    <2>1. slot' = slot
      BY <1>5 DEF Waits
    <2>2. \A i \in Loads : Stops(i)'
      BY <1>1, <1>4, <1>5, <2>1, CancelsSame, StopsSame DEF CancelInv
    <2> QED  BY <1>4, <1>5, <2>2 DEF CancelInv
  <1>6. CASE Drops(p, n) /\ SameLoads
    <2> DEFINE v == Failed(slot[n])
    <2>1. v.cancelled = slot[n].cancelled /\ v.job = slot[n].job
      BY <1>3, FailedIs
    <2>2. OneSlot(n, v)
      BY <1>6 DEF Drops
    <2> HIDE DEF v
    <2> QED  BY <1>1, <1>4, <1>6, <2>1, <2>2, StopsOne
  <1>7. CASE Postpones(p, n) /\ SameLoads
    <2> DEFINE v == Requeued(slot[n])
    <2>1. v.cancelled = slot[n].cancelled /\ v.job = slot[n].job
      BY <1>3, RequeuedIs
    <2>2. OneSlot(n, v)
      BY <1>7 DEF Postpones
    <2> HIDE DEF v
    <2> QED  BY <1>1, <1>4, <1>7, <2>1, <2>2, StopsOne
  <1>8. CASE Starts(p, n) /\ BeginsLoad(n)
    <2> DEFINE v == WithJob(Loading(slot[n]), nextJob)
    <2>1. v.cancelled = slot[n].cancelled /\ ~v.cancelled
      BY <1>1, <1>3, <1>8, LoadingIs DEF Starts
    <2>2. OneSlot(n, v)
      BY <1>8 DEF Starts
    <2>3. PICK j : j.for = "read" /\ LoadStep({}, "ioWaiting", {j})
      BY <1>8 DEF BeginsLoad
    <2>4. \A i \in Loads' : i = j \/ (i \in Loads /\ (i \in LoadIn("done")' <=> i \in LoadIn("done")))
      <3>1. Loads' \subseteq Loads \cup {j}
        BY <2>3, LoadsOfStep
      <3> QED  BY <2>3, <3>1, DoneSame
    <2> HIDE DEF v
    <2> QED  BY <1>1, <2>1, <2>2, <2>3, <2>4, StopsOne
  <1> QED  BY <1>2, <1>5, <1>6, <1>7, <1>8

LEMMA CancelKept ==
  ASSUME TypeInv, UniqueIds, Orderly, CancelInv, [Next]_vars
  PROVE  CancelInv'
  <1>1. AnyStep
    BY TypesKept
  <1> QED  BY <1>1, StopsReload, StopsCancel, StopsMove, StopsBack, StopsDrain DEF AnyStep

LEMMA InitCancel == Init => CancelInv
  <1> SUFFICES ASSUME Init PROVE CancelInv
    OBVIOUS
  <1>1. Slots = {}
    BY DEF Init, Slots
  <1>2. \A j \in Loads : j.slot \in Slots
    BY InitTypes, EntryFacts
  <1> QED  BY <1>1, <1>2 DEF CancelInv

\* A slot's version grows only when the completion that comes first is published.
LEMMA OnlyPublished ==
  ASSUME TypeInv, AnyStep, NEW s \in Slots, slot'[s].ver > slot[s].ver
  PROVE  \E h \in LoadIn("done") : h.slot = s /\ h.for = "decode" /\ h = Head(channel)
  <1>1. \A t \in Slots : slot[t] \in SlotType /\ ~(slot[t].ver > slot[t].ver)
    <2>1. \A t \in Slots : slot[t] \in SlotType
      BY EntryFacts
    <2>2. \A t \in Slots : slot[t].ver \in Nat
      BY <2>1 DEF SlotType
    <2> QED  BY <2>1, <2>2
  <1>2. \A t \in Slots : \A v : OneSlot(t, v) /\ v.ver = slot[t].ver => slot'[s].ver = slot[s].ver
    BY DEF OneSlot
  <1>3. slot'[s].ver # slot[s].ver
    BY <1>1
  <1>4. slot' # slot
    BY <1>3
  <1>5. ~IdleStep /\ ~MoveStep /\ ~LossStep
    BY <1>4 DEF IdleStep, MoveStep, LossStep, SameCache
  <1>6. ~ReloadStep
    <2> SUFFICES ASSUME NEW k \in Key, NEW o \in OptsType, Registers(k, o) \/ Requeues(k, o)
                 PROVE  FALSE
      BY DEF ReloadStep
    <2>1. CASE Registers(k, o)
      BY <1>3, <2>1 DEF Registers, Made
    <2>2. CASE Requeues(k, o)
      <3>1. PICK n \in Slots : n = entries[k]
        BY <2>2 DEF Requeues
      <3>2. OneSlot(n, Reloading(slot[n])) /\ Reloading(slot[n]).ver = slot[n].ver
        BY <1>1, <2>2, <3>1, ReloadingIs DEF Requeues
      <3> QED  BY <1>2, <1>3, <3>2
    <2> QED  BY <2>1, <2>2
  <1>7. ~PurgeStep
    <2> SUFFICES ASSUME NEW k \in Key, Purges(k) PROVE FALSE
      BY DEF PurgeStep
    <2>1. PICK n \in Slots : n = entries[k]
      BY DEF Purges
    <2>2. OneSlot(n, Purged(slot[n])) /\ Purged(slot[n]).ver = slot[n].ver
      BY <1>1, <2>1, PurgedIs DEF Purges
    <2> QED  BY <1>2, <1>3, <2>2
  <1>8. ~CancelStep
    <2> SUFFICES ASSUME NEW n \in Slots, Cancellation(n) PROVE FALSE
      BY DEF CancelStep
    <2>1. OneSlot(n, CancelledSlot(slot[n])) /\ CancelledSlot(slot[n]).ver = slot[n].ver
      BY <1>1, CancelledIs DEF Cancellation
    <2> QED  BY <1>2, <1>3, <2>1
  <1>9. ~DrainStep
    <2> SUFFICES ASSUME NEW p \in Priority, NEW n \in Slots,
                        Waits(p) \/ Drops(p, n) \/ Starts(p, n) \/ Postpones(p, n)
                 PROVE  FALSE
      BY DEF DrainStep
    <2>1. nextJob \in Nat /\ slot[n] \in SlotType
      BY <1>1 DEF TypeInv, IdsOK
    <2>2. /\ Failed(slot[n]).ver = slot[n].ver /\ Requeued(slot[n]).ver = slot[n].ver
          /\ WithJob(Loading(slot[n]), nextJob).ver = slot[n].ver
      <3>1. Failed(slot[n]).ver = slot[n].ver
        BY <2>1, FailedIs
      <3>2. Requeued(slot[n]).ver = slot[n].ver
        BY <2>1, RequeuedIs
      <3>3. WithJob(Loading(slot[n]), nextJob).ver = slot[n].ver
        BY <2>1, LoadingIs
      <3> QED  BY <3>1, <3>2, <3>3
    <2>3. ASSUME NEW v, OneSlot(n, v), v.ver = slot[n].ver PROVE FALSE
      BY <1>2, <1>3, <2>3
    <2>4. CASE Waits(p)
      BY <1>4, <2>4 DEF Waits
    <2>5. CASE Drops(p, n)
      BY <2>2, <2>3, <2>5 DEF Drops
    <2>6. CASE Starts(p, n)
      BY <2>2, <2>3, <2>6 DEF Starts
    <2>7. CASE Postpones(p, n)
      BY <2>2, <2>3, <2>7 DEF Postpones
    <2> QED  BY <2>4, <2>5, <2>6, <2>7
  <1>10. PICK h \in LoadIn("done") : h.slot \in Slots /\ (Fails(h) \/ GoesOn(h) \/ Publishes(h))
    BY <1>5, <1>6, <1>7, <1>8, <1>9 DEF AnyStep, BackStep
  <1>11. ~Fails(h) /\ ~GoesOn(h)
    <2>1. nextJob \in Nat /\ slot[h.slot] \in SlotType
      BY <1>1, <1>10 DEF TypeInv, IdsOK
    <2>2. /\ Failed(slot[h.slot]).ver = slot[h.slot].ver
          /\ WithJob(slot[h.slot], nextJob).ver = slot[h.slot].ver
      BY <2>1, FailedIs, WithJobIs
    <2> QED  BY <1>2, <1>3, <1>10, <2>2 DEF Fails, GoesOn
  <1>12. Publishes(h)
    BY <1>10, <1>11
  <1>13. h.slot = s
    BY <1>3, <1>12 DEF Publishes, OneSlot
  <1> QED  BY <1>12, <1>13 DEF Publishes

LEMMA StoppedIsKept ==
  ASSUME TypeInv, UniqueIds, CancelInv, [Next]_vars, NEW s \in Slots,
         slot[s].cancelled, slot'[s].ver > slot[s].ver
  PROVE  s \in tooLate \/ (cancels > 1 /\ Head(channel).id # slot[s].job)
  <1>1. AnyStep
    BY TypesKept
  <1>2. PICK h \in LoadIn("done") : h.slot = s /\ h.for = "decode" /\ h = Head(channel)
    BY <1>1, OnlyPublished
  <1>3. h \in Loads
    BY <1>2 DEF Loads, Place
  <1>4. CASE Cancels(h)
    BY <1>2, <1>3, <1>4 DEF CancelInv, Stops
  <1>5. CASE ~Cancels(h)
    <2>1. cancels \in Nat
      BY DEF TypeInv, CountsOK
    <2> QED  BY <1>2, <1>5, <2>1 DEF Cancels
  <1> QED  BY <1>4, <1>5

\* A cancelled load is not published, wherever the cancellation finds it, unless
\* its decode had completed by then or the slot was loaded twice (AssetSlot::cancel,
\* the checks of schedule_queue and the callbacks, cancel of JobHandle).
THEOREM CancelledIsNotPublished == Spec => CancelStopsLoad
  <1>1. Init => CancelInv
    BY InitCancel
  <1>2. TypeInv /\ UniqueIds /\ Orderly /\ CancelInv /\ [Next]_vars => CancelInv'
    BY CancelKept
  <1> DEFINE Act == \A s \in Slots : slot[s].cancelled /\ slot'[s].ver > slot[s].ver
                      => s \in tooLate \/ (cancels > 1 /\ Head(channel).id # slot[s].job)
  <1>3. TypeInv /\ UniqueIds /\ CancelInv /\ [Next]_vars => [Act]_vars
    BY StoppedIsKept
  <1>4. Spec => [][Act]_vars
    <2> HIDE DEF Act
    <2> QED  BY <1>1, <1>2, <1>3, OrderlyInvariant, PTL DEF Spec
  <1> QED  BY <1>4 DEF CancelStopsLoad
=============================================================================
