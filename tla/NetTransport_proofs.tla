------------------------ MODULE NetTransport_proofs ------------------------
(***************************************************************************)
(* What the transport guarantees for every size of its queues, packets,    *)
(* ack field and sequence space, inside the horizon of NetTransport: types *)
(* are kept, no acknowledgement loses a reliable message of the client,    *)
(* and each of the three channels keeps its promise at both ends:          *)
(* sequenced messages never go back, unreliable ones are never seen twice, *)
(* and the reliable channel is an ordered channel without gaps or          *)
(* repetitions (ReliableOrdered).                                          *)
(***************************************************************************)
EXTENDS NetTransport, FiniteSetTheorems, SequenceTheorems, TLAPS

(* Sets of u16 values are finite and have at most SEQ_MOD members.         *)
LEMMA U16Subset ==
  ASSUME NEW S \in SUBSET U16
  PROVE  IsFiniteSet(S) /\ Cardinality(S) \in 0 .. SEQ_MOD
  <1>1. SEQ_MOD - 1 \in Nat /\ SEQ_MOD \in Nat
    BY Positive DEF SEQ_MOD
  <1>2. S \in SUBSET Nat /\ \A s \in S : s <= SEQ_MOD - 1
    BY <1>1 DEF U16
  <1>3. IsFiniteSet(S) /\ Cardinality(S) <= SEQ_MOD - 1 + 1
    BY <1>1, <1>2, FS_BoundedSetOfNaturals
  <1>4. Cardinality(S) \in Nat
    BY <1>3, FS_CardinalityType
  <1> QED  BY <1>1, <1>3, <1>4

(* The oldest c members of a set are members of it.                        *)
LEMMA FirstOfSubset ==
  ASSUME NEW S, NEW c
  PROVE  FirstOf(S, c) \subseteq S
  BY DEF FirstOf

(* Whoever is among the c oldest stays among them when older or equal      *)
(* members leave, and when newer ones arrive.                              *)
LEMMA FirstOfMonotone ==
  ASSUME NEW S \in SUBSET U16, NEW T \in SUBSET U16, NEW c \in Int,
         NEW i \in FirstOf(S, c), i \in T,
         \A x \in T : x < i => x \in S
  PROVE  i \in FirstOf(T, c)
  <1> DEFINE A == {x \in S : x < i}
             B == {x \in T : x < i}
  <1>1. A \in SUBSET U16 /\ B \in SUBSET U16 /\ B \in SUBSET A
    OBVIOUS
  <1>2. IsFiniteSet(A) /\ Cardinality(A) \in Int /\ Cardinality(B) \in Int
    BY <1>1, U16Subset
  <1>3. Cardinality(B) <= Cardinality(A)
    BY <1>1, <1>2, FS_Subset
  <1>4. Cardinality(A) < c
    BY DEF FirstOf
  <1> QED  BY <1>2, <1>3, <1>4 DEF FirstOf

(* The c oldest members are closed downwards in the set.                   *)
LEMMA FirstOfDownward ==
  ASSUME NEW S \in SUBSET U16, NEW c \in Int,
         NEW i \in FirstOf(S, c), NEW k \in S, k < i
  PROVE  k \in FirstOf(S, c)
  <1> DEFINE A == {x \in S : x < i}
             B == {x \in S : x < k}
  <1>1. i \in U16 /\ k \in U16
    BY DEF FirstOf
  <1>2. A \in SUBSET U16 /\ B \in SUBSET A
    <2>1. \A x \in U16 : x < k => x < i
      BY <1>1 DEF U16
    <2> QED  BY <2>1
  <1>3. IsFiniteSet(A) /\ Cardinality(A) \in Int /\ Cardinality(B) \in Int
    BY <1>2, U16Subset
  <1>4. Cardinality(B) <= Cardinality(A)
    BY <1>2, <1>3, FS_Subset
  <1>5. Cardinality(A) < c
    BY DEF FirstOf
  <1> QED  BY <1>3, <1>4, <1>5 DEF FirstOf

(* The run delivered by a packet is a set of ids that the packet brought   *)
(* or the buffer held.                                                     *)
LEMMA ContiguousSubset ==
  ASSUME NEW S, NEW x
  PROVE  Contiguous(S, x) \subseteq S
  BY DEF Contiguous

-----------------------------------------------------------------------------
(* Building a packet of well-typed queues gives a well-typed packet.       *)
LEMMA BuildPacketType ==
  ASSUME TypeOK, NEW e \in End, nextSeq[e] \in U16
  PROVE  BuildPacket(e) \in Packet
  <1>1. FirstOf(pending[e], PacketCap) \in SUBSET U16
    BY FirstOfSubset DEF TypeOK
  <1>2. \A c : FirstOf(unrPending[e], c) \in SUBSET UnreliableStream
    BY FirstOfSubset DEF TypeOK
  <1>3. 0 \in U16
    BY Positive DEF U16, SEQ_MOD
  <1> QED  BY <1>1, <1>2, <1>3 DEF BuildPacket, Packet, TypeOK

LEMMA TypeInvariant == Spec => []TypeOK
  <1>1. Init => TypeOK
    BY Positive DEF Init, TypeOK, U16, SEQ_MOD, UnreliableStream
  <1>2. TypeOK /\ [Next]_vars => TypeOK'
    <2> SUFFICES ASSUME TypeOK, [Next]_vars
                 PROVE  TypeOK'
      OBVIOUS
    <2>1. \A a \in U16 : WrapInc(a) \in U16
      BY Positive DEF WrapInc, U16, SEQ_MOD
    <2>2. ASSUME NEW e \in End, SendReliable(e)
          PROVE  TypeOK'
      BY <2>1, <2>2 DEF SendReliable, TypeOK, recvVars
    <2>3. ASSUME NEW e \in End, SendSequenced(e)
          PROVE  TypeOK'
      BY <2>1, <2>3 DEF SendSequenced, TypeOK, recvVars
    <2>4. ASSUME NEW e \in End, SendUnreliable(e)
          PROVE  TypeOK'
      <3>1. unrNext[e] \in UnreliableStream
        BY <2>4, Positive DEF SendUnreliable, TypeOK, UnreliableStream
      <3>2. /\ unrPending' \in [End -> SUBSET UnreliableStream]
            /\ unrNext' \in [End -> Nat]
        BY <2>4, <3>1 DEF SendUnreliable, TypeOK
      <3> QED  BY <2>4, <3>2 DEF SendUnreliable, TypeOK, recvVars
    <2>5. ASSUME NEW e \in End, Flush(e)
          PROVE  TypeOK'
      <3> DEFINE p == BuildPacket(e)
      <3>1. p \in Packet
        BY BuildPacketType DEF TypeOK
      <3>2. p.seq \in U16 /\ p.rel \in SUBSET U16
        BY <3>1 DEF Packet
      <3>3. TrackSent(sentPackets[e], p.seq, p.rel)
              \in SUBSET [seq : U16, refs : SUBSET U16]
        BY <3>2 DEF TrackSent, TypeOK
      <3>4. sentPackets' \in [End -> SUBSET [seq : U16, refs : SUBSET U16]]
        BY <2>5, <3>3 DEF Flush, TypeOK
      <3>5. network' \in SUBSET Packet
        BY <2>5, <3>1 DEF Flush, TypeOK
      <3>6. nextSeq' \in [End -> U16]
        BY <2>5, <2>1 DEF Flush, TypeOK
      <3>7. /\ seqPending' \in [End -> SUBSET U16]
            /\ unrPending' \in [End -> SUBSET UnreliableStream]
        BY <2>5 DEF Flush, TypeOK
      <3> QED  BY <2>5, <3>4, <3>5, <3>6, <3>7 DEF Flush, TypeOK, recvVars
    <2>6. ASSUME NEW e \in End, NEW p \in network, Receive(e, p)
          PROVE  TypeOK'
      <3>1. p \in Packet
        BY DEF TypeOK
      <3>2. /\ p.seq \in U16 /\ p.rel \in SUBSET U16 /\ p.sqd \in SUBSET U16
            /\ p.unr \in SUBSET UnreliableStream
        BY <3>1 DEF Packet
      <3>3. /\ sentPackets' \in [End -> SUBSET [seq : U16, refs : SUBSET U16]]
            /\ pending' \in [End -> SUBSET U16]
        BY <2>6 DEF Receive, ProcessAcks, TypeOK
      <3>4. /\ lastReceived' \in [End -> U16 \cup {None}]
        BY <2>6, <3>2 DEF Receive, TrackReceived, TypeOK
      <3>5. receivedMask' \in [End -> SUBSET (1 .. MASK_BITS)]
        <4>1. \A m, d : ShiftedMask(m, d) \in SUBSET (1 .. MASK_BITS)
          BY Positive DEF ShiftedMask
        <4>2. \A d : \A m \in SUBSET (1 .. MASK_BITS) :
                MarkedMask(m, d) \in SUBSET (1 .. MASK_BITS)
          BY DEF MarkedMask
        <4> QED  BY <2>6, <4>1, <4>2 DEF Receive, TrackReceived, TypeOK
      <3>6. CASE ~IsNew(e, p.seq)
        BY <2>6, <3>3, <3>4, <3>5, <3>6 DEF Receive, TypeOK
      <3>7. CASE IsNew(e, p.seq)
        <4>1. /\ ReceiveReliable(e, p.rel)
              /\ ReceiveSequenced(e, p.sqd)
              /\ ReceiveUnreliable(e, p.unr)
          BY <2>6, <3>7 DEF Receive, ReceiveMessages
        <4> DEFINE run == Contiguous(buffer[e] \cup p.rel, expectedId[e])
                   next == WrapAdd(expectedId[e], Cardinality(run))
                   kept == buffer[e] \ run
        <4>2. run \in SUBSET U16
          BY <3>2, ContiguousSubset DEF TypeOK
        <4>3. Cardinality(run) \in 0 .. SEQ_MOD
          BY <4>2, U16Subset
        <4>4. \A d \in 0 .. SEQ_MOD : WrapAdd(expectedId[e], d) \in U16
          BY Positive DEF WrapAdd, U16, SEQ_MOD, TypeOK
        <4>5. expectedId' \in [End -> U16]
          BY <4>1, <4>3, <4>4 DEF ReceiveReliable, TypeOK
        <4>6. buffer' \in [End -> SUBSET U16]
          <5>1. \A S, c : FirstOf(S, c) \subseteq S
            BY FirstOfSubset
          <5> QED  BY <3>2, <4>1, <5>1 DEF ReceiveReliable, TypeOK
        <4>7. delivered' \in [End -> Seq(U16)]
          <5> DEFINE new == [i \in 1 .. Cardinality(run) |-> WrapAdd(expectedId[e], i - 1)]
          <5>1. SEQ_MOD \in Nat
            BY Positive DEF SEQ_MOD
          <5>2. new \in [1 .. Cardinality(run) -> U16]
            BY <4>3, <4>4, <5>1
          <5>3. new \in Seq(U16)
            <6>1. Cardinality(run) \in Nat
              BY <4>3, <5>1
            <6> HIDE DEF new, run
            <6> QED  BY <5>2, <6>1, SeqDef
          <5>4. delivered[e] \o new \in Seq(U16)
            BY <5>3, ConcatProperties DEF TypeOK
          <5> QED  BY <4>1, <5>4 DEF ReceiveReliable, TypeOK
        <4>8. /\ seqLastId' \in [End -> U16 \cup {None}]
              /\ seqDelivered' \in [End -> Seq(U16)]
          <5>1. \A i \in U16 : Append(seqDelivered[e], i) \in Seq(U16)
            BY AppendProperties DEF TypeOK
          <5>2. \/ UNCHANGED <<seqLastId, seqDelivered>>
                \/ \E i \in p.sqd :
                     /\ seqLastId' = [seqLastId EXCEPT ![e] = i]
                     /\ seqDelivered' = [seqDelivered EXCEPT ![e] = Append(@, i)]
            BY <4>1, Zenon DEF ReceiveSequenced
          <5>3. CASE UNCHANGED <<seqLastId, seqDelivered>>
            BY <5>3 DEF TypeOK
          <5>4. ASSUME NEW i \in p.sqd,
                       seqLastId' = [seqLastId EXCEPT ![e] = i],
                       seqDelivered' = [seqDelivered EXCEPT ![e] = Append(@, i)]
                PROVE  /\ seqLastId' \in [End -> U16 \cup {None}]
                       /\ seqDelivered' \in [End -> Seq(U16)]
            BY <3>2, <5>1, <5>4 DEF TypeOK
          <5> QED  BY <5>2, <5>3, <5>4
        <4>9. unrDelivered' \in [End -> [UnreliableStream -> Nat]]
          BY <4>1 DEF ReceiveUnreliable, TypeOK
        <4> QED
          BY <2>6, <3>3, <3>4, <3>5, <4>5, <4>6, <4>7, <4>8, <4>9 DEF Receive, TypeOK
      <3> QED  BY <3>6, <3>7
    <2>7. CASE UNCHANGED vars
      BY <2>7 DEF vars, sendVars, recvVars, TypeOK
    <2> QED  BY <2>2, <2>3, <2>4, <2>5, <2>6, <2>7 DEF Next
  <1> QED  BY <1>1, <1>2, PTL DEF Spec

-----------------------------------------------------------------------------
(* Inside the horizon the wrapping operators are ordinary arithmetic.      *)
LEMMA NoWrap ==
  ASSUME NEW a \in 0 .. SEQ_WINDOW - 1, NEW b \in 0 .. SEQ_WINDOW - 1
  PROVE  /\ a \in U16
         /\ WrapInc(a) = a + 1
         /\ a >= b => WrapSub(a, b) = a - b
         /\ a < b => WrapSub(a, b) > SEQ_WINDOW
         /\ \A d \in Nat : a + d <= SEQ_WINDOW => WrapAdd(a, d) = a + d
  BY Positive DEF U16, WrapInc, WrapSub, WrapAdd, SEQ_MOD

(* What the server does with the reliable part of a packet: an empty       *)
(* buffer stays empty and everything the packet brought is delivered,      *)
(* provided the packet has no gap above expected_id.                       *)
LEMMA GaplessRun ==
  ASSUME NEW rel \in SUBSET U16, NEW x \in 0 .. SEQ_WINDOW - 1,
         NEW top \in x .. SEQ_WINDOW - 1,
         \A i \in rel : i < top,
         \A i \in rel : \A k \in 0 .. i - 1 : k \in rel \/ k < x
  PROVE  LET run == Contiguous(rel, x)
             next == WrapAdd(x, Cardinality(run))
         IN /\ next \in x .. top
            /\ \A i \in rel : i < next
            /\ \A i \in rel : ~SequenceMoreRecent(i, next)
  <1> DEFINE run == Contiguous(rel, x)
             next == WrapAdd(x, Cardinality(run))
  <1>0. /\ SEQ_WINDOW \in Nat /\ \A i \in rel : i \in Nat /\ i < SEQ_WINDOW
    BY Positive DEF U16
  <1>1. \A i \in rel : i >= x => i \in run
    <2> SUFFICES ASSUME NEW i \in rel, i >= x, NEW d \in 0 .. WrapSub(i, x)
                 PROVE  WrapAdd(x, d) \in rel
      BY DEF Contiguous
    <2>1. WrapSub(i, x) = i - x
      BY <1>0, NoWrap
    <2>2. WrapAdd(x, d) = x + d
      BY <1>0, <2>1, NoWrap
    <2>3. x + d = i \/ x + d \in 0 .. i - 1
      BY <1>0, <2>1
    <2>4. ~(x + d < x)
      BY <1>0, <2>1
    <2> QED  BY <2>2, <2>3, <2>4
  <1>2. \A i \in run : i \in rel /\ i >= x
    <2> SUFFICES ASSUME NEW i \in run, i < x
                 PROVE  FALSE
      BY <1>0 DEF Contiguous
    <2>1. i \in rel
      BY DEF Contiguous
    <2>2. WrapSub(i, x) > SEQ_WINDOW
      BY <1>0, <2>1, NoWrap
    <2>3. top - x \in 0 .. WrapSub(i, x)
      BY <1>0, <2>1, <2>2 DEF WrapSub, SEQ_MOD
    <2>4. WrapAdd(x, top - x) = top
      BY <1>0, NoWrap
    <2>5. top \in rel
      BY <2>3, <2>4 DEF Contiguous
    <2> QED  BY <1>0, <2>5
  <1>3. run \in SUBSET (x .. top - 1)
    BY <1>0, <1>2
  <1>4. /\ IsFiniteSet(x .. top - 1) /\ Cardinality(x .. top - 1) = top - x
    <2>1. x \in Int /\ top - 1 \in Int /\ x <= top
      BY <1>0
    <2>2. /\ IsFiniteSet(x .. top - 1)
          /\ Cardinality(x .. top - 1) = IF x > top - 1 THEN 0 ELSE top - 1 - x + 1
      BY <2>1, FS_Interval
    <2> QED  BY <1>0, <2>1, <2>2
  <1>5. /\ IsFiniteSet(run) /\ Cardinality(run) <= top - x
    BY <1>3, <1>4, FS_Subset
  <1>6. Cardinality(run) \in Nat
    BY <1>5, FS_CardinalityType
  <1>7. next = x + Cardinality(run)
    BY <1>0, <1>5, <1>6, NoWrap
  <1>8. next \in x .. top
    BY <1>0, <1>5, <1>6, <1>7
  <1>9. \A i \in rel : i < next
    <2> SUFFICES ASSUME NEW i \in rel, i >= x
                 PROVE  i < next
      BY <1>0, <1>8
    <2>1. (x .. i) \in SUBSET run
      <3> SUFFICES ASSUME NEW k \in x .. i
                   PROVE  k \in run
        OBVIOUS
      <3>1. k = i \/ (k \in 0 .. i - 1 /\ ~(k < x))
        BY <1>0
      <3> QED  BY <1>0, <1>1, <3>1
    <2>2. Cardinality(x .. i) = i - x + 1
      BY <1>0, FS_Interval
    <2>3. Cardinality(x .. i) <= Cardinality(run)
      BY <1>5, <2>1, FS_Subset
    <2> QED  BY <1>0, <1>6, <1>7, <2>2, <2>3
  <1>10. \A i \in rel : ~SequenceMoreRecent(i, next)
    <2> SUFFICES ASSUME NEW i \in rel
                 PROVE  ~SequenceMoreRecent(i, next)
      OBVIOUS
    <2>1. WrapSub(i, next) > SEQ_WINDOW
      BY <1>0, <1>8, <1>9, NoWrap
    <2> QED  BY <1>0, <1>8, <2>1 DEF SequenceMoreRecent, WrapSub, SEQ_MOD
  <1> QED  BY <1>8, <1>9, <1>10

-----------------------------------------------------------------------------
(* The constants and the state as numbers, for the arithmetic below.       *)
LEMMA ConstantFacts ==
  /\ SEQ_WINDOW \in Nat /\ MASK_BITS \in Nat /\ MASK_BITS < SEQ_WINDOW
  /\ PacketCap \in Int
  /\ MaxPackets \in Nat /\ MaxPackets < SEQ_WINDOW
  /\ MaxReliable["client"] \in Nat /\ MaxReliable["client"] < SEQ_WINDOW
  BY Positive, Horizon

LEMMA U16Nat == U16 \in SUBSET Nat
  BY DEF U16

LEMMA StateFacts ==
  ASSUME TypeOK
  PROVE  /\ nextSeq["client"] \in Nat
         /\ nextId["client"] \in Nat
         /\ expectedId["server"] \in Nat
         /\ lastReceived["server"] \in Int
         /\ pending["client"] \in SUBSET U16
         /\ \A t \in sentPackets["client"] : t.seq \in Nat /\ t.refs \in SUBSET U16
         /\ \A p \in network : /\ p.seq \in Nat /\ p.ack \in Nat
                               /\ p.rel \in SUBSET U16
                               /\ p.bits \in SUBSET (1 .. MASK_BITS)
  <1> USE U16Nat DEF TypeOK, End
  <1>1. /\ nextSeq["client"] \in Nat
        /\ nextId["client"] \in Nat
        /\ expectedId["server"] \in Nat
    OBVIOUS
  <1>2. lastReceived["server"] \in Int
    <2>1. lastReceived["server"] \in U16 \cup {None}
      OBVIOUS
    <2>2. None \in Int
      BY DEF None
    <2>3. \A a \in U16 : a \in Int
      BY U16Nat
    <2> QED  BY <2>1, <2>2, <2>3
  <1>3. pending["client"] \in SUBSET U16
    OBVIOUS
  <1>4. \A t \in sentPackets["client"] : t.seq \in Nat /\ t.refs \in SUBSET U16
    <2>1. sentPackets["client"] \in SUBSET [seq : U16, refs : SUBSET U16]
      OBVIOUS
    <2> SUFFICES ASSUME NEW t \in [seq : U16, refs : SUBSET U16]
                 PROVE  t.seq \in Nat /\ t.refs \in SUBSET U16
      BY <2>1
    <2> QED  OBVIOUS
  <1>5. \A p \in network : /\ p.seq \in Nat /\ p.ack \in Nat
                          /\ p.rel \in SUBSET U16
                          /\ p.bits \in SUBSET (1 .. MASK_BITS)
    BY DEF Packet
  <1> QED  BY <1>1, <1>2, <1>3, <1>4, <1>5

(* The invariant holds initially.                                          *)
LEMMA ClientInvInit == Init => ClientInv
  <1> SUFFICES ASSUME Init PROVE ClientInv
    OBVIOUS
  <1>1. TypeOK
    BY Positive DEF Init, TypeOK, U16, SEQ_MOD, UnreliableStream
  <1> QED
    BY <1>1, Positive DEF Init, ClientInv, ServerSilentBeforeContact, Counters,
       TrackedRepeated, ReceivedDelivered, FlightRepeats, AcksHeard,
       ServerBufferUnused, ClientNothingLost, End, None

(* The three kinds of send.                                                *)
LEMMA ClientInvSend ==
  ASSUME ClientInv, TypeOK', NEW e \in End,
         SendReliable(e) \/ SendSequenced(e) \/ SendUnreliable(e)
  PROVE  ClientInv'
  <1> USE DEF End
  <1>1. TypeOK
    BY DEF ClientInv
  <1>2. /\ network' = network /\ sentPackets' = sentPackets /\ nextSeq' = nextSeq
        /\ lastReceived' = lastReceived /\ expectedId' = expectedId /\ buffer' = buffer
    BY DEF SendReliable, SendSequenced, SendUnreliable, recvVars
  <1>3. ServerSilentBeforeContact'
    BY <1>1, <1>2 DEF ClientInv, ServerSilentBeforeContact, SendReliable, SendSequenced,
       SendUnreliable, MayAddressPeer, TypeOK
  <1>4. ServerBufferUnused' /\ AcksHeard' /\ ReceivedDelivered'
    BY <1>2 DEF ClientInv, ServerBufferUnused, AcksHeard, ReceivedDelivered
  <1>5. CASE pending'["client"] = pending["client"] /\ nextId'["client"] = nextId["client"]
    BY <1>2, <1>3, <1>4, <1>5 DEF ClientInv, Counters, TrackedRepeated, FlightRepeats,
       ClientNothingLost
  <1>6. CASE SendReliable("client")
    <2> DEFINE n == nextId["client"]
    <2>1. /\ n \in 0 .. SEQ_WINDOW - 1 /\ n < MaxReliable["client"]
          /\ MaxReliable["client"] \in Nat /\ MaxReliable["client"] < SEQ_WINDOW
      BY <1>1, <1>6, ConstantFacts, StateFacts DEF SendReliable
    <2>2. nextId'["client"] = n + 1 /\ pending'["client"] = pending["client"] \cup {n}
      BY <1>1, <1>6, <2>1, NoWrap DEF SendReliable, TypeOK
    <2>3. /\ pending["client"] \in SUBSET U16 /\ pending'["client"] \in SUBSET U16
          /\ expectedId["server"] \in Nat /\ PacketCap \in Int
      BY <1>1, ConstantFacts, StateFacts, TypeOK' DEF TypeOK
    <2>4. \A i \in pending["client"] : i < n
      BY DEF ClientInv, Counters
    <2>5. \A i \in FirstOf(pending["client"], PacketCap) :
            i \in FirstOf(pending'["client"], PacketCap)
      <3> SUFFICES ASSUME NEW i \in FirstOf(pending["client"], PacketCap)
                   PROVE  i \in FirstOf(pending'["client"], PacketCap)
        OBVIOUS
      <3>1. i \in pending["client"]
        BY FirstOfSubset
      <3>2. \A x \in pending'["client"] : x < i => x \in pending["client"]
        BY <2>1, <2>2, <2>3, <2>4, <3>1 DEF U16
      <3> HIDE DEF n
      <3> QED  BY <2>2, <2>3, <3>1, <3>2, FirstOfMonotone
    <2>6. Counters'
      BY <1>2, <2>1, <2>2, <2>3, <2>4 DEF ClientInv, Counters, U16
    <2>7. TrackedRepeated'
      <3> SUFFICES ASSUME NEW t \in sentPackets["client"], NEW i \in t.refs
                   PROVE  /\ i < n + 1
                          /\ i \in pending'["client"] => i \in FirstOf(pending'["client"], PacketCap)
        BY <1>2, <2>2 DEF ClientInv, TrackedRepeated
      <3>1. i < n /\ (i \in pending["client"] => i \in FirstOf(pending["client"], PacketCap))
        BY DEF ClientInv, TrackedRepeated
      <3>2. i \in Nat
        BY <1>1, StateFacts, U16Nat
      <3>3. i \in pending'["client"] => i \in pending["client"]
        BY <2>1, <2>2, <3>1, <3>2
      <3> QED  BY <2>1, <2>5, <3>1, <3>2, <3>3
    <2>8. FlightRepeats'
      <3>1. \A p \in network : p.rel \in SUBSET U16
        BY <1>1 DEF TypeOK, Packet
      <3>2. \A p \in network : \A i \in p.rel : i < n => i < n + 1
        BY <2>1, <3>1 DEF U16
      <3> QED  BY <1>2, <2>2, <3>2 DEF ClientInv, FlightRepeats
    <2>9. ClientNothingLost'
      <3>1. \A i \in 0 .. n : i = n \/ i \in 0 .. n - 1
        BY <2>1
      <3> QED  BY <1>2, <2>1, <2>2, <3>1 DEF ClientInv, ClientNothingLost
    <2> QED  BY <1>3, <1>4, <2>6, <2>7, <2>8, <2>9 DEF ClientInv
  <1> QED
    BY <1>1, <1>5, <1>6 DEF SendReliable, SendSequenced, SendUnreliable, TypeOK

(* flush: what the new packet carries covers what is tracked.              *)
LEMMA ClientInvFlush ==
  ASSUME ClientInv, TypeOK', NEW e \in End, Flush(e)
  PROVE  ClientInv'
  <1> USE DEF End
  <1> DEFINE p == BuildPacket(e)
             c == "client"
             s == "server"
  <1>1. TypeOK
    BY DEF ClientInv
  <1>2. /\ network' = network \cup {p}
        /\ sentPackets' = [sentPackets EXCEPT ![e] = TrackSent(@, p.seq, p.rel)]
        /\ lastReceived' = lastReceived /\ expectedId' = expectedId /\ buffer' = buffer
        /\ nextId' = nextId /\ pending' = pending
        /\ nextSeq' = [nextSeq EXCEPT ![e] = WrapInc(@)]
    BY DEF Flush, recvVars
  <1>3. ServerSilentBeforeContact'
    BY <1>1 DEF ClientInv, ServerSilentBeforeContact, Flush, recvVars, TypeOK
  <1>4. ServerBufferUnused' /\ ClientNothingLost'
    BY <1>2 DEF ClientInv, ServerBufferUnused, ClientNothingLost
  <1>5. CASE e = s
    <2>1. /\ p.from = s
          /\ lastReceived[s] # None => p.ack = lastReceived[s]
      BY <1>5 DEF BuildPacket
    <2>2. lastReceived[s] # None
      BY <1>5 DEF ClientInv, ServerSilentBeforeContact, Flush, HasPending
    <2>3. sentPackets'[c] = sentPackets[c] /\ nextSeq'[c] = nextSeq[c]
      BY <1>1, <1>2, <1>5 DEF TypeOK
    <2>4. lastReceived[s] \in U16
      BY <1>1, <2>2 DEF TypeOK
    <2>5. AcksHeard'
      BY <1>2, <2>1, <2>2, <2>4 DEF ClientInv, AcksHeard, U16
    <2>6. Counters' /\ TrackedRepeated' /\ ReceivedDelivered' /\ FlightRepeats'
      BY <1>2, <2>1, <2>3 DEF ClientInv, Counters, TrackedRepeated, ReceivedDelivered,
         FlightRepeats
    <2> QED  BY <1>3, <1>4, <2>5, <2>6 DEF ClientInv
  <1>6. CASE e = c
    <2> DEFINE q == nextSeq[c]
               tracked == [seq |-> q, refs |-> p.rel]
    <2>1. /\ p.from = c /\ p.seq = q /\ p.rel = FirstOf(pending[c], PacketCap)
      BY <1>6 DEF BuildPacket
    <2>2. q \in 0 .. SEQ_WINDOW - 1 /\ q < MaxPackets /\ MaxPackets \in Nat
      BY <1>1, <1>6, ConstantFacts, StateFacts DEF Flush
    <2>3. nextSeq'[c] = q + 1
      BY <1>1, <1>2, <1>6, <2>2, NoWrap DEF TypeOK
    <2>4. \A t \in sentPackets'[c] : t \in sentPackets[c] \/ t = tracked
      BY <1>1, <1>2, <1>6, <2>1 DEF TypeOK, TrackSent
    <2>5. \A t \in sentPackets[c] : t.seq \in Nat /\ t.seq < q /\ t.refs \in SUBSET U16
      BY <1>1, StateFacts DEF ClientInv, TrackedRepeated
    <2>6. lastReceived[s] < q /\ lastReceived[s] \in Int
      BY <1>1 DEF ClientInv, Counters, TypeOK, U16, None
    <2>7. p.rel \in SUBSET pending[c]
      BY <2>1, FirstOfSubset
    <2>8. Counters'
      BY <1>2, <2>2, <2>3, <2>6 DEF ClientInv, Counters
    <2>9. TrackedRepeated'
      <3>1. \A i \in p.rel : i < nextId[c] /\ i \in FirstOf(pending[c], PacketCap)
        BY <2>1, <2>7 DEF ClientInv, Counters
      <3>2. \A t \in sentPackets[c] : t.seq < q + 1
        BY <2>2, <2>5
      <3>3. q < q + 1
        BY <2>2
      <3> QED  BY <1>2, <2>3, <2>4, <3>1, <3>2, <3>3 DEF ClientInv, TrackedRepeated
    <2>10. ReceivedDelivered'
      <3>1. ~(q <= lastReceived[s])
        BY <2>2, <2>6
      <3> QED  BY <1>2, <2>4, <3>1 DEF ClientInv, ReceivedDelivered
    <2>11. FlightRepeats'
      <3> SUFFICES ASSUME NEW f \in network', f.from = c
                   PROVE  /\ f.seq < q + 1
                          /\ \A i \in f.rel :
                               /\ i < nextId[c]
                               /\ \A k \in 0 .. i - 1 : k \in f.rel \/ k < expectedId[s]
                          /\ \A t \in sentPackets'[c] : t.seq <= f.seq =>
                               \A i \in t.refs : i \in f.rel \/ i < expectedId[s]
        BY <1>2, <2>3 DEF FlightRepeats
      <3>1. CASE f \in network
        <4>1. f.seq < q /\ f.seq \in Nat
          BY <1>1, <3>1, StateFacts DEF ClientInv, FlightRepeats
        <4>2. f.seq < q + 1 /\ ~(q <= f.seq)
          BY <2>2, <4>1
        <4> QED  BY <2>4, <3>1, <4>2 DEF ClientInv, FlightRepeats
      <3>2. CASE f = p
        <4>1. p.seq < q + 1
          BY <2>1, <2>2
        <4>2. ASSUME NEW i \in p.rel
              PROVE  /\ i < nextId[c]
                     /\ \A k \in 0 .. i - 1 : k \in p.rel \/ k < expectedId[s]
          <5>1. i < nextId[c] /\ i \in Nat /\ nextId[c] \in Nat
            BY <1>1, <2>7, StateFacts, U16Nat DEF ClientInv, Counters
          <5>2. ASSUME NEW k \in 0 .. i - 1, k \in pending[c]
                PROVE  k \in p.rel
            <6>1. k < i /\ PacketCap \in Int /\ pending[c] \in SUBSET U16
              BY <1>1, <5>1, ConstantFacts, StateFacts
            <6> QED  BY <2>1, <5>2, <6>1, FirstOfDownward
          <5>3. \A k \in 0 .. i - 1 : k \in 0 .. nextId[c] - 1
            BY <5>1
          <5> QED  BY <5>1, <5>2, <5>3 DEF ClientInv, ClientNothingLost
        <4>3. ASSUME NEW t \in sentPackets[c], NEW i \in t.refs
              PROVE  i \in p.rel \/ i < expectedId[s]
          <5>1. i \in pending[c] => i \in p.rel
            BY <2>1 DEF ClientInv, TrackedRepeated
          <5>2. i \in 0 .. nextId[c] - 1
            <6>1. i < nextId[c] /\ i \in Nat /\ nextId[c] \in Nat
              BY <1>1, <2>5, StateFacts, U16Nat DEF ClientInv, TrackedRepeated
            <6> QED  BY <6>1
          <5> QED  BY <5>1, <5>2 DEF ClientInv, ClientNothingLost
        <4> QED  BY <2>4, <3>2, <4>1, <4>2, <4>3
      <3> QED  BY <1>2, <3>1, <3>2
    <2>12. AcksHeard'
      BY <1>2, <2>1 DEF ClientInv, AcksHeard
    <2> QED  BY <1>3, <1>4, <2>8, <2>9, <2>10, <2>11, <2>12 DEF ClientInv
  <1> QED  BY <1>5, <1>6

(* poll at the client: only packets that reached the server are            *)
(* acknowledged, so what leaves pending is delivered.                      *)
LEMMA ClientInvReceiveClient ==
  ASSUME ClientInv, TypeOK', NEW p \in network, Receive("client", p)
  PROVE  ClientInv'
  <1> USE DEF End
  <1> DEFINE c == "client"
             s == "server"
             acked == {t \in sentPackets[c] : PacketAcked(t.seq, p.ack, p.bits)}
  <1>1. TypeOK
    BY DEF ClientInv
  <1>2. /\ network' = network /\ nextSeq' = nextSeq /\ nextId' = nextId
        /\ seqPending' = seqPending /\ unrPending' = unrPending
        /\ p.from = s
    BY DEF Receive, Other
  <1>3. /\ lastReceived'[s] = lastReceived[s] /\ expectedId'[s] = expectedId[s]
        /\ buffer'[s] = buffer[s] /\ pending'[s] = pending[s]
    BY <1>1 DEF Receive, ProcessAcks, TrackReceived, ReceiveMessages, ReceiveReliable, TypeOK
  <1>4. /\ sentPackets'[c] = sentPackets[c] \ acked
        /\ pending'[c] = pending[c] \ UNION {t.refs : t \in acked}
    BY <1>1 DEF Receive, ProcessAcks, TypeOK
  <1>5. \A t \in acked : \A i \in t.refs : i < expectedId[s]
    <2> SUFFICES ASSUME NEW t \in acked
                 PROVE  t.seq <= lastReceived[s]
      BY DEF ClientInv, ReceivedDelivered
    <2>1. /\ t.seq \in Nat /\ p.ack \in Nat /\ p.bits \in SUBSET (1 .. MASK_BITS)
          /\ lastReceived[s] \in Int
      BY <1>1, StateFacts
    <2>2. p.ack <= lastReceived[s]
      BY <1>2 DEF ClientInv, AcksHeard
    <2>3. /\ t.seq < nextSeq[c] /\ lastReceived[s] < nextSeq[c] /\ nextSeq[c] <= MaxPackets
      BY DEF ClientInv, TrackedRepeated, Counters
    <2>4. t.seq \in 0 .. SEQ_WINDOW - 1 /\ p.ack \in 0 .. SEQ_WINDOW - 1
      BY <1>1, <2>1, <2>2, <2>3, ConstantFacts, StateFacts
    <2>5. CASE t.seq = p.ack
      BY <2>1, <2>2, <2>5
    <2>6. CASE WrapSub(p.ack, t.seq) \in p.bits
      <3>1. WrapSub(p.ack, t.seq) <= MASK_BITS /\ WrapSub(p.ack, t.seq) \in Int
        BY <2>1, <2>6
      <3>2. ~(p.ack < t.seq)
        <4> SUFFICES ASSUME p.ack < t.seq PROVE FALSE
          OBVIOUS
        <4>1. WrapSub(p.ack, t.seq) > SEQ_WINDOW
          BY <2>4, NoWrap
        <4> QED  BY <3>1, <4>1, ConstantFacts
      <3> QED  BY <2>1, <2>2, <3>2
    <2> QED  BY <2>5, <2>6 DEF PacketAcked
  <1>6. ServerSilentBeforeContact' /\ AcksHeard' /\ ServerBufferUnused'
    BY <1>2, <1>3 DEF ClientInv, ServerSilentBeforeContact, AcksHeard, ServerBufferUnused
  <1>7. Counters'
    BY <1>2, <1>3, <1>4 DEF ClientInv, Counters
  <1>8. TrackedRepeated'
    <2>1. /\ pending[c] \in SUBSET U16 /\ pending'[c] \in SUBSET pending[c] /\ PacketCap \in Int
      BY <1>1, <1>4, StateFacts, ConstantFacts
    <2>2. \A i \in pending'[c] : i \in FirstOf(pending[c], PacketCap)
                               => i \in FirstOf(pending'[c], PacketCap)
      <3> SUFFICES ASSUME NEW i \in pending'[c], i \in FirstOf(pending[c], PacketCap)
                   PROVE  i \in FirstOf(pending'[c], PacketCap)
        OBVIOUS
      <3>1. pending'[c] \in SUBSET U16
        BY <2>1
      <3> QED  BY <2>1, <3>1, FirstOfMonotone
    <2> QED  BY <1>2, <1>4, <2>1, <2>2 DEF ClientInv, TrackedRepeated
  <1>9. ReceivedDelivered' /\ FlightRepeats'
    BY <1>2, <1>3, <1>4 DEF ClientInv, ReceivedDelivered, FlightRepeats
  <1>10. ClientNothingLost'
    BY <1>2, <1>3, <1>4, <1>5 DEF ClientInv, ClientNothingLost
  <1> QED  BY <1>6, <1>7, <1>8, <1>9, <1>10 DEF ClientInv

(* poll at the server: a newer packet delivers all that it and the packets *)
(* before it carried; an older one changes nothing that counts.            *)
LEMMA ClientInvReceiveServer ==
  ASSUME ClientInv, TypeOK', NEW p \in network, Receive("server", p)
  PROVE  ClientInv'
  <1> USE DEF End
  <1> DEFINE c == "client"
             s == "server"
             last == lastReceived[s]
  <1>1. TypeOK
    BY DEF ClientInv
  <1>2. /\ network' = network /\ nextSeq' = nextSeq /\ nextId' = nextId
        /\ seqPending' = seqPending /\ unrPending' = unrPending
        /\ p.from = c
    BY DEF Receive, Other
  <1>3. /\ sentPackets'[c] = sentPackets[c] /\ pending'[c] = pending[c]
        /\ pending'[s] \in SUBSET pending[s]
    BY <1>1 DEF Receive, ProcessAcks, TypeOK
  <1>4. lastReceived'[s] = IF IsNew(s, p.seq) THEN p.seq ELSE last
    BY <1>1 DEF Receive, TrackReceived, TypeOK
  <1>5. /\ p.seq \in Nat /\ p.seq < nextSeq[c] /\ nextSeq[c] \in Nat
        /\ last \in Int /\ last < nextSeq[c] /\ nextSeq[c] < SEQ_WINDOW
        /\ p.rel \in SUBSET U16 /\ SEQ_WINDOW \in Nat
    BY <1>1, <1>2, StateFacts, ConstantFacts DEF ClientInv, FlightRepeats, Counters
  <1>6. IsNew(s, p.seq) => p.seq >= last
    <2> SUFFICES ASSUME IsNew(s, p.seq), last # None
                 PROVE  p.seq >= last
      BY <1>5 DEF None
    <2>1. last \in Nat
      BY <1>1, U16Nat DEF TypeOK
    <2>2. WrapSub(p.seq, last) \in 1 .. SEQ_WINDOW - 1
      BY DEF IsNew
    <2>3. p.seq \in 0 .. SEQ_WINDOW - 1 /\ last \in 0 .. SEQ_WINDOW - 1
      BY <1>5, <2>1
    <2>4. p.seq < last => WrapSub(p.seq, last) > SEQ_WINDOW
      BY <2>3, NoWrap
    <2> QED  BY <1>5, <2>2, <2>4
  <1>7. /\ expectedId'[s] \in expectedId[s] .. nextId[c]
        /\ IsNew(s, p.seq) => \A i \in p.rel : i < expectedId'[s]
        /\ buffer'[s] = {}
    <2>1. /\ expectedId[s] \in Nat /\ nextId[c] \in Nat /\ nextId[c] < SEQ_WINDOW
          /\ expectedId[s] <= nextId[c]
      BY <1>1, StateFacts, ConstantFacts DEF ClientInv, Counters
    <2>2. buffer[s] = {}
      BY DEF ClientInv, ServerBufferUnused
    <2>3. CASE ~IsNew(s, p.seq)
      BY <2>1, <2>2, <2>3 DEF Receive
    <2>4. CASE IsNew(s, p.seq)
      <3> DEFINE x == expectedId[s]
                 run == Contiguous(p.rel, x)
                 next == WrapAdd(x, Cardinality(run))
      <3>1. ReceiveReliable(s, p.rel)
        BY <2>4 DEF Receive, ReceiveMessages
      <3>2. buffer[s] \cup p.rel = p.rel
        BY <2>2
      <3>3. /\ \A i \in p.rel : i < nextId[c]
            /\ \A i \in p.rel : \A k \in 0 .. i - 1 : k \in p.rel \/ k < x
        BY <1>2 DEF ClientInv, FlightRepeats
      <3>4. x \in 0 .. SEQ_WINDOW - 1 /\ nextId[c] \in x .. SEQ_WINDOW - 1
        BY <1>5, <2>1
      <3>5. /\ next \in x .. nextId[c]
            /\ \A i \in p.rel : i < next
            /\ \A i \in p.rel : ~SequenceMoreRecent(i, next)
        BY <1>5, <3>3, <3>4, GaplessRun
      <3>6. expectedId'[s] = next
        BY <1>1, <3>1, <3>2 DEF ReceiveReliable, TypeOK
      <3>7. buffer'[s] \in SUBSET {i \in p.rel : SequenceMoreRecent(i, next)}
        <4>1. \A S, d : FirstOf(S, d) \subseteq S
          BY FirstOfSubset
        <4> QED  BY <1>1, <2>2, <3>1, <3>2, <4>1 DEF ReceiveReliable, TypeOK
      <3>8. buffer'[s] = {}
        BY <3>5, <3>7
      <3> QED  BY <3>5, <3>6, <3>8
    <2> QED  BY <2>3, <2>4
  <1>8. /\ expectedId[s] <= expectedId'[s] /\ expectedId'[s] <= nextId[c]
        /\ expectedId[s] \in Nat /\ expectedId'[s] \in Nat
    BY <1>1, <1>7, StateFacts
  <1>9. \A i \in Nat : i < expectedId[s] => i < expectedId'[s]
    BY <1>8
  <1>10. ServerSilentBeforeContact'
    <2>1. lastReceived'[s] = None => last = None /\ ~IsNew(s, p.seq)
      BY <1>4, <1>5 DEF None
    <2> QED  BY <1>2, <1>3, <2>1 DEF ClientInv, ServerSilentBeforeContact
  <1>11. Counters'
    BY <1>2, <1>3, <1>4, <1>5, <1>8 DEF ClientInv, Counters
  <1>12. TrackedRepeated'
    BY <1>2, <1>3 DEF ClientInv, TrackedRepeated
  <1>13. ReceivedDelivered'
    <2> SUFFICES ASSUME NEW t \in sentPackets[c], t.seq <= lastReceived'[s], NEW i \in t.refs
                 PROVE  i < expectedId'[s]
      BY <1>3 DEF ReceivedDelivered
    <2>1. i \in Nat
      BY <1>1, StateFacts, U16Nat
    <2>2. CASE IsNew(s, p.seq)
      <3>1. i \in p.rel \/ i < expectedId[s]
        BY <1>2, <1>4, <2>2 DEF ClientInv, FlightRepeats
      <3> QED  BY <1>7, <1>9, <2>1, <2>2, <3>1
    <2>3. CASE ~IsNew(s, p.seq)
      <3>1. i < expectedId[s]
        BY <1>4, <2>3 DEF ClientInv, ReceivedDelivered
      <3> QED  BY <1>9, <2>1, <3>1
    <2> QED  BY <2>2, <2>3
  <1>14. FlightRepeats'
    <2> SUFFICES ASSUME NEW f \in network, f.from = c
                 PROVE  /\ f.seq < nextSeq[c]
                        /\ \A i \in f.rel :
                             /\ i < nextId[c]
                             /\ \A k \in 0 .. i - 1 : k \in f.rel \/ k < expectedId'[s]
                        /\ \A t \in sentPackets[c] : t.seq <= f.seq =>
                             \A i \in t.refs : i \in f.rel \/ i < expectedId'[s]
      BY <1>2, <1>3 DEF FlightRepeats
    <2>1. f.rel \in SUBSET Nat /\ \A t \in sentPackets[c] : t.refs \in SUBSET Nat
      BY <1>1, StateFacts, U16Nat
    <2>2. \A i \in f.rel : \A k \in 0 .. i - 1 : k \in Nat
      BY <2>1
    <2> QED  BY <1>9, <2>1, <2>2 DEF ClientInv, FlightRepeats
  <1>15. AcksHeard'
    <2> SUFFICES ASSUME NEW q \in network, q.from = s
                 PROVE  q.ack <= lastReceived'[s]
      BY <1>2 DEF AcksHeard
    <2>1. q.ack <= last /\ q.ack \in Nat
      BY <1>1, StateFacts DEF ClientInv, AcksHeard
    <2> QED  BY <1>4, <1>5, <1>6, <2>1
  <1>16. ServerBufferUnused'
    BY <1>7 DEF ServerBufferUnused
  <1>17. ClientNothingLost'
    BY <1>2, <1>3, <1>9 DEF ClientInv, ClientNothingLost
  <1> QED
    BY <1>10, <1>11, <1>12, <1>13, <1>14, <1>15, <1>16, <1>17 DEF ClientInv

-----------------------------------------------------------------------------
LEMMA ClientInvariant == Spec => []ClientInv
  <1>1. ClientInv /\ TypeOK' /\ [Next]_vars => ClientInv'
    <2> SUFFICES ASSUME ClientInv, TypeOK', [Next]_vars
                 PROVE  ClientInv'
      OBVIOUS
    <2>1. CASE Next
      <3>1. PICK e \in End : \/ SendReliable(e) \/ SendSequenced(e) \/ SendUnreliable(e)
                             \/ Flush(e)
                             \/ \E p \in network : Receive(e, p)
        BY <2>1 DEF Next
      <3>2. CASE SendReliable(e) \/ SendSequenced(e) \/ SendUnreliable(e)
        BY <3>2, ClientInvSend
      <3>3. CASE Flush(e)
        BY <3>3, ClientInvFlush
      <3>4. ASSUME NEW p \in network, Receive(e, p)
            PROVE  ClientInv'
        <4>1. CASE e = "client"
          BY <3>4, <4>1, ClientInvReceiveClient
        <4>2. CASE e = "server"
          BY <3>4, <4>2, ClientInvReceiveServer
        <4> QED  BY <4>1, <4>2 DEF End
      <3> QED  BY <3>1, <3>2, <3>3, <3>4
    <2>2. CASE UNCHANGED vars
      <3> USE <2>2 DEF vars, sendVars, recvVars
      <3> QED
        BY DEF ClientInv, ServerSilentBeforeContact, Counters, TrackedRepeated,
           ReceivedDelivered, FlightRepeats, AcksHeard, ServerBufferUnused,
           ClientNothingLost
    <2> QED  BY <2>1, <2>2
  <1> QED  BY <1>1, ClientInvInit, TypeInvariant, PTL DEF Spec

(* Every variable keeps its type: no queue, id or mask ever leaves the     *)
(* range the wire format gives it.                                         *)
THEOREM TransportTypes == Spec => []TypeOK
  BY TypeInvariant

(* However the network drops, duplicates and reorders packets, and however *)
(* wrong the ack bits are, a reliable message that the client no longer    *)
(* retransmits has been delivered by the server.                           *)
THEOREM ClientMessagesNeverLost == Spec => []ClientNothingLost
  <1>1. ClientInv => ClientNothingLost
    BY DEF ClientInv
  <1> QED  BY <1>1, ClientInvariant, PTL

(* The server's reorder buffer stays empty.                                *)
THEOREM ServerNeverReorders == Spec => []ServerBufferUnused
  <1>1. ClientInv => ServerBufferUnused
    BY DEF ClientInv
  <1> QED  BY <1>1, ClientInvariant, PTL

-----------------------------------------------------------------------------
(* The three channels, at both ends.                                       *)

LEMMA OtherEnd ==
  ASSUME NEW e \in End
  PROVE  Other(e) \in End /\ Other(e) # e /\ Other(Other(e)) = e
  BY DEF Other, End

LEMMA BoundFacts ==
  /\ SEQ_WINDOW \in Nat \ {0} /\ MaxPackets \in Nat /\ MaxPackets < SEQ_WINDOW
  /\ MaxSequenced \in Nat /\ MaxSequenced < SEQ_WINDOW /\ MaxUnreliable \in Nat
  /\ \A e \in End : MaxReliable[e] \in Nat /\ MaxReliable[e] < SEQ_WINDOW
  BY Positive, Horizon DEF End

(* The numbers and sets that make up the state, at either end.             *)
LEMMA EndFacts ==
  ASSUME TypeOK, NEW e \in End
  PROVE  /\ nextSeq[e] \in Nat /\ nextId[e] \in Nat /\ expectedId[e] \in Nat
         /\ seqNextId[e] \in Nat /\ unrNext[e] \in Nat
         /\ lastReceived[e] \in Nat \cup {-1} /\ seqLastId[e] \in Nat \cup {-1}
         /\ pending[e] \in SUBSET Nat /\ buffer[e] \in SUBSET U16
         /\ seqPending[e] \in SUBSET Nat /\ unrPending[e] \in SUBSET Nat
  <1>1. UnreliableStream \in SUBSET Nat
    BY BoundFacts DEF UnreliableStream
  <1>2. /\ nextSeq[e] \in Nat /\ nextId[e] \in Nat /\ expectedId[e] \in Nat
        /\ seqNextId[e] \in Nat /\ unrNext[e] \in Nat
    BY U16Nat DEF TypeOK
  <1>3. lastReceived[e] \in U16 \cup {-1} /\ seqLastId[e] \in U16 \cup {-1}
    BY DEF TypeOK, None
  <1>4. /\ pending[e] \in SUBSET U16 /\ buffer[e] \in SUBSET U16
        /\ seqPending[e] \in SUBSET U16 /\ unrPending[e] \in SUBSET UnreliableStream
    BY DEF TypeOK
  <1> QED  BY <1>1, <1>2, <1>3, <1>4, U16Nat

LEMMA PacketFacts ==
  ASSUME TypeOK, NEW p \in network
  PROVE  /\ p.from \in End /\ p.seq \in Nat /\ p.rel \in SUBSET U16
         /\ p.sqd \in SUBSET U16 /\ p.unr \in SUBSET UnreliableStream
  <1>1. p \in Packet
    BY DEF TypeOK
  <1> QED  BY <1>1, U16Nat DEF Packet

(* Inside the horizon "more recent" is "greater".                          *)
LEMMA MoreRecentIsGreater ==
  ASSUME NEW a \in 0 .. SEQ_WINDOW - 1, NEW b \in 0 .. SEQ_WINDOW - 1
  PROVE  SequenceMoreRecent(a, b) => b < a
  <1>1. a < b => WrapSub(a, b) > SEQ_WINDOW
    BY NoWrap
  <1>2. a >= b => WrapSub(a, b) = a - b
    BY NoWrap
  <1>3. a \in Int /\ b \in Int /\ SEQ_WINDOW \in Int
    BY BoundFacts
  <1>4. WrapSub(a, b) \in Int
    BY <1>3 DEF WrapSub, SEQ_MOD
  <1> QED  BY <1>1, <1>2, <1>3, <1>4 DEF SequenceMoreRecent

-----------------------------------------------------------------------------
(* The sequenced channel.                                                  *)

LEMMA SequencedInitial == Init => SequencedInv
  <1> SUFFICES ASSUME Init PROVE SequencedInv
    OBVIOUS
  <1>1. \A e \in End : Other(e) \in End
    BY OtherEnd
  <1> QED
    BY <1>1, BoundFacts DEF Init, SequencedInv, SequencedNeverOlder, None

\* A message handed to the application: the newest so far.
LEMMA SequencedAppend ==
  ASSUME NEW s \in Seq(U16), NEW i \in U16,
         s # <<>> => s[Len(s)] < i,
         \A j \in 1 .. Len(s) - 1 : s[j] < s[j + 1]
  PROVE  /\ Append(s, i) # <<>>
         /\ Append(s, i)[Len(Append(s, i))] = i
         /\ \A j \in 1 .. Len(Append(s, i)) - 1 : Append(s, i)[j] < Append(s, i)[j + 1]
  <1> DEFINE t == Append(s, i)
  <1>1. /\ Len(s) \in Nat /\ Len(t) = Len(s) + 1 /\ t[Len(s) + 1] = i
        /\ \A j \in 1 .. Len(s) : t[j] = s[j]
    BY AppendProperties, LenProperties
  <1>2. t # <<>>
    BY AppendProperties
  <1>3. s = <<>> => Len(s) = 0
    OBVIOUS
  <1>4. ASSUME NEW j \in 1 .. Len(t) - 1
        PROVE  t[j] < t[j + 1]
    <2>1. CASE j < Len(s)
      BY <1>1, <2>1
    <2>2. CASE j = Len(s)
      BY <1>1, <1>3, <2>2
    <2> QED  BY <1>1, <2>1, <2>2
  <1> QED  BY <1>1, <1>2, <1>4

LEMMA SequencedStep ==
  ASSUME TypeOK, TypeOK', SequencedInv, [Next]_vars
  PROVE  SequencedInv'
  <1> USE OtherEnd
  <1>1. CASE UNCHANGED <<seqNextId, seqPending, seqLastId, seqDelivered, network>>
    BY <1>1 DEF SequencedInv, SequencedNeverOlder
  <1>2. ASSUME NEW e \in End, SendSequenced(e)
        PROVE  SequencedInv'
    <2>1. WrapInc(seqNextId[e]) = seqNextId[e] + 1
      BY <1>2, EndFacts, BoundFacts, NoWrap DEF SendSequenced
    <2>2. /\ seqNextId' = [seqNextId EXCEPT ![e] = seqNextId[e] + 1]
          /\ seqPending' = [seqPending EXCEPT ![e] = {seqNextId[e]}]
          /\ UNCHANGED <<seqLastId, seqDelivered, network>>
          /\ seqNextId[e] < MaxSequenced
      BY <1>2, <2>1 DEF SendSequenced, recvVars
    <2>0. /\ seqNextId \in [End -> Nat] /\ seqPending \in [End -> SUBSET Nat]
          /\ \A x \in End : seqLastId[x] \in Int
      <3>1. \A x \in Nat \cup {-1} : x \in Int
        OBVIOUS
      <3> QED  BY <3>1, U16Nat, EndFacts DEF TypeOK
    <2>3. \A x \in End : seqNextId[x] \in Nat /\ seqNextId'[x] \in Nat
                         /\ seqNextId[x] <= seqNextId'[x] /\ seqNextId'[x] <= MaxSequenced
      BY <2>0, <2>2, BoundFacts DEF SequencedInv
    <2>4. \A x \in End : \A i \in seqPending'[x] : i < seqNextId'[x]
      BY <2>0, <2>2 DEF SequencedInv
    <2>5. \A x \in End : seqLastId[x] < seqNextId'[Other(x)]
      BY <2>0, <2>3 DEF SequencedInv
    <2>6. \A p \in network : \A i \in p.sqd : i < seqNextId'[p.from]
      <3> SUFFICES ASSUME NEW p \in network, NEW i \in p.sqd
                   PROVE  i < seqNextId'[p.from]
        OBVIOUS
      <3>1. i \in Nat /\ p.from \in End /\ i < seqNextId[p.from]
        BY PacketFacts, U16Nat DEF SequencedInv
      <3> QED  BY <2>3, <3>1
    <2> QED
      BY <2>2, <2>3, <2>4, <2>5, <2>6 DEF SequencedInv, SequencedNeverOlder
  <1>3. ASSUME NEW e \in End, Flush(e)
        PROVE  SequencedInv'
    <2> DEFINE p == BuildPacket(e)
    <2>1. /\ network' = network \cup {p} /\ p.from = e /\ p.sqd \in SUBSET seqPending[e]
          /\ seqPending' = [seqPending EXCEPT ![e] = @ \ p.sqd]
          /\ UNCHANGED <<seqNextId, seqLastId, seqDelivered>>
      BY <1>3 DEF Flush, BuildPacket, recvVars
    <2>2. \A x \in End : \A i \in seqPending'[x] : i < seqNextId[x]
      BY <2>1 DEF TypeOK, SequencedInv
    <2>3. \A q \in network' : \A i \in q.sqd : i < seqNextId[q.from]
      <3> HIDE DEF p
      <3> QED  BY <2>1 DEF SequencedInv
    <2> HIDE DEF p
    <2> QED  BY <2>1, <2>2, <2>3 DEF SequencedInv, SequencedNeverOlder
  <1>4. ASSUME NEW e \in End, NEW p \in network, Receive(e, p), IsNew(e, p.seq)
        PROVE  SequencedInv'
    <2>1. /\ UNCHANGED <<seqNextId, seqPending, network>>
          /\ ReceiveSequenced(e, p.sqd) /\ p.from = Other(e)
      BY <1>4 DEF Receive, ReceiveMessages
    <2>2. CASE UNCHANGED <<seqLastId, seqDelivered>>
      BY <1>1, <2>1, <2>2
    <2>3. ASSUME NEW i \in p.sqd,
                 seqLastId[e] = None \/ SequenceMoreRecent(i, seqLastId[e]),
                 seqLastId' = [seqLastId EXCEPT ![e] = i],
                 seqDelivered' = [seqDelivered EXCEPT ![e] = Append(@, i)]
          PROVE  SequencedInv'
      <3>1. /\ i \in U16 /\ i \in Nat /\ i < seqNextId[Other(e)] /\ seqNextId[Other(e)] <= MaxSequenced
            /\ seqNextId[Other(e)] \in Nat
        BY <2>1, PacketFacts, EndFacts, U16Nat DEF SequencedInv
      <3>2. seqLastId[e] # None => seqLastId[e] < i
        <4> SUFFICES ASSUME seqLastId[e] # None
                     PROVE  seqLastId[e] < i
          OBVIOUS
        <4>1. seqLastId[e] \in Nat /\ seqLastId[e] < seqNextId[Other(e)]
          BY EndFacts DEF None, SequencedInv
        <4>2. seqLastId[e] \in 0 .. SEQ_WINDOW - 1 /\ i \in 0 .. SEQ_WINDOW - 1
          BY <3>1, <4>1, BoundFacts
        <4> QED  BY <2>3, <4>2, MoreRecentIsGreater
      <3>3. seqDelivered[e] \in Seq(U16)
        BY DEF TypeOK
      <3> DEFINE s == seqDelivered[e]
      <3>4. /\ s # <<>> => s[Len(s)] < i
            /\ \A j \in 1 .. Len(s) - 1 : s[j] < s[j + 1]
        BY <3>2 DEF SequencedInv, SequencedNeverOlder
      <3> DEFINE t == Append(s, i)
      <3>5. /\ t # <<>> /\ t[Len(t)] = i
            /\ \A j \in 1 .. Len(t) - 1 : t[j] < t[j + 1]
        <4>1. s \in Seq(U16) /\ i \in U16
          BY <3>1, <3>3
        <4> HIDE DEF s
        <4> QED  BY <3>4, <4>1, SequencedAppend
      <3>6. /\ seqDelivered'[e] = t /\ seqLastId'[e] = i
            /\ \A x \in End : x # e => /\ seqDelivered'[x] = seqDelivered[x]
                                       /\ seqLastId'[x] = seqLastId[x]
        BY <2>3 DEF TypeOK
      <3>7. i # None
        BY <3>1 DEF None
      <3> HIDE DEF t, s
      <3>8. \A x \in End : seqLastId'[x] < seqNextId[Other(x)]
        BY <3>1, <3>6 DEF SequencedInv
      <3>9. \A x \in End :
              IF seqLastId'[x] = None THEN seqDelivered'[x] = <<>>
              ELSE /\ seqDelivered'[x] # <<>>
                   /\ seqDelivered'[x][Len(seqDelivered'[x])] = seqLastId'[x]
        BY <3>5, <3>6, <3>7 DEF SequencedInv
      <3>10. SequencedNeverOlder'
        BY <3>5, <3>6 DEF SequencedInv, SequencedNeverOlder
      <3> QED  BY <2>1, <3>8, <3>9, <3>10 DEF SequencedInv
    <2>4. \/ UNCHANGED <<seqLastId, seqDelivered>>
          \/ \E i \in p.sqd :
               /\ seqLastId[e] = None \/ SequenceMoreRecent(i, seqLastId[e])
               /\ seqLastId' = [seqLastId EXCEPT ![e] = i]
               /\ seqDelivered' = [seqDelivered EXCEPT ![e] = Append(@, i)]
      BY <2>1, Zenon DEF ReceiveSequenced
    <2> QED  BY <2>2, <2>3, <2>4
  <1>5. ASSUME NEW e \in End, NEW p \in network, Receive(e, p), ~IsNew(e, p.seq)
        PROVE  SequencedInv'
    BY <1>1, <1>5 DEF Receive
  <1>6. ASSUME NEW e \in End, SendReliable(e) \/ SendUnreliable(e)
        PROVE  SequencedInv'
    BY <1>1, <1>6 DEF SendReliable, SendUnreliable, recvVars
  <1>7. CASE UNCHANGED vars
    BY <1>1, <1>7 DEF vars, sendVars, recvVars
  <1> QED  BY <1>2, <1>3, <1>4, <1>5, <1>6, <1>7 DEF Next

-----------------------------------------------------------------------------
(* The unreliable channel.                                                 *)

\* A packet that track_received calls new is numbered above all before it.
LEMMA NewIsLater ==
  ASSUME TypeOK, PacketsNumbered, NEW e \in End, NEW p \in network,
         p.from = Other(e), IsNew(e, p.seq)
  PROVE  lastReceived[e] < p.seq
  <1>1. /\ p.seq \in Nat /\ p.seq < nextSeq[Other(e)] /\ nextSeq[Other(e)] \in Nat
        /\ nextSeq[Other(e)] <= MaxPackets
    BY OtherEnd, EndFacts, PacketFacts DEF PacketsNumbered
  <1>2. CASE lastReceived[e] = None
    BY <1>1, <1>2 DEF None
  <1>3. CASE lastReceived[e] # None
    <2>1. lastReceived[e] \in Nat /\ lastReceived[e] < nextSeq[Other(e)]
      BY <1>3, EndFacts DEF None, PacketsNumbered
    <2>2. p.seq \in 0 .. SEQ_WINDOW - 1 /\ lastReceived[e] \in 0 .. SEQ_WINDOW - 1
      BY <1>1, <2>1, BoundFacts
    <2>3. WrapSub(p.seq, lastReceived[e]) \in 1 .. SEQ_WINDOW - 1
      BY <1>3 DEF IsNew
    <2>4. WrapSub(p.seq, lastReceived[e]) # 0 /\ WrapSub(p.seq, lastReceived[e]) < SEQ_WINDOW
      BY <2>3, BoundFacts
    <2> QED  BY <2>2, <2>4, MoreRecentIsGreater DEF SequenceMoreRecent
  <1> QED  BY <1>2, <1>3

LEMMA UnreliableInitial == Init => UnreliableInv
  <1> SUFFICES ASSUME Init PROVE UnreliableInv
    OBVIOUS
  <1>1. \A e \in End : Other(e) \in End
    BY OtherEnd
  <1>2. PacketsNumbered
    BY <1>1, BoundFacts DEF Init, PacketsNumbered, None
  <1>3. PackedOnce
    BY DEF Init, PackedOnce
  <1>4. \A e \in End : \A k \in UnreliableStream : unrDelivered[e][k] = 0
    BY DEF Init
  <1> QED
    BY <1>2, <1>3, <1>4 DEF UnreliableInv, DeliveredWhenHeard, UnreliableAtMostOnce

LEMMA UnreliableSend ==
  ASSUME TypeOK, TypeOK', UnreliableInv, NEW e \in End, SendUnreliable(e)
  PROVE  UnreliableInv'
  <1> USE OtherEnd
  <1>1. /\ unrPending' = [unrPending EXCEPT ![e] = unrPending[e] \cup {unrNext[e]}]
        /\ unrNext' = [unrNext EXCEPT ![e] = unrNext[e] + 1]
        /\ UNCHANGED <<nextSeq, lastReceived, network, unrDelivered>>
    BY DEF SendUnreliable, recvVars
  <1>2. unrNext \in [End -> Nat] /\ unrPending \in [End -> SUBSET UnreliableStream]
    BY DEF TypeOK
  <1>3. UnreliableStream \in SUBSET Nat
    BY BoundFacts DEF UnreliableStream
  <1>4. PacketsNumbered' /\ UnreliableAtMostOnce'
    BY <1>1 DEF UnreliableInv, PacketsNumbered, UnreliableAtMostOnce
  <1>5. \A x \in End : \A k \in unrPending'[x] : k < unrNext'[x]
    BY <1>1, <1>2, <1>3 DEF UnreliableInv, PackedOnce
  <1>6. \A p \in network : \A k \in p.unr :
          k < unrNext'[p.from] /\ k \notin unrPending'[p.from]
    <2> SUFFICES ASSUME NEW p \in network, NEW k \in p.unr
                 PROVE  k < unrNext'[p.from] /\ k \notin unrPending'[p.from]
      OBVIOUS
    <2>1. k \in Nat /\ p.from \in End
      BY <1>3, PacketFacts
    <2>2. k < unrNext[p.from] /\ k \notin unrPending[p.from]
      BY DEF UnreliableInv, PackedOnce
    <2> QED  BY <1>1, <1>2, <2>1, <2>2
  <1>7. PackedOnce'
    BY <1>1, <1>5, <1>6 DEF UnreliableInv, PackedOnce
  <1>8. \A x \in End : \A k \in UnreliableStream :
          k \in unrPending'[Other(x)] \/ unrNext'[Other(x)] <= k
            => k \in unrPending[Other(x)] \/ unrNext[Other(x)] <= k
    BY <1>1, <1>2, <1>3
  <1>9. DeliveredWhenHeard'
    BY <1>1, <1>8 DEF UnreliableInv, DeliveredWhenHeard
  <1> QED  BY <1>4, <1>7, <1>9 DEF UnreliableInv

LEMMA UnreliableFlush ==
  ASSUME TypeOK, TypeOK', UnreliableInv, NEW e \in End, Flush(e)
  PROVE  UnreliableInv'
  <1> USE OtherEnd
  <1> DEFINE p == BuildPacket(e)
  <1>1. p.unr \in SUBSET unrPending[e]
    BY FirstOfSubset DEF BuildPacket
  <1>2. p.from = e /\ p.seq = nextSeq[e]
    BY DEF BuildPacket
  <1>3. /\ network' = network \cup {p}
        /\ unrPending' = [unrPending EXCEPT ![e] = unrPending[e] \ p.unr]
        /\ UNCHANGED <<lastReceived, unrNext, unrDelivered>>
    BY DEF Flush, recvVars
  <1> HIDE DEF p
  <1>4. nextSeq' = [nextSeq EXCEPT ![e] = nextSeq[e] + 1] /\ nextSeq[e] < MaxPackets
    <2>1. nextSeq[e] \in Nat /\ nextSeq[e] < MaxPackets
      BY EndFacts DEF Flush
    <2>2. WrapInc(nextSeq[e]) = nextSeq[e] + 1
      BY <2>1, BoundFacts, NoWrap
    <2> QED  BY <2>1, <2>2 DEF Flush
  <1>5. /\ nextSeq \in [End -> Nat] /\ unrPending \in [End -> SUBSET UnreliableStream]
        /\ UnreliableStream \in SUBSET Nat
    <2>1. nextSeq \in [End -> U16] /\ unrPending \in [End -> SUBSET UnreliableStream]
      BY DEF TypeOK
    <2>2. UnreliableStream \in SUBSET Nat
      BY BoundFacts DEF UnreliableStream
    <2> QED  BY <2>1, <2>2, U16Nat
  <1>6. \A x \in End : lastReceived[x] \in Int
    <2>1. \A n \in Nat \cup {-1} : n \in Int
      OBVIOUS
    <2> QED  BY <2>1, EndFacts
  <1>7. PacketsNumbered'
    <2>1. \A x \in End : nextSeq'[x] <= MaxPackets /\ lastReceived[x] < nextSeq'[Other(x)]
      BY <1>4, <1>5, <1>6, BoundFacts DEF UnreliableInv, PacketsNumbered
    <2>2. \A q \in network : q.seq < nextSeq'[q.from]
      <3>1. \A q \in network : q.seq \in Nat /\ q.from \in End
        BY PacketFacts
      <3> QED  BY <1>4, <1>5, <3>1 DEF UnreliableInv, PacketsNumbered
    <2>3. p.seq < nextSeq'[p.from]
      BY <1>2, <1>4, <1>5
    <2> QED  BY <1>3, <2>1, <2>2, <2>3 DEF PacketsNumbered
  <1>8. \A q \in network : q.from = e => p.unr \cap q.unr = {}
    BY <1>1 DEF UnreliableInv, PackedOnce
  <1>9. PackedOnce'
    <2>1. \A x \in End : \A k \in unrPending'[x] : k < unrNext[x]
      BY <1>3, <1>5 DEF UnreliableInv, PackedOnce
    <2>2. \A q \in network : \A k \in q.unr : k < unrNext[q.from] /\ k \notin unrPending'[q.from]
      <3>1. \A q \in network : q.from \in End
        BY PacketFacts
      <3> QED  BY <1>3, <1>5, <3>1 DEF UnreliableInv, PackedOnce
    <2>3. \A k \in p.unr : k < unrNext[p.from] /\ k \notin unrPending'[p.from]
      BY <1>1, <1>2, <1>3, <1>5 DEF UnreliableInv, PackedOnce
    <2>4. \A q, r \in network' : q.from = r.from /\ q.seq # r.seq => q.unr \cap r.unr = {}
      BY <1>2, <1>3, <1>8 DEF UnreliableInv, PackedOnce
    <2> QED  BY <1>3, <2>1, <2>2, <2>3, <2>4 DEF PackedOnce
  <1>10. DeliveredWhenHeard'
    <2> SUFFICES ASSUME NEW x \in End, NEW k \in UnreliableStream
                 PROVE  /\ k \in unrPending'[Other(x)] \/ unrNext[Other(x)] <= k
                             => unrDelivered[x][k] = 0
                        /\ \A q \in network' :
                             q.from = Other(x) /\ lastReceived[x] < q.seq /\ k \in q.unr
                               => unrDelivered[x][k] = 0
      BY <1>3 DEF DeliveredWhenHeard
    <2>1. unrPending'[Other(x)] \in SUBSET unrPending[Other(x)]
      BY <1>3, <1>5
    <2>2. p.from = Other(x) /\ k \in p.unr => k \in unrPending[Other(x)]
      BY <1>1, <1>2
    <2> QED  BY <1>3, <2>1, <2>2 DEF UnreliableInv, DeliveredWhenHeard
  <1>11. UnreliableAtMostOnce'
    BY <1>3 DEF UnreliableInv, UnreliableAtMostOnce
  <1> QED  BY <1>7, <1>9, <1>10, <1>11 DEF UnreliableInv

LEMMA UnreliableReceive ==
  ASSUME TypeOK, TypeOK', UnreliableInv, NEW e \in End, NEW p \in network,
         Receive(e, p), IsNew(e, p.seq)
  PROVE  UnreliableInv'
  <1> USE OtherEnd
  <1>1. /\ UNCHANGED <<nextSeq, unrNext, unrPending, network>>
        /\ p.from = Other(e)
        /\ lastReceived' = [lastReceived EXCEPT ![e] = p.seq]
        /\ unrDelivered' = [unrDelivered EXCEPT ![e] =
             [k \in UnreliableStream |->
                IF k \in p.unr THEN unrDelivered[e][k] + 1 ELSE unrDelivered[e][k]]]
    BY DEF Receive, TrackReceived, ReceiveMessages, ReceiveUnreliable
  <1>2. lastReceived[e] < p.seq
    BY <1>1, NewIsLater DEF UnreliableInv
  <1>3. /\ \A x \in End : lastReceived'[x] = IF x = e THEN p.seq ELSE lastReceived[x]
        /\ \A x \in End : \A k \in UnreliableStream : unrDelivered'[x][k] =
             IF x = e /\ k \in p.unr THEN unrDelivered[e][k] + 1 ELSE unrDelivered[x][k]
    <2>1. /\ lastReceived \in [End -> U16 \cup {None}]
          /\ unrDelivered \in [End -> [UnreliableStream -> Nat]]
      BY DEF TypeOK
    <2>2. \A x \in End : lastReceived'[x] = IF x = e THEN p.seq ELSE lastReceived[x]
      BY <1>1, <2>1
    <2>3. unrDelivered'[e] = [k \in UnreliableStream |->
            IF k \in p.unr THEN unrDelivered[e][k] + 1 ELSE unrDelivered[e][k]]
      BY <1>1, <2>1
    <2>4. \A x \in End : x # e => unrDelivered'[x] = unrDelivered[x]
      BY <1>1, <2>1
    <2> QED  BY <2>2, <2>3, <2>4
  <1>4. \A k \in p.unr : k \in UnreliableStream /\ unrDelivered[e][k] = 0
    BY <1>1, <1>2, PacketFacts DEF UnreliableInv, DeliveredWhenHeard
  <1>5. PacketsNumbered'
    BY <1>1, <1>3 DEF UnreliableInv, PacketsNumbered
  <1>6. PackedOnce'
    BY <1>1 DEF UnreliableInv, PackedOnce
  <1>7. DeliveredWhenHeard'
    <2> SUFFICES ASSUME NEW x \in End, NEW k \in UnreliableStream
                 PROVE  /\ k \in unrPending[Other(x)] \/ unrNext[Other(x)] <= k
                             => unrDelivered'[x][k] = 0
                        /\ \A q \in network :
                             q.from = Other(x) /\ lastReceived'[x] < q.seq /\ k \in q.unr
                               => unrDelivered'[x][k] = 0
      BY <1>1 DEF DeliveredWhenHeard
    <2>1. CASE x # e
      BY <1>3, <2>1 DEF UnreliableInv, DeliveredWhenHeard
    <2>2. CASE x = e
      <3>1. k \in p.unr => ~(k \in unrPending[Other(e)] \/ unrNext[Other(e)] <= k)
        <4> SUFFICES ASSUME k \in p.unr
                     PROVE  k \notin unrPending[Other(e)] /\ ~(unrNext[Other(e)] <= k)
          OBVIOUS
        <4>1. k < unrNext[Other(e)] /\ k \notin unrPending[Other(e)]
          BY <1>1 DEF UnreliableInv, PackedOnce
        <4>2. k \in Nat /\ unrNext[Other(e)] \in Nat
          BY EndFacts, BoundFacts DEF UnreliableStream
        <4> QED  BY <4>1, <4>2
      <3>2. ASSUME NEW q \in network, q.from = Other(e), p.seq < q.seq, k \in q.unr
            PROVE  unrDelivered'[e][k] = 0
        <4>1. p.seq \in Nat /\ q.seq \in Nat /\ lastReceived[e] \in Nat \cup {-1}
          BY PacketFacts, EndFacts
        <4>2. p.seq # q.seq /\ lastReceived[e] < q.seq
          BY <1>2, <3>2, <4>1
        <4>3. k \notin p.unr
          BY <1>1, <3>2, <4>2 DEF UnreliableInv, PackedOnce
        <4>4. unrDelivered[e][k] = 0
          BY <3>2, <4>2 DEF UnreliableInv, DeliveredWhenHeard
        <4> QED  BY <1>3, <4>3, <4>4
      <3>3. k \in unrPending[Other(e)] \/ unrNext[Other(e)] <= k => unrDelivered[e][k] = 0
        BY DEF UnreliableInv, DeliveredWhenHeard
      <3> QED  BY <1>3, <2>2, <3>1, <3>2, <3>3
    <2> QED  BY <2>1, <2>2
  <1>8. UnreliableAtMostOnce'
    BY <1>3, <1>4 DEF UnreliableInv, UnreliableAtMostOnce
  <1> QED  BY <1>5, <1>6, <1>7, <1>8 DEF UnreliableInv

LEMMA UnreliableStep ==
  ASSUME TypeOK, TypeOK', UnreliableInv, [Next]_vars
  PROVE  UnreliableInv'
  <1>1. CASE UNCHANGED <<nextSeq, lastReceived, network, unrNext, unrPending, unrDelivered>>
    BY <1>1 DEF UnreliableInv, PacketsNumbered, PackedOnce, DeliveredWhenHeard,
                UnreliableAtMostOnce
  <1>2. ASSUME NEW e \in End, SendReliable(e) \/ SendSequenced(e)
        PROVE  UnreliableInv'
    BY <1>1, <1>2 DEF SendReliable, SendSequenced, recvVars
  <1>3. ASSUME NEW e \in End, NEW p \in network, Receive(e, p), ~IsNew(e, p.seq)
        PROVE  UnreliableInv'
    BY <1>1, <1>3 DEF Receive, TrackReceived
  <1>4. CASE UNCHANGED vars
    BY <1>1, <1>4 DEF vars, sendVars, recvVars
  <1> QED
    BY <1>2, <1>3, <1>4, UnreliableSend, UnreliableFlush, UnreliableReceive DEF Next

-----------------------------------------------------------------------------
(* The reliable ordered channel.                                           *)

\* What can be delivered in order is an interval from expected_id on, so the
\* ids handed to the application are ids that the end has.
LEMMA RunIsInterval ==
  ASSUME NEW S \in SUBSET U16, NEW x \in 0 .. SEQ_WINDOW - 1,
         NEW top \in x .. SEQ_WINDOW - 1,
         \A i \in S : i < top
  PROVE  LET run == Contiguous(S, x)
         IN /\ Cardinality(run) \in Nat
            /\ x + Cardinality(run) <= top
            /\ run = x .. x + Cardinality(run) - 1
            /\ WrapAdd(x, Cardinality(run)) = x + Cardinality(run)
            /\ \A i \in 1 .. Cardinality(run) : WrapAdd(x, i - 1) = x + i - 1
  <1> DEFINE run == Contiguous(S, x)
             c == Cardinality(run)
  <1>0. /\ SEQ_WINDOW \in Nat /\ x \in Nat /\ top \in Nat /\ x <= top /\ top < SEQ_WINDOW
        /\ \A i \in S : i \in Nat /\ i < SEQ_WINDOW
    BY BoundFacts DEF U16
  <1>1. \A i \in run : i \in S /\ i >= x
    <2> SUFFICES ASSUME NEW i \in run, i < x
                 PROVE  FALSE
      BY <1>0 DEF Contiguous
    <2>1. i \in S
      BY DEF Contiguous
    <2>2. WrapSub(i, x) > SEQ_WINDOW
      BY <1>0, <2>1, NoWrap
    <2>3. top - x \in 0 .. WrapSub(i, x)
      BY <1>0, <2>1, <2>2 DEF WrapSub, SEQ_MOD
    <2>4. WrapAdd(x, top - x) = top
      BY <1>0, NoWrap
    <2>5. top \in S
      BY <2>3, <2>4 DEF Contiguous
    <2> QED  BY <1>0, <2>5
  <1>2. \A i \in run : \A k \in x .. i : k \in run
    <2> SUFFICES ASSUME NEW i \in run, NEW k \in x .. i
                 PROVE  k \in run
      OBVIOUS
    <2>1. i \in S /\ i >= x /\ i \in Nat /\ i < SEQ_WINDOW
      BY <1>0, <1>1
    <2>2. WrapSub(i, x) = i - x
      BY <1>0, <2>1, NoWrap
    <2>3. \A d \in 0 .. i - x : WrapAdd(x, d) = x + d
      BY <1>0, <2>1, NoWrap
    <2>4. \A d \in 0 .. i - x : x + d \in S
      BY <2>2, <2>3 DEF Contiguous
    <2>5. k \in Nat /\ k - x \in 0 .. i - x /\ k = x + (k - x)
      BY <1>0, <2>1
    <2>6. k \in S
      BY <2>4, <2>5
    <2>7. WrapSub(k, x) = k - x
      BY <1>0, <2>1, <2>5, NoWrap
    <2>8. \A d \in 0 .. k - x : WrapAdd(x, d) \in S
      BY <1>0, <2>1, <2>3, <2>4
    <2> QED  BY <2>6, <2>7, <2>8 DEF Contiguous
  <1>3. run \in SUBSET (x .. top - 1)
    BY <1>0, <1>1
  <1>4. IsFiniteSet(x .. top - 1) /\ Cardinality(x .. top - 1) = top - x
    <2>1. /\ IsFiniteSet(x .. top - 1)
          /\ Cardinality(x .. top - 1) = IF x > top - 1 THEN 0 ELSE top - 1 - x + 1
      BY <1>0, FS_Interval
    <2> QED  BY <1>0, <2>1
  <1>5. IsFiniteSet(run) /\ c <= top - x
    BY <1>3, <1>4, FS_Subset
  <1>6. c \in Nat
    BY <1>5, FS_CardinalityType
  <1>7. \A i \in run : i <= x + c - 1
    <2> SUFFICES ASSUME NEW i \in run
                 PROVE  i <= x + c - 1
      OBVIOUS
    <2>1. i \in Nat /\ i >= x
      BY <1>0, <1>1
    <2>2. (x .. i) \in SUBSET run
      BY <1>2
    <2>3. Cardinality(x .. i) = i - x + 1
      BY <1>0, <2>1, FS_Interval
    <2>4. Cardinality(x .. i) <= c
      BY <1>5, <2>2, FS_Subset
    <2> QED  BY <1>0, <1>6, <2>1, <2>3, <2>4
  <1>8. run \in SUBSET (x .. x + c - 1)
    BY <1>0, <1>1, <1>6, <1>7
  <1>9. IsFiniteSet(x .. x + c - 1) /\ Cardinality(x .. x + c - 1) = c
    <2> DEFINE b == x + c - 1
    <2>1. x \in Int /\ b \in Int /\ b - x + 1 = c /\ (x > b => c = 0)
      BY <1>0, <1>6
    <2>2. IsFiniteSet(x .. b) /\ Cardinality(x .. b) = IF x > b THEN 0 ELSE b - x + 1
      <3> HIDE DEF b
      <3> QED  BY <2>1, FS_Interval
    <2> QED  BY <2>1, <2>2
  <1>10. run = x .. x + c - 1
    BY <1>8, <1>9, FS_Subset
  <1>11. WrapAdd(x, c) = x + c
    BY <1>0, <1>5, <1>6, NoWrap
  <1>12. \A i \in 1 .. c : WrapAdd(x, i - 1) = x + i - 1
    <2> SUFFICES ASSUME NEW i \in 1 .. c
                 PROVE  WrapAdd(x, i - 1) = x + i - 1
      OBVIOUS
    <2>1. i - 1 \in Nat /\ x + (i - 1) <= SEQ_WINDOW
      BY <1>0, <1>5, <1>6
    <2> QED  BY <1>0, <2>1, NoWrap
  <1>13. x + c <= top
    BY <1>0, <1>5, <1>6
  <1> QED  BY <1>6, <1>10, <1>11, <1>12, <1>13

\* The ids below n, in order: what is delivered when expected_id is n.
LEMMA CountIsSeq ==
  ASSUME NEW n \in Nat
  PROVE  LET s == [i \in 1 .. n |-> i - 1]
         IN /\ s \in Seq(Nat) /\ Len(s) = n
            /\ \A i \in 1 .. n : s[i] = i - 1
            /\ Append(s, n) = [i \in 1 .. n + 1 |-> i - 1]
            /\ \A k \in 0 .. n : SubSeq(s, 1, k) = [i \in 1 .. k |-> i - 1]
            /\ \A c \in Nat : s \o [i \in 1 .. c |-> n + i - 1] = [i \in 1 .. n + c |-> i - 1]
  <1> DEFINE s == [i \in 1 .. n |-> i - 1]
  <1>1. \A m \in Nat : /\ [i \in 1 .. m |-> i - 1] \in Seq(Nat)
                       /\ Len([i \in 1 .. m |-> i - 1]) = m
    <2> SUFFICES ASSUME NEW m \in Nat
                 PROVE  /\ [i \in 1 .. m |-> i - 1] \in Seq(Nat)
                        /\ Len([i \in 1 .. m |-> i - 1]) = m
      OBVIOUS
    <2> DEFINE t == [i \in 1 .. m |-> i - 1]
    <2>1. t \in [1 .. m -> Nat]
      OBVIOUS
    <2>2. t \in Seq(Nat)
      <3> HIDE DEF t
      <3> QED  BY <2>1, SeqDef
    <2> QED  BY <2>1, <2>2, LenProperties
  <1>2. s \in Seq(Nat) /\ Len(s) = n /\ \A i \in 1 .. n : s[i] = i - 1
    BY <1>1
  <1>3. Append(s, n) = [i \in 1 .. n + 1 |-> i - 1]
    <2> DEFINE a == Append(s, n)
               t == [i \in 1 .. n + 1 |-> i - 1]
    <2>1. a \in Seq(Nat) /\ Len(a) = n + 1 /\ a[n + 1] = n /\ \A i \in 1 .. n : a[i] = s[i]
      <3> HIDE DEF s
      <3> QED  BY <1>2, AppendProperties
    <2>2. t \in Seq(Nat) /\ Len(t) = n + 1
      BY <1>1
    <2>3. \A i \in 1 .. n + 1 : a[i] = t[i]
      BY <2>1
    <2>4. a = t
      <3> HIDE DEF a, t
      <3> QED  BY <2>1, <2>2, <2>3, SeqEqual
    <2> QED  BY <2>4
  <1>4. ASSUME NEW k \in 0 .. n
        PROVE  SubSeq(s, 1, k) = [i \in 1 .. k |-> i - 1]
    <2> DEFINE a == SubSeq(s, 1, k)
               t == [i \in 1 .. k |-> i - 1]
    <2>1. k \in Nat /\ k \in Int /\ 1 \in Int /\ \A i \in 1 .. k : s[i] \in Nat
      OBVIOUS
    <2>2. a \in Seq(Nat) /\ Len(a) = k /\ \A i \in 1 .. k : a[i] = s[i]
      <3> HIDE DEF s
      <3>1. /\ a \in Seq(Nat) /\ Len(a) = IF 1 <= k THEN k - 1 + 1 ELSE 0
            /\ \A i \in 1 .. k - 1 + 1 : a[i] = s[1 + i - 1]
        BY <2>1, SubSeqProperties
      <3> HIDE DEF a
      <3> QED  BY <2>1, <3>1
    <2>3. t \in Seq(Nat) /\ Len(t) = k /\ \A i \in 1 .. k : t[i] = s[i]
      BY <1>1, <2>1
    <2>4. a = t
      <3> HIDE DEF a, t, s
      <3>1. Len(a) = Len(t) /\ \A i \in 1 .. Len(a) : a[i] = t[i]
        BY <2>2, <2>3
      <3> QED  BY <2>2, <2>3, <3>1, SeqEqual
    <2> QED  BY <2>4
  <1>5. ASSUME NEW c \in Nat
        PROVE  s \o [i \in 1 .. c |-> n + i - 1] = [i \in 1 .. n + c |-> i - 1]
    <2> DEFINE u == [i \in 1 .. c |-> n + i - 1]
               a == s \o u
               t == [i \in 1 .. n + c |-> i - 1]
    <2>1. u \in Seq(Nat) /\ Len(u) = c
      <3>1. u \in [1 .. c -> Nat]
        OBVIOUS
      <3>2. u \in Seq(Nat)
        <4> HIDE DEF u
        <4> QED  BY <3>1, SeqDef
      <3> QED  BY <3>1, <3>2, LenProperties
    <2>2. /\ a \in Seq(Nat) /\ Len(a) = n + c
          /\ \A i \in 1 .. n + c : a[i] = IF i <= n THEN s[i] ELSE u[i - n]
      <3> HIDE DEF s, u
      <3> QED  BY <1>2, <2>1, ConcatProperties
    <2>3. t \in Seq(Nat) /\ Len(t) = n + c
      BY <1>1
    <2>4. \A i \in 1 .. n + c : a[i] = t[i]
      <3> SUFFICES ASSUME NEW i \in 1 .. n + c
                   PROVE  a[i] = t[i]
        OBVIOUS
      <3>1. CASE i <= n
        BY <2>2, <3>1
      <3>2. CASE n < i
        <4>1. i - n \in 1 .. c
          BY <3>2
        <4> QED  BY <2>2, <3>2, <4>1
      <3> QED  BY <3>1, <3>2
    <2>5. a = t
      <3> HIDE DEF a, t
      <3> QED  BY <2>2, <2>3, <2>4, SeqEqual
    <2> QED  BY <2>5
  <1> QED  BY <1>2, <1>3, <1>4, <1>5

LEMMA OrderedInitial == Init => OrderedInv
  <1> SUFFICES ASSUME Init PROVE OrderedInv
    OBVIOUS
  <1>1. \A e \in End : Other(e) \in End
    BY OtherEnd
  <1>2. <<>> = [i \in 1 .. 0 |-> i - 1]
    OBVIOUS
  <1> QED  BY <1>1, <1>2, BoundFacts DEF Init, OrderedInv, IdsHandedOut, DeliveredInOrder

LEMMA OrderedSend ==
  ASSUME TypeOK, TypeOK', OrderedInv, NEW e \in End, SendReliable(e)
  PROVE  /\ nextId' = [nextId EXCEPT ![e] = nextId[e] + 1]
         /\ OrderedInv'
  <1> USE OtherEnd
  <1>1. nextId[e] \in Nat /\ nextId[e] < MaxReliable[e]
    BY EndFacts DEF SendReliable
  <1>2. WrapInc(nextId[e]) = nextId[e] + 1
    BY <1>1, BoundFacts, NoWrap
  <1>3. /\ nextId' = [nextId EXCEPT ![e] = nextId[e] + 1]
        /\ pending' = [pending EXCEPT ![e] = pending[e] \cup {nextId[e]}]
        /\ UNCHANGED <<expectedId, buffer, delivered, network>>
    BY <1>2 DEF SendReliable, recvVars
  <1>4. nextId \in [End -> Nat] /\ pending \in [End -> SUBSET Nat]
    BY U16Nat DEF TypeOK
  <1>5. \A x \in End : /\ nextId[x] \in Nat /\ nextId'[x] \in Nat
                       /\ nextId[x] <= nextId'[x] /\ nextId'[x] <= MaxReliable[x]
    BY <1>1, <1>3, <1>4, BoundFacts DEF OrderedInv, IdsHandedOut
  <1>6. \A x \in End : \A i \in pending'[x] : i < nextId'[x]
    BY <1>3, <1>4 DEF OrderedInv, IdsHandedOut
  <1>7. \A x \in End : /\ \A i \in buffer[x] : i < nextId'[Other(x)]
                       /\ expectedId[x] <= nextId'[Other(x)]
    <2> SUFFICES ASSUME NEW x \in End
                 PROVE  /\ \A i \in buffer[x] : i < nextId'[Other(x)]
                        /\ expectedId[x] <= nextId'[Other(x)]
      OBVIOUS
    <2>1. expectedId[x] \in Nat /\ buffer[x] \in SUBSET Nat
      BY EndFacts, U16Nat
    <2> QED  BY <1>5, <2>1 DEF OrderedInv, IdsHandedOut
  <1>8. \A p \in network : \A i \in p.rel : i < nextId'[p.from]
    <2> SUFFICES ASSUME NEW p \in network, NEW i \in p.rel
                 PROVE  i < nextId'[p.from]
      OBVIOUS
    <2>1. i \in Nat /\ p.from \in End /\ i < nextId[p.from]
      BY PacketFacts, U16Nat DEF OrderedInv, IdsHandedOut
    <2> QED  BY <1>5, <2>1
  <1>9. DeliveredInOrder'
    BY <1>3 DEF OrderedInv, DeliveredInOrder
  <1>10. IdsHandedOut'
    BY <1>3, <1>5, <1>6, <1>7, <1>8 DEF IdsHandedOut
  <1> QED  BY <1>3, <1>9, <1>10 DEF OrderedInv

LEMMA OrderedFlush ==
  ASSUME TypeOK, TypeOK', OrderedInv, NEW e \in End, Flush(e)
  PROVE  /\ UNCHANGED <<nextId, delivered>>
         /\ OrderedInv'
  <1> DEFINE p == BuildPacket(e)
  <1>1. p.from = e /\ p.rel \in SUBSET pending[e]
    BY FirstOfSubset DEF BuildPacket
  <1>2. /\ network' = network \cup {p}
        /\ UNCHANGED <<nextId, pending, expectedId, buffer, delivered>>
    BY DEF Flush, recvVars
  <1> HIDE DEF p
  <1>3. DeliveredInOrder'
    BY <1>2 DEF OrderedInv, DeliveredInOrder
  <1>4. IdsHandedOut'
    BY <1>1, <1>2 DEF OrderedInv, IdsHandedOut
  <1> QED  BY <1>2, <1>3, <1>4 DEF OrderedInv

\* poll: what an end hands to its application is the continuation of what it
\* has handed over, and was sent by its peer.
LEMMA OrderedReceive ==
  ASSUME TypeOK, TypeOK', OrderedInv, NEW e \in End, NEW p \in network, Receive(e, p)
  PROVE  /\ UNCHANGED nextId
         /\ expectedId[e] <= expectedId'[e]
         /\ \A x \in End : x # e => delivered'[x] = delivered[x]
         /\ OrderedInv'
  <1> USE OtherEnd
  <1>1. /\ UNCHANGED <<nextId, network>> /\ p.from = Other(e)
        /\ \A x \in End : pending'[x] \in SUBSET pending[x]
    BY DEF Receive, ProcessAcks, TypeOK
  <1>2. CASE ~IsNew(e, p.seq)
    <2>1. UNCHANGED <<expectedId, buffer, delivered>>
      BY <1>2 DEF Receive
    <2>2. expectedId[e] \in Nat
      BY EndFacts
    <2>3. DeliveredInOrder'
      BY <2>1 DEF OrderedInv, DeliveredInOrder
    <2>4. IdsHandedOut'
      BY <1>1, <2>1 DEF OrderedInv, IdsHandedOut
    <2> QED  BY <1>1, <2>1, <2>2, <2>3, <2>4 DEF OrderedInv
  <1>3. CASE IsNew(e, p.seq)
    <2> DEFINE x == expectedId[e]
               have == buffer[e] \cup p.rel
               run == Contiguous(have, x)
               c == Cardinality(run)
               top == nextId[Other(e)]
    <2>1. ReceiveReliable(e, p.rel)
      BY <1>3 DEF Receive, ReceiveMessages
    <2>2. have \in SUBSET U16 /\ \A i \in have : i < top
      BY <1>1, EndFacts, PacketFacts DEF OrderedInv, IdsHandedOut
    <2>3. x \in Nat /\ top \in Nat /\ x <= top /\ top <= MaxReliable[Other(e)]
      BY EndFacts DEF OrderedInv, IdsHandedOut
    <2>4. x \in 0 .. SEQ_WINDOW - 1 /\ top \in x .. SEQ_WINDOW - 1
      BY <2>3, BoundFacts
    <2>5. /\ c \in Nat /\ x + c <= top
          /\ WrapAdd(x, c) = x + c
          /\ \A i \in 1 .. c : WrapAdd(x, i - 1) = x + i - 1
      <3> HIDE DEF x, have, top
      <3> QED  BY <2>2, <2>4, RunIsInterval
    <2>6. /\ expectedId' = [expectedId EXCEPT ![e] = x + c]
          /\ delivered' = [delivered EXCEPT ![e] =
               @ \o [i \in 1 .. c |-> WrapAdd(x, i - 1)]]
      BY <2>1, <2>5 DEF ReceiveReliable
    <2>7. [i \in 1 .. c |-> WrapAdd(x, i - 1)] = [i \in 1 .. c |-> x + i - 1]
      <3> HIDE DEF c
      <3> QED  BY <2>5
    <2>8. delivered[e] = [i \in 1 .. x |-> i - 1]
      BY DEF OrderedInv, DeliveredInOrder
    <2>9. delivered[e] \o [i \in 1 .. c |-> x + i - 1] = [i \in 1 .. x + c |-> i - 1]
      <3> HIDE DEF c, x
      <3> QED  BY <2>3, <2>5, <2>8, CountIsSeq
    <2>10. buffer'[e] \in SUBSET have
      <3>1. \A S, d : FirstOf(S, d) \subseteq S
        BY FirstOfSubset
      <3> QED  BY <2>1, <3>1 DEF ReceiveReliable, TypeOK
    <2>11. /\ expectedId'[e] = x + c
           /\ delivered'[e] = [i \in 1 .. x + c |-> i - 1]
           /\ \A y \in End : y # e => /\ expectedId'[y] = expectedId[y]
                                      /\ delivered'[y] = delivered[y]
      <3>1. expectedId \in [End -> U16] /\ delivered \in [End -> Seq(U16)]
        BY DEF TypeOK
      <3> HIDE DEF c, x
      <3> QED  BY <2>6, <2>7, <2>9, <3>1
    <2>12. \A y \in End : y # e => buffer'[y] = buffer[y]
      BY <2>1 DEF ReceiveReliable, TypeOK
    <2> HIDE DEF c, x, have, top
    <2>13. x <= expectedId'[e] /\ expectedId'[e] <= top
      BY <2>3, <2>5, <2>11
    <2>14. \A y \in End : expectedId'[y] <= nextId[Other(y)]
      BY <2>11, <2>13 DEF OrderedInv, IdsHandedOut, top
    <2>15. \A y \in End : \A i \in buffer'[y] : i < nextId[Other(y)]
      BY <2>2, <2>10, <2>12 DEF OrderedInv, IdsHandedOut, top
    <2>16. DeliveredInOrder'
      BY <2>11 DEF OrderedInv, DeliveredInOrder
    <2>17. IdsHandedOut'
      BY <1>1, <2>14, <2>15 DEF OrderedInv, IdsHandedOut
    <2> QED  BY <1>1, <2>11, <2>13, <2>16, <2>17 DEF OrderedInv, x
  <1> QED  BY <1>2, <1>3

LEMMA OrderedStep ==
  ASSUME TypeOK, TypeOK', OrderedInv, [Next]_vars
  PROVE  OrderedInv'
  <1>1. CASE UNCHANGED <<nextId, pending, expectedId, buffer, delivered, network>>
    BY <1>1 DEF OrderedInv, IdsHandedOut, DeliveredInOrder
  <1>2. ASSUME NEW e \in End, SendSequenced(e) \/ SendUnreliable(e)
        PROVE  OrderedInv'
    BY <1>1, <1>2 DEF SendSequenced, SendUnreliable, recvVars
  <1>3. CASE UNCHANGED vars
    BY <1>1, <1>3 DEF vars, sendVars, recvVars
  <1> QED  BY <1>2, <1>3, OrderedSend, OrderedFlush, OrderedReceive DEF Next

-----------------------------------------------------------------------------
LEMMA ChannelsInvariant == Spec => [](TypeOK /\ SequencedInv /\ UnreliableInv /\ OrderedInv)
  <1> DEFINE Inv == SequencedInv /\ UnreliableInv /\ OrderedInv
  <1>1. Init => Inv
    BY SequencedInitial, UnreliableInitial, OrderedInitial
  <1>2. TypeOK /\ TypeOK' /\ Inv /\ [Next]_vars => Inv'
    BY SequencedStep, UnreliableStep, OrderedStep
  <1> QED  BY <1>1, <1>2, TypeInvariant, PTL DEF Spec

(* At either end, whatever the network drops, duplicates and reorders: the *)
(* application is never handed a sequenced message older than or equal to  *)
(* the last one, nor an unreliable message twice (poll, track_received and *)
(* receive_message).                                                       *)
THEOREM LossyChannelsNeverRepeat == Spec => []NeitherOlderNorTwice
  <1>1. SequencedInv /\ UnreliableInv => NeitherOlderNorTwice
    BY DEF SequencedInv, UnreliableInv, NeitherOlderNorTwice
  <1> QED  BY <1>1, ChannelsInvariant, PTL

-----------------------------------------------------------------------------
(* The refinement: the transport's reliable channel implements the channel *)
(* of ReliableOrdered, both ways.                                          *)

LEMMA RefinesInit == Init => Channel!Init
  <1> SUFFICES ASSUME Init PROVE Channel!Init
    OBVIOUS
  <1>1. \A e \in End : Other(e) \in End
    BY OtherEnd
  <1>2. <<>> = [i \in 1 .. 0 |-> i - 1]
    OBVIOUS
  <1>3. sentBy = [e \in End |-> <<>>] /\ gotFrom = [e \in End |-> <<>>]
    BY <1>1, <1>2 DEF Init, sentBy, gotFrom
  <1> QED  BY <1>3 DEF Channel!Init

\* Sending a reliable message is sending it on the abstract channel.
LEMMA RefinesSend ==
  ASSUME TypeOK, TypeOK', OrderedInv, NEW e \in End, SendReliable(e)
  PROVE  Channel!Send(e)
  <1>1. nextId' = [nextId EXCEPT ![e] = nextId[e] + 1]
    BY OrderedSend
  <1>2. nextId[e] \in Nat /\ nextId[e] \in U16 /\ nextId \in [End -> U16]
    BY EndFacts DEF TypeOK
  <1>3. sentBy[e] = [i \in 1 .. nextId[e] |-> i - 1]
    BY DEF sentBy
  <1>4. Append(sentBy[e], nextId[e]) = [i \in 1 .. nextId[e] + 1 |-> i - 1]
    BY <1>2, <1>3, CountIsSeq
  <1>5. sentBy' = [sentBy EXCEPT ![e] = Append(sentBy[e], nextId[e])]
    <2>1. \A x \in End : nextId'[x] = IF x = e THEN nextId[e] + 1 ELSE nextId[x]
      BY <1>1, <1>2
    <2>2. \A x \in End : sentBy'[x] = IF x = e THEN Append(sentBy[e], nextId[e]) ELSE sentBy[x]
      BY <1>4, <2>1 DEF sentBy
    <2>3. sentBy' = [x \in End |-> sentBy'[x]]
      BY DEF sentBy
    <2>4. [sentBy EXCEPT ![e] = Append(sentBy[e], nextId[e])]
            = [x \in End |-> IF x = e THEN Append(sentBy[e], nextId[e]) ELSE sentBy[x]]
      BY DEF sentBy
    <2> QED  BY <2>2, <2>3, <2>4
  <1>6. UNCHANGED gotFrom
    BY DEF SendReliable, recvVars, gotFrom
  <1> QED  BY <1>2, <1>5, <1>6 DEF Channel!Send

\* Receiving a packet hands over a run of the peer's messages, or nothing.
LEMMA RefinesReceive ==
  ASSUME TypeOK, TypeOK', OrderedInv, NEW e \in End, NEW p \in network, Receive(e, p)
  PROVE  Channel!Deliver(Other(e)) \/ UNCHANGED <<sentBy, gotFrom>>
  <1> USE OtherEnd
  <1> DEFINE o == Other(e)
             x == expectedId[e]
             k == expectedId'[e]
  <1>1. /\ UNCHANGED nextId /\ x <= k /\ OrderedInv'
        /\ \A y \in End : y # e => delivered'[y] = delivered[y]
    BY OrderedReceive
  <1>2. UNCHANGED sentBy
    BY <1>1 DEF sentBy
  <1>3. x \in Nat /\ k \in Nat /\ nextId[o] \in Nat /\ k <= nextId[o]
    <2>1. k \in U16 /\ expectedId'[e] <= nextId'[o]
      BY <1>1 DEF TypeOK, OrderedInv, IdsHandedOut
    <2> QED  BY <1>1, <2>1, EndFacts, U16Nat
  <1>4. /\ delivered[e] = [i \in 1 .. x |-> i - 1]
        /\ delivered'[e] = [i \in 1 .. k |-> i - 1]
    BY <1>1 DEF OrderedInv, DeliveredInOrder
  <1>5. /\ gotFrom[o] = delivered[e] /\ gotFrom'[o] = delivered'[e]
        /\ \A y \in End : y # o => gotFrom'[y] = gotFrom[y]
    <2>1. \A y \in End : y # o => Other(y) # e
      BY DEF Other, End
    <2> QED  BY <1>1, <2>1 DEF gotFrom
  <1>6. sentBy[o] = [i \in 1 .. nextId[o] |-> i - 1]
    BY DEF sentBy
  <1>7. gotFrom' = [gotFrom EXCEPT ![o] = delivered'[e]]
    <2>1. gotFrom' = [y \in End |-> gotFrom'[y]]
      BY DEF gotFrom
    <2>2. [gotFrom EXCEPT ![o] = delivered'[e]]
            = [y \in End |-> IF y = o THEN delivered'[e] ELSE gotFrom[y]]
      BY DEF gotFrom
    <2> QED  BY <1>5, <2>1, <2>2
  <1>8. CASE x = k
    <2>1. \A y \in End : gotFrom'[y] = gotFrom[y]
      BY <1>4, <1>5, <1>8
    <2>2. gotFrom' = gotFrom
      <3>1. gotFrom = [y \in End |-> gotFrom[y]] /\ gotFrom' = [y \in End |-> gotFrom'[y]]
        BY DEF gotFrom
      <3> QED  BY <2>1, <3>1
    <2> QED  BY <1>2, <2>2
  <1>9. CASE x < k
    <2>1. SubSeq(sentBy[o], 1, k) = delivered'[e]
      <3>1. k \in 0 .. nextId[o]
        BY <1>3
      <3> HIDE DEF k, o
      <3> QED  BY <1>3, <1>4, <1>6, <3>1, CountIsSeq
    <2>2. Len(gotFrom[o]) = x /\ Len(sentBy[o]) = nextId[o]
      <3> HIDE DEF x, o
      <3> QED  BY <1>3, <1>4, <1>5, <1>6, CountIsSeq
    <2>3. k \in Len(gotFrom[o]) + 1 .. Len(sentBy[o])
      BY <1>3, <1>9, <2>2
    <2>4. gotFrom' = [gotFrom EXCEPT ![o] = SubSeq(sentBy[o], 1, k)]
      BY <1>7, <2>1
    <2> QED  BY <1>2, <2>3, <2>4 DEF Channel!Deliver
  <1> QED  BY <1>1, <1>3, <1>8, <1>9

LEMMA RefinesStep ==
  ASSUME TypeOK, TypeOK', OrderedInv, [Next]_vars
  PROVE  [Channel!Next]_(Channel!vars)
  <1>1. CASE UNCHANGED <<nextId, delivered>>
    BY <1>1 DEF sentBy, gotFrom, Channel!vars
  <1>2. ASSUME NEW e \in End, SendReliable(e)
        PROVE  Channel!Next
    BY <1>2, RefinesSend DEF Channel!Next
  <1>3. ASSUME NEW e \in End, SendSequenced(e) \/ SendUnreliable(e) \/ Flush(e)
        PROVE  UNCHANGED <<nextId, delivered>>
    BY <1>3 DEF SendSequenced, SendUnreliable, Flush, recvVars
  <1>4. ASSUME NEW e \in End, NEW p \in network, Receive(e, p)
        PROVE  [Channel!Next]_(Channel!vars)
    BY <1>4, RefinesReceive, OtherEnd DEF Channel!Next, Channel!vars
  <1>5. CASE UNCHANGED vars
    BY <1>1, <1>5 DEF vars, sendVars, recvVars
  <1> QED  BY <1>1, <1>2, <1>3, <1>4, <1>5 DEF Next

(* Channel 0 is an ordered channel without gaps or repetitions, both ways: *)
(* each end hands its application exactly what its peer sent, in order, as *)
(* far as it got (receive_message and its buffer, expected_id).            *)
THEOREM ReliableIsOrderedExactlyOnce == Spec => OrderedExactlyOnce
  <1>1. TypeOK /\ TypeOK' /\ OrderedInv /\ [Next]_vars => [Channel!Next]_(Channel!vars)
    BY RefinesStep
  <1> QED
    BY <1>1, RefinesInit, ChannelsInvariant, PTL DEF Spec, OrderedExactlyOnce, Channel!Spec
=============================================================================
