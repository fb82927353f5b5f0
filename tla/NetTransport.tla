---------------------------- MODULE NetTransport ----------------------------
(***************************************************************************)
(* The UDP transport of net/net_transport: the PeerState that each of two  *)
(* ends keeps for the other, with its three channels (0 reliable ordered,  *)
(* 1 unreliable sequenced, 2 unreliable), its packet sequence numbers and  *)
(* its piggybacked acknowledgements.                                       *)
(*                                                                         *)
(* Between the ends lies a datagram network that may lose, duplicate and   *)
(* reorder packets: `network' holds every packet ever sent, and a packet   *)
(* in it may be received at any time, any number of times, or never.       *)
(*                                                                         *)
(* The client opens the conversation.  The server only ever addresses a    *)
(* peer it has received a packet from (net/server/src/lib.rs), so its      *)
(* sends wait for the first reception.                                     *)
(*                                                                         *)
(* A reliable or sequenced message is named by its u16 id and an           *)
(* unreliable one by its position in the stream.  A packet holds PacketCap *)
(* messages, which stands for the MTU.  The runs stay inside half the      *)
(* sequence space (Horizon), so an id names one message only.              *)
(***************************************************************************)
EXTENDS Integers, Sequences, FiniteSets

CONSTANTS
  SEQ_WINDOW,        \* half of the u16 sequence space
  MASK_BITS,         \* width of the ack bit field
  MAX_SENT_PACKETS,  \* tracked packets that carry reliable messages
  MaxPending,        \* max_pending of the reliable and unreliable channels
  PacketCap,         \* messages that fit in one packet
  Traffic,           \* the channels that sessions may use
  MaxPackets,        \* bound: packets an end builds
  MaxReliable,       \* bound: reliable messages an end sends
  MaxSequenced,      \* bound: sequenced messages an end sends
  MaxUnreliable      \* bound: unreliable messages an end sends

ASSUME Positive ==
  /\ SEQ_WINDOW \in Nat \ {0} /\ MASK_BITS \in Nat \ {0}
  /\ MAX_SENT_PACKETS \in Nat \ {0} /\ MaxPending \in Nat \ {0}
  /\ PacketCap \in Nat \ {0}
  /\ MaxPackets \in Nat /\ MaxUnreliable \in Nat
  /\ MaxReliable \in [{"client", "server"} -> Nat]
  /\ MaxSequenced \in Nat
  /\ Traffic \subseteq SUBSET {"reliable", "sequenced", "unreliable"}

ASSUME Horizon ==
  /\ MASK_BITS < SEQ_WINDOW
  /\ MaxPackets < SEQ_WINDOW
  /\ \A e \in {"client", "server"} : MaxReliable[e] < SEQ_WINDOW
  /\ MaxSequenced < SEQ_WINDOW

End == {"client", "server"}
Other(e) == IF e = "client" THEN "server" ELSE "client"

SEQ_MOD == 2 * SEQ_WINDOW
U16 == 0 .. SEQ_MOD - 1
UnreliableStream == 0 .. MaxUnreliable - 1
None == -1

VARIABLES
  traffic,       \* the channels the applications use, never changed
  nextSeq,       \* next_sequence
  lastReceived,  \* last_received, None before the first packet
  receivedMask,  \* received_mask: the distances behind last_received it sets
  sentPackets,   \* sent_packets: sequence and reliable ids of tracked packets
  nextId,        \* reliable send channel: next_id
  pending,       \* reliable send channel: ids not yet acknowledged
  expectedId,    \* reliable receive channel: expected_id
  buffer,        \* reliable receive channel: ids that came early
  seqNextId,     \* sequenced send channel: next_id
  seqPending,    \* sequenced send channel: the pending id, if any
  seqLastId,     \* sequenced receive channel: last_id
  unrNext,       \* history: unreliable messages sent so far
  unrPending,    \* unreliable send channel: messages not yet packed
  network,       \* every packet ever handed to the socket
  delivered,     \* history: reliable messages handed to the application
  seqDelivered,  \* history: sequenced messages handed to the application
  unrDelivered   \* history: how often each unreliable message was handed over

sendVars == <<nextSeq, sentPackets, nextId, pending, seqNextId, seqPending,
              unrNext, unrPending>>
recvVars == <<lastReceived, receivedMask, expectedId, buffer, seqLastId,
              delivered, seqDelivered, unrDelivered>>
vars == <<traffic, sendVars, recvVars, network>>

-----------------------------------------------------------------------------
(* u16 arithmetic and the comparisons built on it.                         *)

WrapInc(a) == IF a + 1 = SEQ_MOD THEN 0 ELSE a + 1
WrapSub(a, b) == IF a >= b THEN a - b ELSE a - b + SEQ_MOD
WrapAdd(a, d) == IF a + d >= SEQ_MOD THEN a + d - SEQ_MOD ELSE a + d

SequenceMoreRecent(a, b) ==
  LET diff == WrapSub(a, b) IN diff # 0 /\ diff < SEQ_WINDOW

\* An ack bit is named by its distance behind the ack.
PacketAcked(seq, ack, bits) ==
  \/ seq = ack
  \/ WrapSub(ack, seq) \in bits

\* Mutant: the newest messages are packed first.
NewestOf(S, c) == {k \in S : Cardinality({x \in S : x > k}) < c}

\* The c oldest members of S: what the loop over a queue packs before the
\* first message that no longer fits.
FirstOf(S, c) == {k \in S : Cardinality({x \in S : x < k}) < c}

-----------------------------------------------------------------------------
Init ==
  /\ traffic \in Traffic
  /\ nextSeq = [e \in End |-> 0]
  /\ lastReceived = [e \in End |-> None]
  /\ receivedMask = [e \in End |-> {}]
  /\ sentPackets = [e \in End |-> {}]
  /\ nextId = [e \in End |-> 0]
  /\ pending = [e \in End |-> {}]
  /\ expectedId = [e \in End |-> 0]
  /\ buffer = [e \in End |-> {}]
  /\ seqNextId = [e \in End |-> 0]
  /\ seqPending = [e \in End |-> {}]
  /\ seqLastId = [e \in End |-> None]
  /\ unrNext = [e \in End |-> 0]
  /\ unrPending = [e \in End |-> {}]
  /\ network = {}
  /\ delivered = [e \in End |-> <<>>]
  /\ seqDelivered = [e \in End |-> <<>>]
  /\ unrDelivered = [e \in End |-> [k \in UnreliableStream |-> 0]]

\* Mutant: the server may speak first.
MayAddressAnyone(e) == TRUE

MayAddressPeer(e) == e = "client" \/ lastReceived[e] # None

-----------------------------------------------------------------------------
(* send: PeerState::enqueue, by channel.  An overflowing queue is an error *)
(* that leaves the state alone.                                            *)

SendReliable(e) ==
  /\ MayAddressPeer(e)
  /\ "reliable" \in traffic /\ nextId[e] < MaxReliable[e]
  /\ Cardinality(pending[e]) < MaxPending
  /\ pending' = [pending EXCEPT ![e] = @ \cup {nextId[e]}]
  /\ nextId' = [nextId EXCEPT ![e] = WrapInc(@)]
  /\ UNCHANGED <<traffic, nextSeq, sentPackets, seqNextId, seqPending, unrNext,
                 unrPending, recvVars, network>>

\* A sequenced message replaces one that is still pending.
SendSequenced(e) ==
  /\ MayAddressPeer(e)
  /\ "sequenced" \in traffic /\ seqNextId[e] < MaxSequenced
  /\ seqPending' = [seqPending EXCEPT ![e] = {seqNextId[e]}]
  /\ seqNextId' = [seqNextId EXCEPT ![e] = WrapInc(@)]
  /\ UNCHANGED <<traffic, nextSeq, sentPackets, nextId, pending, unrNext, unrPending,
                 recvVars, network>>

SendUnreliable(e) ==
  /\ MayAddressPeer(e)
  /\ "unreliable" \in traffic /\ unrNext[e] < MaxUnreliable
  /\ Cardinality(unrPending[e]) < MaxPending
  /\ unrPending' = [unrPending EXCEPT ![e] = @ \cup {unrNext[e]}]
  /\ unrNext' = [unrNext EXCEPT ![e] = @ + 1]
  /\ UNCHANGED <<traffic, nextSeq, sentPackets, nextId, pending, seqNextId, seqPending,
                 recvVars, network>>

-----------------------------------------------------------------------------
(* flush: build_packet, track_sent and send_to.  The application calls it  *)
(* after its sends and poll calls it when RETRY_INTERVAL_MS have passed,   *)
(* so it may happen at any time.  Reliable messages stay pending; the      *)
(* other channels give up what they packed.  A packet whose send_to fails  *)
(* is built and tracked all the same, like one the network loses.          *)

\* Mutant: unacknowledged messages do not count, nothing is retransmitted.
HasFreshPending(e) == seqPending[e] # {} \/ unrPending[e] # {}

HasPending(e) ==
  pending[e] # {} \/ seqPending[e] # {} \/ unrPending[e] # {}

\* ack falls back to 0 when nothing has been received (unwrap_or(0)).
BuildPacket(e) ==
  LET rel == FirstOf(pending[e], PacketCap)
      room == PacketCap - Cardinality(rel)
      sqd == IF room > 0 THEN seqPending[e] ELSE {}
  IN [from |-> e,
      seq |-> nextSeq[e],
      ack |-> IF lastReceived[e] = None THEN 0 ELSE lastReceived[e],
      bits |-> receivedMask[e],
      rel |-> rel,
      sqd |-> sqd,
      unr |-> FirstOf(unrPending[e], room - Cardinality(sqd))]

\* Only packets with reliable messages are tracked, the oldest making room.
TrackSent(tracked, seq, refs) ==
  LET all == tracked \cup {[seq |-> seq, refs |-> refs]}
      oldest == {p \in all : \A q \in all : p.seq <= q.seq}
  IN IF refs = {} THEN tracked
     ELSE IF Cardinality(all) > MAX_SENT_PACKETS THEN all \ oldest
     ELSE all

Flush(e) ==
  /\ HasPending(e)
  /\ nextSeq[e] < MaxPackets
  /\ LET p == BuildPacket(e)
     IN /\ network' = network \cup {p}
        /\ sentPackets' = [sentPackets EXCEPT ![e] = TrackSent(@, p.seq, p.rel)]
        /\ seqPending' = [seqPending EXCEPT ![e] = @ \ p.sqd]
        /\ unrPending' = [unrPending EXCEPT ![e] = @ \ p.unr]
  /\ nextSeq' = [nextSeq EXCEPT ![e] = WrapInc(@)]
  /\ UNCHANGED <<traffic, nextId, pending, seqNextId, unrNext, recvVars>>

-----------------------------------------------------------------------------
(* poll: one iteration of its receive loop, on one datagram.               *)

\* process_acks and ack_reliable.
ProcessAcks(e, ack, bits) ==
  LET acked == {s \in sentPackets[e] : PacketAcked(s.seq, ack, bits)}
  IN /\ sentPackets' = [sentPackets EXCEPT ![e] = @ \ acked]
     /\ pending' = [pending EXCEPT ![e] = @ \ UNION {s.refs : s \in acked}]

\* Mutant: only the newest packet counts as a duplicate.
IsNotLast(e, seq) == seq # lastReceived[e]

\* What track_received returns.
IsNew(e, seq) ==
  \/ lastReceived[e] = None
  \/ WrapSub(seq, lastReceived[e]) \in 1 .. SEQ_WINDOW - 1

\* The ack field after a newer packet: shifted by the distance, which wraps
\* at the width in a release build, with the nearest bit set; cleared when
\* the distance exceeds the width.
ShiftedMask(mask, diff) ==
  IF diff > MASK_BITS THEN {}
  ELSE LET by == IF diff = MASK_BITS THEN 0 ELSE diff
       IN ({i + by : i \in mask} \cap 1 .. MASK_BITS) \cup {1}

\* The ack field after an older packet: its bit is set if the field has one.
MarkedMask(mask, back) == mask \cup ({back} \cap 1 .. MASK_BITS)

TrackReceived(e, seq) ==
  /\ lastReceived' = IF IsNew(e, seq) THEN [lastReceived EXCEPT ![e] = seq]
                     ELSE lastReceived
  /\ receivedMask' =
       [receivedMask EXCEPT ![e] =
          IF lastReceived[e] = None THEN {}
          ELSE IF IsNew(e, seq)
               THEN ShiftedMask(@, WrapSub(seq, lastReceived[e]))
               ELSE MarkedMask(@, WrapSub(lastReceived[e], seq))]

\* Mutant: everything at hand is delivered.
DeliverAll(have, expected) == have

\* The ids of `have' that can be delivered in order from `expected' on.
Contiguous(have, expected) ==
  {i \in have : \A d \in 0 .. WrapSub(i, expected) : WrapAdd(expected, d) \in have}

\* The reliable messages of a packet, oldest first: the expected one and all
\* that follow it without a gap are delivered, later ones are kept while the
\* buffer has room.
ReceiveReliable(e, rel) ==
  LET run == Contiguous(buffer[e] \cup rel, expectedId[e])
      next == WrapAdd(expectedId[e], Cardinality(run))
      kept == buffer[e] \ run
      early == {i \in rel : SequenceMoreRecent(i, next)} \ kept
  IN /\ delivered' = [delivered EXCEPT ![e] =
                        @ \o [i \in 1 .. Cardinality(run) |-> WrapAdd(expectedId[e], i - 1)]]
     /\ expectedId' = [expectedId EXCEPT ![e] = next]
     /\ buffer' = [buffer EXCEPT ![e] =
                     kept \cup FirstOf(early, MaxPending - Cardinality(kept))]

\* A sequenced message is delivered only if it is newer than the last one.
ReceiveSequenced(e, sqd) ==
  LET accepted == {i \in sqd : seqLastId[e] = None
                               \/ SequenceMoreRecent(i, seqLastId[e])}
  IN \/ /\ accepted = {}
        /\ UNCHANGED <<seqLastId, seqDelivered>>
     \/ \E i \in accepted :
          /\ seqLastId' = [seqLastId EXCEPT ![e] = i]
          /\ seqDelivered' = [seqDelivered EXCEPT ![e] = Append(@, i)]

\* Unreliable messages are delivered as they come.
ReceiveUnreliable(e, unr) ==
  unrDelivered' = [unrDelivered EXCEPT ![e] =
                     [k \in UnreliableStream |-> IF k \in unr THEN @[k] + 1 ELSE @[k]]]

ReceiveMessages(e, p) ==
  /\ ReceiveReliable(e, p.rel)
  /\ ReceiveSequenced(e, p.sqd)
  /\ ReceiveUnreliable(e, p.unr)

Receive(e, p) ==
  /\ p.from = Other(e)
  /\ ProcessAcks(e, p.ack, p.bits)
  /\ TrackReceived(e, p.seq)
  /\ \/ /\ IsNew(e, p.seq)
        /\ ReceiveMessages(e, p)
     \/ /\ ~IsNew(e, p.seq)
        /\ UNCHANGED <<expectedId, buffer, delivered, seqLastId, seqDelivered,
                       unrDelivered>>
  /\ UNCHANGED <<traffic, nextSeq, nextId, seqNextId, seqPending, unrNext, unrPending,
                 network>>

-----------------------------------------------------------------------------
Next ==
  \E e \in End :
    \/ SendReliable(e)
    \/ SendSequenced(e)
    \/ SendUnreliable(e)
    \/ Flush(e)
    \/ \E p \in network : Receive(e, p)

Spec == Init /\ [][Next]_vars

-----------------------------------------------------------------------------
Packet ==
  [from : End, seq : U16, ack : U16, bits : SUBSET (1 .. MASK_BITS),
   rel : SUBSET U16, sqd : SUBSET U16, unr : SUBSET UnreliableStream]

\* The type of every variable; nothing behavioural.
TypeOK ==
  /\ traffic \in Traffic
  /\ nextSeq \in [End -> U16]
  /\ lastReceived \in [End -> U16 \cup {None}]
  /\ receivedMask \in [End -> SUBSET (1 .. MASK_BITS)]
  /\ sentPackets \in [End -> SUBSET [seq : U16, refs : SUBSET U16]]
  /\ nextId \in [End -> U16]
  /\ pending \in [End -> SUBSET U16]
  /\ expectedId \in [End -> U16]
  /\ buffer \in [End -> SUBSET U16]
  /\ seqNextId \in [End -> U16]
  /\ seqPending \in [End -> SUBSET U16]
  /\ seqLastId \in [End -> U16 \cup {None}]
  /\ unrNext \in [End -> Nat]
  /\ unrPending \in [End -> SUBSET UnreliableStream]
  /\ network \in SUBSET Packet
  /\ delivered \in [End -> Seq(U16)]
  /\ seqDelivered \in [End -> Seq(U16)]
  /\ unrDelivered \in [End -> [UnreliableStream -> Nat]]

\* A reliable message the client has stopped retransmitting was handed to the
\* server's application: an acknowledgement never loses a message, whatever
\* the network drops, duplicates or reorders (process_acks, track_received).
ClientNothingLost ==
  \A i \in 0 .. nextId["client"] - 1 :
    i \in pending["client"] \/ i < expectedId["server"]

\* The reorder buffer of the server's reliable channel is never needed: every
\* packet repeats the oldest messages still pending, so what a packet brings
\* always starts at or before expected_id (build_packet, receive_message).
ServerBufferUnused == buffer["server"] = {}

\* Newer supersedes older: the sequenced messages an end is handed are
\* strictly increasing (docs/ARCHITECTURE.md section 6.1).
SequencedNeverOlder ==
  \A e \in End : \A i \in 1 .. Len(seqDelivered[e]) - 1 :
    seqDelivered[e][i] < seqDelivered[e][i + 1]

\* No datagram duplicated by the network makes the application see an
\* unreliable message twice (the early continue in poll).
UnreliableAtMostOnce ==
  \A e \in End : \A k \in UnreliableStream : unrDelivered[e][k] <= 1

\* What the channels without retransmission promise, whatever the network
\* duplicates and reorders.
NeitherOlderNorTwice == SequencedNeverOlder /\ UnreliableAtMostOnce

\* Ids are handed out in order, so sender e has sent 0, 1, ... below its
\* next_id; what it has got across is what its peer's application was handed.
sentBy == [e \in End |-> [i \in 1 .. nextId[e] |-> i - 1]]
gotFrom == [e \in End |-> delivered[Other(e)]]

Channel == INSTANCE ReliableOrdered WITH
  Senders <- End, Messages <- U16, sent <- sentBy, got <- gotFrom

\* Channel 0 is an ordered channel without gaps or repetitions, both ways,
\* even where an acknowledgement loses a message (it then stalls).
OrderedExactlyOnce == Channel!Spec

-----------------------------------------------------------------------------
(* The inductive invariant behind ClientNothingLost.  Its heart is that an *)
(* acknowledgement acts cumulatively: a packet that reached the server     *)
(* carried every message that earlier packets carried and that was still   *)
(* pending, so all of them have been delivered, however wrong the bits of  *)
(* the mask are.                                                           *)

\* The server has nothing to send before it hears from the client.
ServerSilentBeforeContact ==
  lastReceived["server"] = None =>
    pending["server"] = {} /\ seqPending["server"] = {} /\ unrPending["server"] = {}

\* Sequence numbers and ids stay below what has been handed out.
Counters ==
  /\ nextSeq["client"] <= MaxPackets
  /\ nextId["client"] <= MaxReliable["client"]
  /\ expectedId["server"] <= nextId["client"]
  /\ lastReceived["server"] < nextSeq["client"]
  /\ \A i \in pending["client"] : i < nextId["client"]

\* Every packet the client tracks carried messages that are delivered or
\* among those the next packet repeats.
TrackedRepeated ==
  \A t \in sentPackets["client"] :
    /\ t.seq < nextSeq["client"]
    /\ \A i \in t.refs :
         /\ i < nextId["client"]
         /\ i \in pending["client"] => i \in FirstOf(pending["client"], PacketCap)

\* What was carried up to the newest packet the server received is delivered.
ReceivedDelivered ==
  \A t \in sentPackets["client"] :
    t.seq <= lastReceived["server"] => \A i \in t.refs : i < expectedId["server"]

\* A client packet in flight brings a gapless run, and everything that the
\* packets tracked before it carried.
FlightRepeats ==
  \A p \in network : p.from = "client" =>
    /\ p.seq < nextSeq["client"]
    /\ \A i \in p.rel :
         /\ i < nextId["client"]
         /\ \A k \in 0 .. i - 1 : k \in p.rel \/ k < expectedId["server"]
    /\ \A t \in sentPackets["client"] : t.seq <= p.seq =>
         \A i \in t.refs : i \in p.rel \/ i < expectedId["server"]

\* A server packet acknowledges nothing newer than what the server received.
AcksHeard ==
  \A p \in network : p.from = "server" => p.ack <= lastReceived["server"]

ClientInv ==
  /\ TypeOK
  /\ ServerSilentBeforeContact
  /\ Counters
  /\ TrackedRepeated
  /\ ReceivedDelivered
  /\ FlightRepeats
  /\ AcksHeard
  /\ ServerBufferUnused
  /\ ClientNothingLost
-----------------------------------------------------------------------------
(* The inductive invariants behind NeitherOlderNorTwice and                *)
(* OrderedExactlyOnce, one for each channel and both ends.                 *)

\* A sequenced id in flight or pending was handed out by its sender, and an
\* end remembers the newest of those it handed to its application.
SequencedInv ==
  /\ \A e \in End :
       /\ seqNextId[e] <= MaxSequenced
       /\ \A i \in seqPending[e] : i < seqNextId[e]
       /\ seqLastId[e] < seqNextId[Other(e)]
       /\ IF seqLastId[e] = None THEN seqDelivered[e] = <<>>
          ELSE /\ seqDelivered[e] # <<>>
               /\ seqDelivered[e][Len(seqDelivered[e])] = seqLastId[e]
  /\ \A p \in network : \A i \in p.sqd : i < seqNextId[p.from]
  /\ SequencedNeverOlder

\* No two packets of an end share a sequence number.
PacketsNumbered ==
  /\ \A e \in End : nextSeq[e] <= MaxPackets /\ lastReceived[e] < nextSeq[Other(e)]
  /\ \A p \in network : p.seq < nextSeq[p.from]

\* An unreliable message is pending, or packed once, or not sent yet.
PackedOnce ==
  /\ \A e \in End : \A k \in unrPending[e] : k < unrNext[e]
  /\ \A p \in network : \A k \in p.unr : k < unrNext[p.from] /\ k \notin unrPending[p.from]
  /\ \A p, q \in network : p.from = q.from /\ p.seq # q.seq => p.unr \cap q.unr = {}

\* Only what a packet up to the newest one received brought is delivered.
DeliveredWhenHeard ==
  \A e \in End : \A k \in UnreliableStream :
    /\ k \in unrPending[Other(e)] \/ unrNext[Other(e)] <= k => unrDelivered[e][k] = 0
    /\ \A p \in network : p.from = Other(e) /\ lastReceived[e] < p.seq /\ k \in p.unr
         => unrDelivered[e][k] = 0

UnreliableInv ==
  PacketsNumbered /\ PackedOnce /\ DeliveredWhenHeard /\ UnreliableAtMostOnce

\* Reliable ids everywhere were handed out by their sender.
IdsHandedOut ==
  /\ \A e \in End :
       /\ nextId[e] <= MaxReliable[e]
       /\ \A i \in pending[e] : i < nextId[e]
       /\ \A i \in buffer[e] : i < nextId[Other(e)]
       /\ expectedId[e] <= nextId[Other(e)]
  /\ \A p \in network : \A i \in p.rel : i < nextId[p.from]

\* An end has handed to its application exactly the ids below its
\* expected_id, in order.
DeliveredInOrder ==
  \A e \in End : delivered[e] = [i \in 1 .. expectedId[e] |-> i - 1]

OrderedInv == IdsHandedOut /\ DeliveredInOrder
=============================================================================
