----------------------------- MODULE NetSession -----------------------------
(***************************************************************************)
(* A game session of net/server and net/client: clients connect, send      *)
(* inputs and disconnect; the server applies the newest input of each,     *)
(* moves the entities and sends every client a snapshot, in full or as a   *)
(* delta against the snapshot it sent that client before.                  *)
(*                                                                         *)
(* Between them lies the transport that NetTransport models.  What it      *)
(* leaves of a direction is a lossy queue: packets are handed over in the  *)
(* order they were built, each at most once, for an overtaken packet is    *)
(* thrown away; and a packet repeats every control message (channel 0)     *)
(* that may not have arrived.  MaxLost = 0 is LoopbackTransport.           *)
(*                                                                         *)
(* A call of Server::tick is a poll of the packets at hand and the step    *)
(* Tick.  It is a call of its own that fails if the socket does: a poll    *)
(* that fails drops what it received, a flush that fails sends only some   *)
(* of the packets.  The dedicated server carries on in both cases; a       *)
(* client exits.                                                           *)
(* An entity is its position and its velocity on one axis; entity i of a   *)
(* snapshot has net_id i.                                                  *)
(***************************************************************************)
EXTENDS Integers, Sequences, FiniteSets, SequencesExt

CONSTANTS
  Client,             \* client addresses
  BASELINE_INTERVAL,  \* age of a baseline that forces a full snapshot
  Configs,            \* snapshot_stride and mtu, in entities that fit in one message
  MaxCalls,           \* bound: calls of Server::tick that pass the poll
  MaxInputs,          \* bound: inputs a client sends
  MaxLost,            \* bound: packets the network loses
  MaxFailures,        \* bound: calls that fail on the socket
  None

ASSUME SessionAssumption ==
  /\ BASELINE_INTERVAL \in Nat
  /\ Configs \subseteq [stride : Nat \ {0}, mtu : Nat \ {0}]
  /\ {MaxCalls, MaxInputs, MaxLost, MaxFailures} \subseteq Nat
  /\ IsFiniteSet(Client)

Moves == {0, 1}
Entity == [pos : 0 .. MaxCalls, vel : Moves]
Input == [seq : 0 .. MaxInputs - 1, move : Moves]
Packet == [ctl : 1 .. 2, in : Input \cup {None}]

\* Entities by net_id, and what a client can hold of them.
Ids == 1 .. Cardinality(Client)
View == UNION {[D -> Entity] : D \in SUBSET Ids}
Snapshot == [tick : 0 .. MaxCalls, ents : View]
Message == [kind : {"full"}, tick : 0 .. MaxCalls, ents : View]
           \cup [kind : {"delta"}, tick : 0 .. MaxCalls, ents : View, base : 0 .. MaxCalls]

\* None is no value of the program.
ASSUME NoneAssumption == None \notin Nat \cup Input \cup Snapshot

VARIABLES
  \* The server.
  config,    \* its member of Configs, never changed
  tick,      \* tick
  order,     \* clients, in the order the HashMap iterates over them
  ent,       \* entity of each registered client
  input,     \* last_input
  lastSeq,   \* last_seq
  lastSnap,  \* last_snapshot: the snapshot last handed to the transport
  polled,    \* the poll of the current call has brought something
  calls,     \* calls of tick that passed the poll
  \* The clients.
  phase,     \* a client's life: "new", "on", "gone"
  nextSeq,   \* next_seq
  snap,      \* last_snapshot
  \* The links.
  up,        \* packets from a client
  down,      \* snapshot messages to a client, each in a packet
  ctlGot,    \* control messages of a client the server's transport has handed over
  lost,      \* packets lost so far
  failures,  \* calls that failed on the socket so far
  \* History.
  built,     \* snapshots the server has built, as tick and entities
  newest,    \* tick of the newest snapshot message a client was handed
  offered    \* the newest input the server was handed since registration

gameVars == <<config, tick, order, ent, input, lastSeq, lastSnap, offered>>
serverVars == <<gameVars, polled, calls, built>>
clientVars == <<phase, nextSeq, snap, newest>>
linkVars == <<up, down, ctlGot, lost, failures>>
vars == <<serverVars, clientVars, linkVars>>

Resting == [pos |-> 0, vel |-> 0]
Registered == Range(order)

Init ==
  /\ config \in Configs
  /\ tick = 0
  /\ order = <<>>
  /\ ent = [c \in Client |-> Resting]
  /\ input = [c \in Client |-> None]
  /\ lastSeq = [c \in Client |-> 0]
  /\ lastSnap = [c \in Client |-> None]
  /\ polled = FALSE
  /\ calls = 0
  /\ phase = [c \in Client |-> "new"]
  /\ nextSeq = [c \in Client |-> 0]
  /\ snap = [c \in Client |-> None]
  /\ up = [c \in Client |-> <<>>]
  /\ down = [c \in Client |-> <<>>]
  /\ ctlGot = [c \in Client |-> 0]
  /\ lost = 0
  /\ failures = 0
  /\ built = {}
  /\ newest = [c \in Client |-> None]
  /\ offered = [c \in Client |-> None]

-----------------------------------------------------------------------------
(* Clients.  The control messages of a client are 1, Connect, and 2,       *)
(* Disconnect; a packet carries all up to its `ctl' and possibly an input. *)

\* flush after a control message or an input, or the retry in poll.
SendUp(c, ctl, in) == up' = [up EXCEPT ![c] = Append(@, [ctl |-> ctl, in |-> in])]

\* Client::connect.
Connect(c) ==
  /\ phase[c] = "new"
  /\ phase' = [phase EXCEPT ![c] = "on"]
  /\ SendUp(c, 1, None)
  /\ UNCHANGED <<serverVars, nextSeq, snap, newest, down, ctlGot, lost, failures>>

\* Client::send_input.
SendInput(c) ==
  /\ phase[c] = "on"
  /\ nextSeq[c] < MaxInputs
  /\ \E m \in Moves : SendUp(c, 1, [seq |-> nextSeq[c], move |-> m])
  /\ nextSeq' = [nextSeq EXCEPT ![c] = @ + 1]
  /\ UNCHANGED <<serverVars, phase, snap, newest, down, ctlGot, lost, failures>>

\* Client::disconnect, after which the client is dropped.
Disconnect(c) ==
  /\ phase[c] = "on"
  /\ phase' = [phase EXCEPT ![c] = "gone"]
  /\ SendUp(c, 2, None)
  /\ UNCHANGED <<serverVars, nextSeq, snap, newest, down, ctlGot, lost, failures>>

\* A call of the client fails on the socket and the headless client exits.
Crash(c) ==
  /\ phase[c] = "on"
  /\ failures < MaxFailures
  /\ failures' = failures + 1
  /\ phase' = [phase EXCEPT ![c] = "gone"]
  /\ UNCHANGED <<serverVars, nextSeq, snap, newest, up, down, ctlGot, lost>>

\* The transport repeats a Connect that may not have arrived.
RepeatConnect(c) ==
  /\ phase[c] = "on" /\ ctlGot[c] = 0
  /\ up[c] = <<>>
  /\ SendUp(c, 1, None)
  /\ UNCHANGED <<serverVars, clientVars, down, ctlGot, lost, failures>>

\* Mutant: a delta is applied to whatever snapshot is at hand.
AnyBaseline(old, delta) == old # None

\* The baseline check of apply_delta_snapshot.
Applies(old, delta) == old # None /\ old.tick = delta.base

\* Client::poll on one snapshot message.
Applied(old, msg) ==
  IF msg.kind = "full" THEN [tick |-> msg.tick, ents |-> msg.ents]
  ELSE IF ~Applies(old, msg) THEN old
  ELSE LET ids == DOMAIN old.ents \cup DOMAIN msg.ents
       IN [tick |-> msg.tick,
           ents |-> [i \in ids |-> IF i \in DOMAIN msg.ents THEN msg.ents[i] ELSE old.ents[i]]]

\* Client::poll on one packet.
ClientPoll(c) ==
  /\ phase[c] = "on"
  /\ down[c] # <<>>
  /\ snap' = [snap EXCEPT ![c] = Applied(@, Head(down[c]))]
  /\ newest' = [newest EXCEPT ![c] = Head(down[c]).tick]
  /\ down' = [down EXCEPT ![c] = Tail(@)]
  /\ UNCHANGED <<serverVars, phase, nextSeq, up, ctlGot, lost, failures>>

\* The network loses the packet that would arrive next.
Lose(c) ==
  /\ lost < MaxLost
  /\ lost' = lost + 1
  /\ \/ /\ up[c] # <<>>
        /\ up' = [up EXCEPT ![c] = Tail(@)]
        /\ UNCHANGED down
     \/ /\ down[c] # <<>>
        /\ down' = [down EXCEPT ![c] = Tail(@)]
        /\ UNCHANGED up
  /\ UNCHANGED <<serverVars, clientVars, ctlGot, failures>>

-----------------------------------------------------------------------------
(* Server::tick, the events of its poll.                                   *)

SeqMoreRecent(a, b) == a > b

\* Mutant: an input with the number the server started from is not taken.
AcceptsNewer(seq, last) == SeqMoreRecent(seq, last)

Accepts(seq, last) == seq = last \/ SeqMoreRecent(seq, last)

\* A ClientState is inserted; the HashMap may then iterate in any order.
Register(c) ==
  /\ order' \in SetToSeqs(Registered \cup {c})
  /\ ent' = [ent EXCEPT ![c] = Resting]
  /\ lastSnap' = [lastSnap EXCEPT ![c] = None]

\* unregister_client removes the client, the others keep their places.
Remaining(c) ==
  IF c \in Registered THEN RemoveAt(order, CHOOSE i \in DOMAIN order : order[i] = c) ELSE order

\* The transport takes the packet and hands over what is new in it.
TakePacket(c) ==
  /\ up[c] # <<>>
  /\ up' = [up EXCEPT ![c] = Tail(@)]
  /\ LET ctl == Head(up[c]).ctl
     IN ctlGot' = [ctlGot EXCEPT ![c] = IF ctl > @ THEN ctl ELSE @]
  /\ UNCHANGED <<down, lost>>

\* The messages of one packet: control messages not seen before come first,
\* then an input, which registers an unknown client.
ServerReceive(c) ==
  /\ TakePacket(c)
  /\ polled' = TRUE
  /\ LET p == Head(up[c])
         connects == ctlGot[c] < 1 /\ p.ctl >= 1
         leaves == ctlGot[c] < 2 /\ p.ctl = 2
         known == c \in Registered
         joins == ~known /\ (connects \/ p.in # None)
         last == IF known THEN lastSeq[c] ELSE 0
         takes == p.in # None /\ Accepts(p.in.seq, last)
     IN /\ CASE joins /\ ~leaves -> Register(c)
             [] joins /\ leaves   -> /\ order' \in SetToSeqs(Registered)
                                     /\ UNCHANGED <<ent, lastSnap>>
             [] OTHER             -> /\ order' = IF leaves THEN Remaining(c) ELSE order
                                     /\ UNCHANGED <<ent, lastSnap>>
        /\ lastSeq' = [lastSeq EXCEPT ![c] = IF takes THEN p.in.seq ELSE last]
        /\ input' = [input EXCEPT ![c] = IF takes THEN p.in.move
                                         ELSE IF known THEN @ ELSE None]
        /\ offered' = [offered EXCEPT ![c] = IF p.in # None THEN p.in
                                             ELSE IF known THEN @ ELSE None]
  /\ UNCHANGED <<config, tick, calls, built, clientVars, failures>>

\* A poll that fails after it received a packet: the transport has taken the
\* packet, its messages are dropped, and tick returns.
PollFails(c) ==
  /\ ~polled
  /\ failures < MaxFailures
  /\ failures' = failures + 1
  /\ TakePacket(c)
  /\ UNCHANGED <<serverVars, clientVars>>

-----------------------------------------------------------------------------
(* Server::tick after the poll.                                            *)

\* Velocity from the last input, then the position from the velocity.
Moved(e, move) ==
  LET vel == IF move = None THEN e.vel ELSE move
  IN [pos |-> e.pos + vel, vel |-> vel]

Move == ent' = [c \in Client |-> IF c \in Registered THEN Moved(ent[c], input[c]) ELSE ent[c]]

\* The entities of a snapshot, after the movement.
Entities == [i \in DOMAIN order |-> ent'[order[i]]]

\* delta_entities: it answers None when the baseline has another number of
\* entities, and otherwise the entities that differ, by net_id.
Comparable(old, cur) == Len(old) = Len(cur)
Delta(old, cur) == [i \in {j \in DOMAIN cur : old[j] # cur[j]} |-> cur[i]]

\* Mutant: the delta is taken against a snapshot that is one tick younger.
WrongBase(old) == old.tick + 1

BaseOf(old) == old.tick

\* The message for a client.
MessageFor(c) ==
  LET old == lastSnap[c]
      full == \/ old = None
              \/ tick - old.tick >= BASELINE_INTERVAL
              \/ ~Comparable(old.ents, Entities)
  IN IF full
     THEN [kind |-> "full", tick |-> tick, ents |-> Entities]
     ELSE [kind |-> "delta", tick |-> tick, ents |-> Delta(old.ents, Entities),
           base |-> BaseOf(old)]

\* The first send of the loop is refused.  It is the first if any: with so many
\* entities nobody has a baseline of that length, so all messages are full.
Refused == Len(order) > config.mtu

\* The flush sends the packets of the clients in `reached'.
Sent(reached) ==
  down' = [c \in Client |-> IF c \in reached THEN Append(down[c], MessageFor(c)) ELSE down[c]]

\* A call passes its poll and moves the entities.
PassPoll ==
  /\ calls < MaxCalls
  /\ calls' = calls + 1
  /\ polled' = FALSE
  /\ Move
  /\ UNCHANGED <<config, order, input, lastSeq, offered, clientVars, up, ctlGot, lost>>

\* A tick without snapshots.
QuietTick ==
  /\ PassPoll
  /\ tick % config.stride # 0
  /\ tick' = tick + 1
  /\ UNCHANGED <<lastSnap, built, down, failures>>

\* A refused send ends the call: nothing is sent, and the tick stays.
RefusedTick ==
  /\ PassPoll
  /\ tick % config.stride = 0 /\ Refused
  /\ UNCHANGED <<tick, lastSnap, built, down, failures>>

\* The loop over the clients hands a snapshot for each to the transport.
Snapshots ==
  /\ PassPoll
  /\ tick % config.stride = 0 /\ ~Refused
  /\ built' = built \cup {[tick |-> tick, ents |-> Entities]}
  /\ lastSnap' = [c \in Client |->
       IF c \in Registered THEN [tick |-> tick, ents |-> Entities] ELSE lastSnap[c]]

SnapshotTick ==
  /\ Snapshots
  /\ Sent(Registered)
  /\ tick' = tick + 1
  /\ UNCHANGED failures

\* A flush that fails ends the call: some packets are not sent, and the tick stays.
FlushFails ==
  /\ Snapshots
  /\ failures < MaxFailures
  /\ failures' = failures + 1
  /\ \E reached \in SUBSET Registered : reached # Registered /\ Sent(reached)
  /\ UNCHANGED tick

-----------------------------------------------------------------------------
Next ==
  \/ \E c \in Client :
       \/ Connect(c)
       \/ SendInput(c)
       \/ Disconnect(c)
       \/ Crash(c)
       \/ RepeatConnect(c)
       \/ ClientPoll(c)
       \/ Lose(c)
       \/ ServerReceive(c)
       \/ PollFails(c)
  \/ QuietTick
  \/ RefusedTick
  \/ SnapshotTick
  \/ FlushFails

Spec == Init /\ [][Next]_vars

-----------------------------------------------------------------------------
\* The type of every variable.  What the server builds is a sequence of
\* entities; a client that lost some may hold a part of one.
TypeOK ==
  /\ config \in Configs /\ tick \in 0 .. calls /\ calls \in 0 .. MaxCalls
  /\ lost \in 0 .. MaxLost /\ failures \in 0 .. MaxFailures
  /\ polled \in BOOLEAN
  /\ order \in Seq(Client) /\ IsInjective(order)
  /\ ent \in [Client -> [pos : 0 .. calls, vel : Moves]]
  /\ input \in [Client -> Moves \cup {None}]
  /\ offered \in [Client -> Input \cup {None}]
  /\ lastSeq \in [Client -> 0 .. MaxInputs] /\ nextSeq \in [Client -> 0 .. MaxInputs]
  /\ phase \in [Client -> {"new", "on", "gone"}]
  /\ ctlGot \in [Client -> 0 .. 2]
  /\ up \in [Client -> Seq(Packet)] /\ down \in [Client -> Seq(Message)]
  /\ built \subseteq Snapshot /\ \A b \in built : b.ents \in Seq(Entity) /\ b.tick <= tick
  /\ lastSnap \in [Client -> built \cup {None}]
  /\ snap \in [Client -> Snapshot \cup {None}]
  /\ newest \in [Client -> 0 .. MaxCalls \cup {None}]

\* Snapshots are of the authoritative state: what a client holds for a tick is
\* a state the server built for that tick (docs/ARCHITECTURE.md section 1.1).
Authoritative ==
  \A c \in Client : snap[c] # None => snap[c] \in built

\* That is so however full snapshots and deltas follow each other, are lost, and
\* clients join and leave in between (delta_entities, apply_delta_snapshot), and
\* also if one call fails on the socket while the network loses nothing.
SnapshotFaithful ==
  failures = 0 \/ (failures = 1 /\ lost = 0) => Authoritative

\* Newer supersedes older: a client holds the newest snapshot it was handed
\* (docs/ARCHITECTURE.md section 6.1).
NewerSupersedes ==
  \A c \in Client : newest[c] # None => snap[c] # None /\ snap[c].tick = newest[c]

\* That is so as long as every packet arrives: every delta then finds its
\* baseline at the client, whoever joins and leaves in between.
UpToDateUnlessLost == lost = 0 /\ failures = 0 => NewerSupersedes

\* Clients see the server's game: true states only, and always the newest for
\* as long as the network is whole.
ClientsFollow == SnapshotFaithful /\ UpToDateUnlessLost

\* The server acts on the newest input it was handed since the client came,
\* the very first, number 0, included (the acceptance test in Server::tick).
NewestInputApplies ==
  \A c \in Registered : offered[c] # None =>
    lastSeq[c] = offered[c].seq /\ input[c] = offered[c].move

\* A client that has left is gone from the server once its packets have been
\* handled and if all arrived (the last assertion of
\* loopback_exchanges_snapshots); there is no timeout for the other cases.
NoGhosts ==
  \A c \in Client :
    phase[c] = "gone" /\ up[c] = <<>> /\ lost = 0 /\ failures = 0 => c \notin Registered

\* A call of Server::tick that passes the poll advances the tick
\* (docs/ARCHITECTURE.md section 3.2, step 3), unless a send was refused, which
\* needs more entities than fit in a message, or the flush failed.
EveryCallAdvances ==
  Cardinality(Client) <= config.mtu /\ failures = 0 => tick = calls

\* What the server makes of what it was handed: who plays, with which input,
\* and at which tick.
ServerFollows == TypeOK /\ NewestInputApplies /\ NoGhosts /\ EveryCallAdvances

-----------------------------------------------------------------------------
(* Inductive invariants.                                                   *)

\* The inputs on their way to the server are numbered upwards, above the newest
\* that arrived and below the next to be sent (next_seq in Client::send_input).
InputsRise ==
  \A c \in Client :
    /\ offered[c] # None => offered[c].seq < nextSeq[c]
    /\ \A i \in DOMAIN up[c] : up[c][i].in # None =>
         /\ up[c][i].in.seq < nextSeq[c]
         /\ offered[c] # None => offered[c].seq < up[c][i].in.seq
         /\ \A j \in i + 1 .. Len(up[c]) :
              up[c][j].in # None => up[c][i].in.seq < up[c][j].in.seq

\* A player without an input stands at number 0, where clients start to count.
FirstInputAwaited == \A c \in Registered : offered[c] = None => lastSeq[c] = 0

\* As long as every packet arrives, Disconnect is in the last packet of a client
\* and in no other, and the server has not been handed it before.
GoodbyeLast ==
  lost = 0 /\ failures = 0 =>
    \A c \in Client :
      /\ phase[c] # "gone" \/ up[c] # <<>> => ctlGot[c] <= 1
      /\ \A i \in DOMAIN up[c] :
           up[c][i].ctl = IF phase[c] = "gone" /\ i = Len(up[c]) THEN 2 ELSE 1

ServerInv == ServerFollows /\ InputsRise /\ FirstInputAwaited /\ GoodbyeLast

\* Without a failed call the server builds one snapshot for a tick, and ...
OnePerTick ==
  failures = 0 =>
    /\ \A b \in built : b.tick < tick
    /\ \A a \in built : \A b \in built : a.tick = b.tick => a = b

\* ... a message is a snapshot, or leads from one snapshot to another.
MessagesTell ==
  failures = 0 =>
    \A c \in Client : \A i \in DOMAIN down[c] :
      LET m == down[c][i]
      IN IF m.kind = "full" THEN [tick |-> m.tick, ents |-> m.ents] \in built
         ELSE \E b \in built : Applies(b, m) /\ Applied(b, m) \in built

\* What a client will hold after each message on its way: R[i] after the i-th.
\* The last is what the server remembers, or, where a failed call did not send
\* it, something older, to which the deltas that follow do not apply.
Future(c, R) ==
  /\ R[0] = snap[c]
  /\ \A i \in DOMAIN down[c] : R[i] = Applied(R[i - 1], down[c][i])
  /\ failures = 0 => \A i \in DOMAIN down[c] : R[i] # None /\ R[i].tick = down[c][i].tick
  /\ lastSnap[c] # None =>
       LET end == R[Len(down[c])]
       IN end = lastSnap[c] \/ (failures = 1 /\ (end = None \/ end.tick < lastSnap[c].tick))

\* As long as every packet arrives and at most one call failed, all that is true.
FutureTrue ==
  lost = 0 /\ failures <= 1 =>
    \A c \in Client : \E R \in [0 .. Len(down[c]) -> built \cup {None}] : Future(c, R)
=============================================================================
