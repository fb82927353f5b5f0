-------------------------- MODULE NetSession_proofs --------------------------
(***************************************************************************)
(* Proofs about NetSession, for any number of clients, calls, inputs and   *)
(* lost packets: the server acts on the newest inputs, and what a client   *)
(* holds is a state the server built.                                      *)
(***************************************************************************)
EXTENDS NetSession, FiniteSetTheorems, SequenceTheorems, TLAPS

LEMMA Constants ==
  /\ {MaxCalls, MaxInputs, MaxLost, MaxFailures, BASELINE_INTERVAL} \subseteq Nat
  /\ \A c \in Configs : c.stride \in Nat \ {0} /\ c.mtu \in Nat \ {0}
  /\ Cardinality(Client) \in Nat
  /\ None \notin Nat /\ None \notin Input /\ None \notin Snapshot
  <1>1. Cardinality(Client) \in Nat
    BY SessionAssumption, FS_CardinalityType
  <1> QED  BY <1>1, SessionAssumption, NoneAssumption

LEMMA Conversions ==
  /\ \A k \in 0 .. MaxCalls : k \in Nat
  /\ \A e \in Entity : e.pos \in 0 .. MaxCalls /\ e.vel \in Moves
  /\ \A p \in Packet : p.ctl \in {1, 2} /\ p.in \in Input \cup {None}
  /\ \A in \in Input : in.seq \in Nat /\ in.seq < MaxInputs /\ in.move \in Moves
  /\ \A s \in Snapshot : s.tick \in 0 .. MaxCalls /\ s.ents \in View /\ s # None
  BY Constants DEF Entity, Packet, Input, Snapshot, Moves

-----------------------------------------------------------------------------
(* Orders and entities.                                                    *)

(* Nobody is in the order twice, so it is no longer than there are clients. *)
LEMMA OrderBounded ==
  ASSUME order \in Seq(Client), IsInjective(order)
  PROVE  /\ Len(order) \in Nat /\ Len(order) <= Cardinality(Client)
         /\ DOMAIN order = 1 .. Len(order) /\ DOMAIN order \subseteq Ids
  <1>1. Len(order) \in Nat /\ DOMAIN order = 1 .. Len(order)
    OBVIOUS
  <1>2. order \in Injection(1 .. Len(order), Client)
    BY <1>1 DEF Injection
  <1>3. Cardinality(1 .. Len(order)) <= Cardinality(Client)
    BY <1>2, SessionAssumption, FS_Injection
  <1>4. Cardinality(1 .. Len(order)) = Len(order)
    BY <1>1, FS_Interval
  <1> QED  BY <1>1, <1>3, <1>4, Constants DEF Ids

LEMMA SetToSeqsFacts ==
  ASSUME NEW S \in SUBSET Client, NEW s \in SetToSeqs(S)
  PROVE  s \in Seq(Client) /\ IsInjective(s) /\ Range(s) \subseteq S
  <1>1. Cardinality(S) \in Nat
    BY SessionAssumption, FS_Subset, FS_CardinalityType
  <1>2. s \in [1 .. Cardinality(S) -> S]
    BY DEF SetToSeqs
  <1>3. s \in Seq(Client)
    BY <1>1, <1>2
  <1>4. IsInjective(s)
    BY <1>2 DEF SetToSeqs, IsInjective
  <1> QED  BY <1>2, <1>3, <1>4 DEF Range

LEMMA RemoveAtFacts ==
  ASSUME NEW S, NEW q \in Seq(S), NEW i \in 1 .. Len(q)
  PROVE  /\ RemoveAt(q, i) \in Seq(S) /\ Len(RemoveAt(q, i)) = Len(q) - 1
         /\ \A j \in 1 .. Len(q) - 1 :
              RemoveAt(q, i)[j] = IF j < i THEN q[j] ELSE q[j + 1]
  <1>1. PICK s : s = SubSeq(q, 1, i - 1)
    OBVIOUS
  <1>2. PICK t : t = SubSeq(q, i + 1, Len(q))
    OBVIOUS
  <1>3. s \in Seq(S) /\ Len(s) = i - 1 /\ \A j \in 1 .. i - 1 : s[j] = q[j]
    BY <1>1
  <1>4. t \in Seq(S) /\ Len(t) = Len(q) - i /\ \A j \in 1 .. Len(q) - i : t[j] = q[j + i]
    BY <1>2
  <1>5. PICK r : r = s \o t
    OBVIOUS
  <1>6. /\ r \in Seq(S) /\ Len(r) = Len(s) + Len(t)
        /\ \A j \in 1 .. Len(s) + Len(t) : r[j] = IF j <= Len(s) THEN s[j] ELSE t[j - Len(s)]
    BY <1>3, <1>4, <1>5, ConcatProperties
  <1>7. Len(r) = Len(q) - 1 /\ Len(q) \in Nat
    BY <1>3, <1>4, <1>6
  <1>8. ASSUME NEW j \in 1 .. Len(q) - 1
        PROVE  r[j] = IF j < i THEN q[j] ELSE q[j + 1]
    <2>1. r[j] = IF j <= i - 1 THEN s[j] ELSE t[j - (i - 1)]
      BY <1>3, <1>4, <1>6, <1>7
    <2>2. CASE j < i
      BY <1>3, <2>1, <2>2, <1>7
    <2>3. CASE ~(j < i)
      <3>1. j - (i - 1) \in 1 .. Len(q) - i /\ ~(j <= i - 1) /\ (j - (i - 1)) + i = j + 1
        BY <2>3, <1>7
      <3> QED  BY <1>4, <2>1, <2>3, <3>1
    <2> QED  BY <2>2, <2>3
  <1>9. RemoveAt(q, i) = r
    BY <1>1, <1>2, <1>5, Zenon DEF RemoveAt
  <1> QED  BY <1>6, <1>7, <1>8, <1>9

LEMMA RemainingFacts ==
  ASSUME order \in Seq(Client), IsInjective(order), NEW c \in Client
  PROVE  /\ Remaining(c) \in Seq(Client) /\ IsInjective(Remaining(c))
         /\ Range(Remaining(c)) \subseteq Registered \ {c}
  <1>1. CASE c \notin Registered
    BY <1>1 DEF Remaining, Registered
  <1>2. CASE c \in Registered
    <2>1. PICK i : i = CHOOSE j \in DOMAIN order : order[j] = c
      OBVIOUS
    <2>2. i \in 1 .. Len(order) /\ order[i] = c
      BY <1>2, <2>1 DEF Registered, Range
    <2>3. PICK r : r = Remaining(c)
      OBVIOUS
    <2>4. r = RemoveAt(order, i)
      BY <1>2, <2>1, <2>3, Zenon DEF Remaining
    <2>5. /\ r \in Seq(Client) /\ Len(r) = Len(order) - 1
          /\ \A j \in 1 .. Len(order) - 1 : r[j] = IF j < i THEN order[j] ELSE order[j + 1]
      BY <2>2, <2>4, RemoveAtFacts
    <2>6. Len(order) \in Nat
      OBVIOUS
    <2>7. \A a \in 1 .. Len(order) : \A b \in 1 .. Len(order) : order[a] = order[b] => a = b
      BY DEF IsInjective
    <2>8. DOMAIN r = 1 .. Len(order) - 1
      BY <2>5
    <2>9. \A j \in DOMAIN r :
            \E a \in 1 .. Len(order) : /\ r[j] = order[a] /\ a # i
                                     /\ a = IF j < i THEN j ELSE j + 1
      BY <2>2, <2>5, <2>6, <2>8
    <2>10. IsInjective(r)
      <3>1. SUFFICES ASSUME NEW a \in DOMAIN r, NEW b \in DOMAIN r, r[a] = r[b]  PROVE a = b
        BY DEF IsInjective
      <3> QED  BY <2>2, <2>6, <2>7, <2>8, <2>9, <3>1
    <2>11. \A j \in DOMAIN r : r[j] # c /\ r[j] \in Registered
      BY <2>2, <2>7, <2>9 DEF Registered, Range
    <2> QED  BY <2>3, <2>5, <2>10, <2>11 DEF Range
  <1> QED  BY <1>1, <1>2

(* A sequence of entities, one for each client at most, is a view.         *)
LEMMA SequenceIsView ==
  ASSUME NEW s \in Seq(Entity), Len(s) <= Cardinality(Client)
  PROVE  s \in View
  <1>1. s \in [1 .. Len(s) -> Entity] /\ Len(s) \in Nat
    OBVIOUS
  <1>2. 1 .. Len(s) \subseteq Ids
    BY <1>1, Constants DEF Ids
  <1> QED  BY <1>1, <1>2 DEF View

LEMMA ViewFacts ==
  ASSUME NEW v \in View
  PROVE  DOMAIN v \subseteq Ids /\ v \in [DOMAIN v -> Entity]
  BY DEF View

(* Whatever message a client is handed, it then holds entities or nothing. *)
LEMMA AppliedType ==
  ASSUME NEW old \in Snapshot \cup {None}, NEW m \in Message
  PROVE  Applied(old, m) \in Snapshot \cup {None}
  <1>1. m.tick \in 0 .. MaxCalls /\ m.ents \in View
    BY DEF Message
  <1>2. CASE m.kind = "full"
    BY <1>1, <1>2 DEF Applied, Snapshot
  <1>3. CASE m.kind # "full" /\ ~Applies(old, m)
    BY <1>3 DEF Applied
  <1>4. CASE m.kind # "full" /\ Applies(old, m)
    <2> DEFINE ids == DOMAIN old.ents \cup DOMAIN m.ents
               e == [i \in ids |-> IF i \in DOMAIN m.ents THEN m.ents[i] ELSE old.ents[i]]
    <2>1. old.ents \in View
      BY <1>4 DEF Applies, Snapshot
    <2>2. /\ DOMAIN old.ents \subseteq Ids /\ old.ents \in [DOMAIN old.ents -> Entity]
          /\ DOMAIN m.ents \subseteq Ids /\ m.ents \in [DOMAIN m.ents -> Entity]
      BY <1>1, <2>1, ViewFacts
    <2>3. ids \in SUBSET Ids /\ e \in [ids -> Entity]
      BY <2>2
    <2>4. e \in View
      BY <2>3 DEF View
    <2>5. Applied(old, m) = [tick |-> m.tick, ents |-> e]
      BY <1>4 DEF Applied
    <2> QED  BY <1>1, <2>4, <2>5 DEF Snapshot
  <1> QED  BY <1>2, <1>3, <1>4

(* A delta against the snapshot a client holds makes of it the new one     *)
(* (delta_entities and apply_delta_snapshot).                              *)
LEMMA DeltaRebuilds ==
  ASSUME NEW old \in Snapshot, old.ents \in Seq(Entity), NEW cur \in Seq(Entity),
         Comparable(old.ents, cur), NEW t,
         NEW m, m = [kind |-> "delta", tick |-> t, ents |-> Delta(old.ents, cur), base |-> BaseOf(old)]
  PROVE  Applied(old, m) = [tick |-> t, ents |-> cur]
  <1> DEFINE d == Delta(old.ents, cur)
             ids == DOMAIN old.ents \cup DOMAIN d
             e == [i \in ids |-> IF i \in DOMAIN d THEN d[i] ELSE old.ents[i]]
  <1>1. DOMAIN old.ents = DOMAIN cur
    BY DEF Comparable
  <1>2. DOMAIN d = {i \in DOMAIN cur : old.ents[i] # cur[i]} /\ \A i \in DOMAIN d : d[i] = cur[i]
    BY DEF Delta
  <1>3. m.kind = "delta" /\ m.tick = t /\ m.ents = d /\ m.base = BaseOf(old)
    OBVIOUS
  <1>4. Applies(old, m)
    BY <1>3, Conversions DEF Applies, BaseOf
  <1>5. Applied(old, m) = [tick |-> t, ents |-> e]
    BY <1>3, <1>4 DEF Applied
  <1> HIDE DEF d
  <1>6. ids = DOMAIN cur /\ \A i \in ids : e[i] = cur[i]
    BY <1>1, <1>2
  <1>7. e = cur
    <2>1. cur = [i \in DOMAIN cur |-> cur[i]]
      OBVIOUS
    <2> QED  BY <1>6, <2>1
  <1> QED  BY <1>5, <1>7

-----------------------------------------------------------------------------
(* The types.                                                              *)

LEMMA InitType == Init => TypeOK
  <1> SUFFICES ASSUME Init  PROVE TypeOK
    OBVIOUS
  <1>1. Resting \in [pos : 0 .. 0, vel : Moves]
    BY DEF Resting, Moves
  <1>2. order \in Seq(Client) /\ IsInjective(order)
    BY DEF Init, IsInjective
  <1>3. /\ config \in Configs /\ tick = 0 /\ calls = 0 /\ lost = 0 /\ failures = 0
        /\ polled = FALSE /\ built = {}
    BY DEF Init
  <1>4. ent \in [Client -> [pos : 0 .. calls, vel : Moves]]
    BY <1>1, <1>3 DEF Init
  <1>5. /\ input \in [Client -> Moves \cup {None}] /\ offered \in [Client -> Input \cup {None}]
        /\ phase \in [Client -> {"new", "on", "gone"}]
        /\ lastSnap \in [Client -> built \cup {None}] /\ snap \in [Client -> Snapshot \cup {None}]
        /\ newest \in [Client -> 0 .. MaxCalls \cup {None}]
    BY DEF Init
  <1>6. /\ lastSeq \in [Client -> 0 .. MaxInputs] /\ nextSeq \in [Client -> 0 .. MaxInputs]
        /\ ctlGot \in [Client -> 0 .. 2]
    BY Constants DEF Init
  <1>7. up \in [Client -> Seq(Packet)] /\ down \in [Client -> Seq(Message)]
    BY DEF Init
  <1>8. /\ tick \in 0 .. calls /\ calls \in 0 .. MaxCalls /\ lost \in 0 .. MaxLost
        /\ failures \in 0 .. MaxFailures
    BY <1>3, Constants
  <1> QED  BY <1>2, <1>3, <1>4, <1>5, <1>6, <1>7, <1>8 DEF TypeOK

LEMMA SendUpType ==
  ASSUME TypeOK, NEW c \in Client, NEW ctl \in 1 .. 2, NEW in \in Input \cup {None},
         SendUp(c, ctl, in)
  PROVE  up' \in [Client -> Seq(Packet)]
  <1>1. [ctl |-> ctl, in |-> in] \in Packet
    BY DEF Packet
  <1>2. up \in [Client -> Seq(Packet)]
    BY DEF TypeOK
  <1> QED  BY <1>1, <1>2 DEF SendUp

(* A client's call changes its own phase, its counter, or what it sends.   *)
LEMMA ClientCallType ==
  ASSUME TypeOK, NEW c \in Client,
         Connect(c) \/ SendInput(c) \/ Disconnect(c) \/ Crash(c) \/ RepeatConnect(c)
  PROVE  TypeOK'
  <1>1. UNCHANGED <<config, tick, calls, lost, polled, order, ent, input, offered, lastSeq,
                    ctlGot, down, built, lastSnap, snap, newest>>
    BY DEF Connect, SendInput, Disconnect, Crash, RepeatConnect, serverVars, gameVars, clientVars
  <1>2. up' \in [Client -> Seq(Packet)]
    <2>1. CASE SendInput(c)
      <3>1. PICK m \in Moves : SendUp(c, 1, [seq |-> nextSeq[c], move |-> m])
        BY <2>1 DEF SendInput
      <3>2. [seq |-> nextSeq[c], move |-> m] \in Input
        BY <2>1, Constants DEF SendInput, Input, TypeOK
      <3> QED  BY <3>1, <3>2, SendUpType
    <2>2. CASE Crash(c)
      BY <2>2 DEF Crash, TypeOK
    <2> QED  BY <2>1, <2>2, SendUpType DEF Connect, Disconnect, RepeatConnect
  <1>3. phase' \in [Client -> {"new", "on", "gone"}]
    BY DEF Connect, SendInput, Disconnect, Crash, RepeatConnect, clientVars, TypeOK
  <1>4. nextSeq' \in [Client -> 0 .. MaxInputs]
    <2>1. nextSeq \in [Client -> 0 .. MaxInputs] /\ nextSeq[c] \in 0 .. MaxInputs
      BY DEF TypeOK
    <2>2. CASE SendInput(c)
      <3>1. nextSeq[c] + 1 \in 0 .. MaxInputs
        BY <2>1, <2>2, Constants DEF SendInput
      <3> QED  BY <2>1, <2>2, <3>1 DEF SendInput
    <2> QED  BY <2>1, <2>2 DEF Connect, Disconnect, Crash, RepeatConnect, clientVars
  <1>5. failures' \in 0 .. MaxFailures
    BY Constants DEF Connect, SendInput, Disconnect, Crash, RepeatConnect, TypeOK
  <1> QED  BY <1>1, <1>2, <1>3, <1>4, <1>5 DEF TypeOK

LEMMA ClientPollType ==
  ASSUME TypeOK, NEW c \in Client, ClientPoll(c)
  PROVE  TypeOK'
  <1>1. UNCHANGED <<config, tick, calls, lost, failures, polled, order, ent, input, offered,
                    lastSeq, nextSeq, phase, ctlGot, up, built, lastSnap>>
    BY DEF ClientPoll, serverVars, gameVars
  <1>2. down[c] \in Seq(Message) /\ down[c] # <<>>
    BY DEF ClientPoll, TypeOK
  <1>3. Head(down[c]) \in Message /\ Tail(down[c]) \in Seq(Message)
    BY <1>2
  <1>4. snap' \in [Client -> Snapshot \cup {None}]
    BY <1>3, AppliedType DEF ClientPoll, TypeOK
  <1>5. newest' \in [Client -> 0 .. MaxCalls \cup {None}]
    BY <1>3 DEF ClientPoll, TypeOK, Message
  <1>6. down' \in [Client -> Seq(Message)]
    BY <1>3 DEF ClientPoll, TypeOK
  <1> QED  BY <1>1, <1>4, <1>5, <1>6 DEF TypeOK

LEMMA LoseType ==
  ASSUME TypeOK, NEW c \in Client, Lose(c)
  PROVE  TypeOK'
  <1>1. UNCHANGED <<config, tick, calls, failures, polled, order, ent, input, offered, lastSeq,
                    nextSeq, phase, ctlGot, built, lastSnap, snap, newest>>
    BY DEF Lose, serverVars, gameVars, clientVars
  <1>2. lost' \in 0 .. MaxLost
    BY Constants DEF Lose, TypeOK
  <1>3. up \in [Client -> Seq(Packet)] /\ down \in [Client -> Seq(Message)]
    BY DEF TypeOK
  <1>4. ctlGot' = ctlGot
    BY DEF Lose
  <1>5. CASE up[c] # <<>> /\ up' = [up EXCEPT ![c] = Tail(@)] /\ UNCHANGED down
    <2>1. Tail(up[c]) \in Seq(Packet)
      BY <1>3, <1>5
    <2>2. up' \in [Client -> Seq(Packet)] /\ down' \in [Client -> Seq(Message)]
      BY <1>3, <1>5, <2>1
    <2> QED  BY <1>1, <1>2, <1>4, <2>2 DEF TypeOK
  <1>6. CASE down[c] # <<>> /\ down' = [down EXCEPT ![c] = Tail(@)] /\ UNCHANGED up
    <2>1. Tail(down[c]) \in Seq(Message)
      BY <1>3, <1>6
    <2>2. up' \in [Client -> Seq(Packet)] /\ down' \in [Client -> Seq(Message)]
      BY <1>3, <1>6, <2>1
    <2> QED  BY <1>1, <1>2, <1>4, <2>2 DEF TypeOK
  <1> QED  BY <1>5, <1>6 DEF Lose

LEMMA TakePacketType ==
  ASSUME TypeOK, NEW c \in Client, TakePacket(c)
  PROVE  /\ up' \in [Client -> Seq(Packet)] /\ ctlGot' \in [Client -> 0 .. 2]
         /\ Head(up[c]) \in Packet
         /\ UNCHANGED <<down, lost>>
  <1>1. up[c] \in Seq(Packet) /\ up[c] # <<>>
    BY DEF TakePacket, TypeOK
  <1>2. Head(up[c]) \in Packet /\ Tail(up[c]) \in Seq(Packet)
    BY <1>1
  <1>3. Head(up[c]).ctl \in 1 .. 2
    BY <1>2 DEF Packet
  <1>4. up' \in [Client -> Seq(Packet)]
    BY <1>2 DEF TakePacket, TypeOK
  <1>5. ctlGot' \in [Client -> 0 .. 2]
    BY <1>3 DEF TakePacket, TypeOK
  <1> QED  BY <1>2, <1>4, <1>5 DEF TakePacket

LEMMA PollFailsType ==
  ASSUME TypeOK, NEW c \in Client, PollFails(c)
  PROVE  TypeOK'
  <1>1. UNCHANGED <<config, tick, calls, polled, order, ent, input, offered, lastSeq,
                    nextSeq, phase, built, lastSnap, snap, newest>>
    BY DEF PollFails, serverVars, gameVars, clientVars
  <1>2. failures' \in 0 .. MaxFailures
    BY Constants DEF PollFails, TypeOK
  <1>3. TakePacket(c)
    BY DEF PollFails
  <1> QED  BY <1>1, <1>2, <1>3, TakePacketType DEF TypeOK

-----------------------------------------------------------------------------
(* What the events of a packet do to the server.                           *)
LEMMA ReceiveOrder ==
  ASSUME TypeOK, NEW c \in Client, ServerReceive(c)
  PROVE  /\ order' \in Seq(Client) /\ IsInjective(order')
         /\ Registered' \subseteq Registered \cup {c}
         /\ ctlGot[c] < 2 /\ Head(up[c]).ctl = 2 => c \notin Registered'
         /\ ent' \in [Client -> [pos : 0 .. calls, vel : Moves]]
         /\ lastSnap' \in [Client -> built \cup {None}]
         /\ \A d \in Client : lastSnap'[d] \in {lastSnap[d], None}
  <1> DEFINE p == Head(up[c])
             connects == ctlGot[c] < 1 /\ p.ctl >= 1
             leaves == ctlGot[c] < 2 /\ p.ctl = 2
             known == c \in Registered
             joins == ~known /\ (connects \/ p.in # None)
  <1>1. order \in Seq(Client) /\ IsInjective(order) /\ Registered \subseteq Client
    BY DEF TypeOK, Registered, Range
  <1>2. Registered' = Range(order')
    BY DEF Registered
  <1>3. /\ ent \in [Client -> [pos : 0 .. calls, vel : Moves]]
        /\ lastSnap \in [Client -> built \cup {None}]
        /\ calls \in Nat
    BY Constants DEF TypeOK
  <1>4. CASE joins /\ ~leaves
    <2>1. Register(c)
      BY <1>4 DEF ServerReceive
    <2>2. order' \in SetToSeqs(Registered \cup {c})
      BY <2>1 DEF Register
    <2>3. Registered \cup {c} \in SUBSET Client
      BY <1>1
    <2>4. order' \in Seq(Client) /\ IsInjective(order') /\ Range(order') \subseteq Registered \cup {c}
      BY <2>2, <2>3, SetToSeqsFacts
    <2>5. Resting \in [pos : 0 .. calls, vel : Moves]
      BY <1>3 DEF Resting, Moves
    <2> QED  BY <1>2, <1>3, <1>4, <2>1, <2>4, <2>5 DEF Register
  <1>5. CASE joins /\ leaves
    <2>1. order' \in SetToSeqs(Registered) /\ UNCHANGED <<ent, lastSnap>>
      BY <1>5 DEF ServerReceive
    <2>2. Registered \in SUBSET Client
      BY <1>1
    <2>3. order' \in Seq(Client) /\ IsInjective(order') /\ Range(order') \subseteq Registered
      BY <2>1, <2>2, SetToSeqsFacts
    <2> QED  BY <1>2, <1>3, <1>5, <2>1, <2>3
  <1>6. CASE ~joins
    <2>1. order' = (IF leaves THEN Remaining(c) ELSE order) /\ UNCHANGED <<ent, lastSnap>>
      BY <1>6 DEF ServerReceive
    <2>2. /\ Remaining(c) \in Seq(Client) /\ IsInjective(Remaining(c))
          /\ Range(Remaining(c)) \subseteq Registered \ {c}
      BY <1>1, RemainingFacts
    <2>3. CASE leaves
      BY <1>2, <1>3, <2>1, <2>2, <2>3
    <2>4. CASE ~leaves
      BY <1>1, <1>2, <1>3, <2>1, <2>4 DEF Registered
    <2> QED  BY <2>3, <2>4
  <1> QED  BY <1>4, <1>5, <1>6

(* A client that is known, or that the packet makes known, has the input   *)
(* of the packet if there is one, for its number is not below the last.    *)
LEMMA ReceiveInput ==
  ASSUME TypeOK, NEW c \in Client, ServerReceive(c)
  PROVE  LET p == Head(up[c])
             known == c \in Registered
             last == IF known THEN lastSeq[c] ELSE 0
             takes == p.in # None /\ Accepts(p.in.seq, last)
         IN /\ p \in Packet
            /\ lastSeq' = [lastSeq EXCEPT ![c] = IF takes THEN p.in.seq ELSE last]
            /\ input' = [input EXCEPT ![c] = IF takes THEN p.in.move
                                             ELSE IF known THEN input[c] ELSE None]
            /\ offered' = [offered EXCEPT ![c] = IF p.in # None THEN p.in
                                                 ELSE IF known THEN offered[c] ELSE None]
            /\ lastSeq' \in [Client -> 0 .. MaxInputs]
            /\ input' \in [Client -> Moves \cup {None}]
            /\ offered' \in [Client -> Input \cup {None}]
  <1> DEFINE p == Head(up[c])
             known == c \in Registered
             last == IF known THEN lastSeq[c] ELSE 0
             takes == p.in # None /\ Accepts(p.in.seq, last)
  <1>1. p \in Packet
    BY TakePacketType DEF ServerReceive
  <1>2. /\ lastSeq' = [lastSeq EXCEPT ![c] = IF takes THEN p.in.seq ELSE last]
        /\ input' = [input EXCEPT ![c] = IF takes THEN p.in.move
                                         ELSE IF known THEN input[c] ELSE None]
        /\ offered' = [offered EXCEPT ![c] = IF p.in # None THEN p.in
                                             ELSE IF known THEN offered[c] ELSE None]
    BY DEF ServerReceive, TypeOK
  <1>3. /\ lastSeq \in [Client -> 0 .. MaxInputs] /\ input \in [Client -> Moves \cup {None}]
        /\ offered \in [Client -> Input \cup {None}]
    BY DEF TypeOK
  <1>4. p.in # None => p.in \in Input /\ p.in.seq \in 0 .. MaxInputs /\ p.in.move \in Moves
    BY <1>1, Constants DEF Packet, Input
  <1>5. last \in 0 .. MaxInputs
    BY <1>3, Constants
  <1> HIDE DEF p, known, last
  <1>6. (IF takes THEN p.in.seq ELSE last) \in 0 .. MaxInputs
    BY <1>4, <1>5
  <1>7. (IF takes THEN p.in.move ELSE IF known THEN input[c] ELSE None) \in Moves \cup {None}
    BY <1>3, <1>4
  <1>8. (IF p.in # None THEN p.in ELSE IF known THEN offered[c] ELSE None) \in Input \cup {None}
    BY <1>3, <1>4
  <1> HIDE DEF takes
  <1>9. /\ lastSeq' \in [Client -> 0 .. MaxInputs]
        /\ input' \in [Client -> Moves \cup {None}]
        /\ offered' \in [Client -> Input \cup {None}]
    BY <1>2, <1>3, <1>6, <1>7, <1>8
  <1> QED  BY <1>1, <1>2, <1>9 DEF p, known, last, takes

LEMMA ServerReceiveType ==
  ASSUME TypeOK, NEW c \in Client, ServerReceive(c)
  PROVE  TypeOK'
  <1>1. UNCHANGED <<config, tick, calls, failures, nextSeq, phase, built, snap, newest>> /\ polled' = TRUE
    BY DEF ServerReceive, clientVars
  <1>2. /\ up' \in [Client -> Seq(Packet)] /\ ctlGot' \in [Client -> 0 .. 2]
        /\ UNCHANGED <<down, lost>>
    BY TakePacketType DEF ServerReceive
  <1>3. /\ lastSeq' \in [Client -> 0 .. MaxInputs] /\ input' \in [Client -> Moves \cup {None}]
        /\ offered' \in [Client -> Input \cup {None}]
    BY ReceiveInput
  <1>4. /\ order' \in Seq(Client) /\ IsInjective(order')
        /\ ent' \in [Client -> [pos : 0 .. calls, vel : Moves]]
        /\ lastSnap' \in [Client -> built \cup {None}]
    BY ReceiveOrder
  <1> QED  BY <1>1, <1>2, <1>3, <1>4 DEF TypeOK

-----------------------------------------------------------------------------
(* A call of Server::tick past its poll.                                   *)
LEMMA PassPollFacts ==
  ASSUME TypeOK, PassPoll
  PROVE  /\ ent' \in [Client -> [pos : 0 .. calls', vel : Moves]]
         /\ calls' = calls + 1 /\ calls \in Nat /\ calls' \in 0 .. MaxCalls /\ polled' = FALSE
         /\ tick \in 0 .. calls
         /\ Entities \in Seq(Entity) /\ Len(Entities) = Len(order) /\ Entities \in View
         /\ UNCHANGED <<config, order, input, lastSeq, offered, phase, nextSeq, snap, newest,
                        up, ctlGot, lost>>
  <1>1. /\ calls \in Nat /\ calls' = calls + 1 /\ calls' \in 0 .. MaxCalls /\ polled' = FALSE
        /\ tick \in 0 .. calls
    BY Constants DEF PassPoll, TypeOK
  <1>2. UNCHANGED <<config, order, input, lastSeq, offered, phase, nextSeq, snap, newest,
                    up, ctlGot, lost>>
    BY DEF PassPoll, clientVars
  <1>3. ASSUME NEW c \in Client
        PROVE  Moved(ent[c], input[c]) \in [pos : 0 .. calls + 1, vel : Moves]
    <2>1. ent[c] \in [pos : 0 .. calls, vel : Moves] /\ input[c] \in Moves \cup {None}
      BY DEF TypeOK
    <2>2. ent[c].pos \in 0 .. calls /\ ent[c].vel \in Moves
      BY <2>1
    <2> DEFINE v == IF input[c] = None THEN ent[c].vel ELSE input[c]
    <2>3. v \in Moves
      BY <2>1, <2>2
    <2>4. Moved(ent[c], input[c]) = [pos |-> ent[c].pos + v, vel |-> v]
      BY DEF Moved
    <2> HIDE DEF v
    <2>5. ent[c].pos + v \in 0 .. calls + 1
      BY <1>1, <2>2, <2>3 DEF Moves
    <2> QED  BY <2>3, <2>4, <2>5
  <1>4. ASSUME NEW c \in Client
        PROVE  ent[c] \in [pos : 0 .. calls + 1, vel : Moves]
    <2>1. ent[c] \in [pos : 0 .. calls, vel : Moves]
      BY DEF TypeOK
    <2>2. 0 .. calls \subseteq 0 .. calls + 1
      BY <1>1
    <2> QED  BY <2>1, <2>2
  <1>5. ent' = [c \in Client |-> IF c \in Registered THEN Moved(ent[c], input[c]) ELSE ent[c]]
    BY DEF PassPoll, Move
  <1>6. ent' \in [Client -> [pos : 0 .. calls', vel : Moves]]
    BY <1>1, <1>3, <1>4, <1>5
  <1>7. ent' \in [Client -> Entity]
    <2>1. 0 .. calls' \subseteq 0 .. MaxCalls
      BY <1>1, Constants
    <2>2. [pos : 0 .. calls', vel : Moves] \subseteq Entity
      BY <2>1 DEF Entity
    <2> QED  BY <1>6, <2>2
  <1>8. order \in Seq(Client) /\ IsInjective(order)
    BY DEF TypeOK
  <1>9. /\ Len(order) \in Nat /\ Len(order) <= Cardinality(Client)
        /\ DOMAIN order = 1 .. Len(order)
    BY <1>8, OrderBounded
  <1>10. Entities \in [1 .. Len(order) -> Entity]
    BY <1>7, <1>8, <1>9 DEF Entities
  <1>11. Entities \in Seq(Entity) /\ Len(Entities) = Len(order)
    BY <1>9, <1>10
  <1>12. Entities \in View
    BY <1>9, <1>11, SequenceIsView
  <1> QED  BY <1>1, <1>2, <1>6, <1>11, <1>12

LEMMA QuietTickType ==
  ASSUME TypeOK, QuietTick \/ RefusedTick
  PROVE  TypeOK'
  <1>1. PassPoll /\ tick' \in {tick, tick + 1} /\ UNCHANGED <<lastSnap, built, down, failures>>
    BY DEF QuietTick, RefusedTick
  <1>2. tick' \in 0 .. calls' /\ tick <= tick' /\ tick \in Nat /\ tick' \in Nat
    BY <1>1, PassPollFacts
  <1>3. \A b \in built : b.ents \in Seq(Entity) /\ b.tick <= tick'
    <2>1. \A b \in built : b.ents \in Seq(Entity) /\ b.tick \in Nat /\ b.tick <= tick
      BY Conversions DEF TypeOK
    <2> QED  BY <1>2, <2>1
  <1> QED  BY <1>1, <1>2, <1>3, PassPollFacts DEF TypeOK

(* The snapshot of this tick is built, and remembered for each client.     *)
LEMMA SnapshotsFacts ==
  ASSUME TypeOK, Snapshots, NEW s, s = [tick |-> tick, ents |-> Entities]
  PROVE  /\ s \in Snapshot /\ s.ents \in Seq(Entity) /\ s.tick = tick
         /\ built' = built \cup {s} /\ built' \subseteq Snapshot
         /\ \A c \in Client : lastSnap'[c] = IF c \in Registered THEN s ELSE lastSnap[c]
         /\ lastSnap' \in [Client -> built' \cup {None}]
         /\ \A c \in Client : MessageFor(c) \in Message /\ MessageFor(c).tick = tick
  <1>1. PassPoll /\ Entities \in Seq(Entity) /\ Entities \in View
    BY PassPollFacts DEF Snapshots
  <1>2. tick \in 0 .. MaxCalls
    BY Constants DEF TypeOK
  <1>3. s \in Snapshot /\ s.ents \in Seq(Entity) /\ s.tick = tick
    BY <1>1, <1>2 DEF Snapshot
  <1>4. built' = built \cup {s} /\ built' \subseteq Snapshot
    BY <1>3 DEF Snapshots, TypeOK
  <1>5. lastSnap' = [c \in Client |-> IF c \in Registered THEN s ELSE lastSnap[c]]
    BY DEF Snapshots
  <1>6. lastSnap' \in [Client -> built' \cup {None}]
    BY <1>4, <1>5 DEF TypeOK
  <1>7. ASSUME NEW c \in Client
        PROVE  MessageFor(c) \in Message /\ MessageFor(c).tick = tick
    <2> DEFINE old == lastSnap[c]
               full == old = None \/ tick - old.tick >= BASELINE_INTERVAL
                       \/ ~Comparable(old.ents, Entities)
    <2>1. CASE full
      <3>1. MessageFor(c) = [kind |-> "full", tick |-> tick, ents |-> Entities]
        BY <2>1 DEF MessageFor
      <3> QED  BY <1>1, <1>2, <3>1 DEF Message
    <2>2. CASE ~full
      <3>1. MessageFor(c) = [kind |-> "delta", tick |-> tick, ents |-> Delta(old.ents, Entities),
                             base |-> BaseOf(old)]
        BY <2>2 DEF MessageFor
      <3>2. old \in built /\ built \subseteq Snapshot
        BY <2>2 DEF TypeOK
      <3>3. BaseOf(old) \in 0 .. MaxCalls
        BY <3>2, Conversions DEF BaseOf
      <3>4. DOMAIN Entities \subseteq Ids /\ Entities \in [DOMAIN Entities -> Entity]
        BY <1>1, ViewFacts
      <3> DEFINE ch == {j \in DOMAIN Entities : old.ents[j] # Entities[j]}
      <3>5. ch \in SUBSET Ids /\ Delta(old.ents, Entities) \in [ch -> Entity]
        BY <3>4 DEF Delta
      <3>6. Delta(old.ents, Entities) \in View
        BY <3>5 DEF View
      <3> QED  BY <1>2, <3>1, <3>3, <3>6 DEF Message
    <2> QED  BY <2>1, <2>2
  <1> QED  BY <1>3, <1>4, <1>5, <1>6, <1>7

LEMMA SentFacts ==
  ASSUME TypeOK, Snapshots, NEW reached \in SUBSET Registered, Sent(reached)
  PROVE  /\ down' \in [Client -> Seq(Message)]
         /\ \A c \in Client : down'[c] = IF c \in reached THEN Append(down[c], MessageFor(c))
                                         ELSE down[c]
  <1>1. \A c \in Client : MessageFor(c) \in Message
    BY SnapshotsFacts
  <1>2. down \in [Client -> Seq(Message)]
    BY DEF TypeOK
  <1>3. down' = [c \in Client |-> IF c \in reached THEN Append(down[c], MessageFor(c)) ELSE down[c]]
    BY DEF Sent
  <1>4. \A c \in Client : Append(down[c], MessageFor(c)) \in Seq(Message)
    BY <1>1, <1>2
  <1> HIDE DEF Sent
  <1> QED  BY <1>2, <1>3, <1>4, Zenon

LEMMA SnapshotTickType ==
  ASSUME TypeOK, SnapshotTick \/ FlushFails
  PROVE  TypeOK'
  <1>1. PICK s : s = [tick |-> tick, ents |-> Entities]
    OBVIOUS
  <1>2. PICK reached \in SUBSET Registered : Snapshots /\ Sent(reached)
    BY DEF SnapshotTick, FlushFails
  <1>3. PassPoll /\ tick' \in {tick, tick + 1}
    BY DEF SnapshotTick, FlushFails, Snapshots
  <1>4. tick' \in 0 .. calls' /\ tick <= tick' /\ tick \in Nat /\ tick' \in Nat
    BY <1>3, PassPollFacts
  <1>5. failures' \in 0 .. MaxFailures
    BY Constants DEF SnapshotTick, FlushFails, TypeOK
  <1>6. /\ s \in Snapshot /\ s.ents \in Seq(Entity) /\ s.tick = tick
        /\ built' = built \cup {s} /\ built' \subseteq Snapshot
        /\ lastSnap' \in [Client -> built' \cup {None}]
    BY <1>1, <1>2, SnapshotsFacts
  <1>7. down' \in [Client -> Seq(Message)]
    BY <1>2, SentFacts
  <1>8. \A b \in built' : b.ents \in Seq(Entity) /\ b.tick <= tick'
    <2>1. \A b \in built : b.ents \in Seq(Entity) /\ b.tick \in Nat /\ b.tick <= tick
      BY Conversions DEF TypeOK
    <2> QED  BY <1>4, <1>6, <2>1
  <1> QED  BY <1>3, <1>4, <1>5, <1>6, <1>7, <1>8, PassPollFacts DEF TypeOK

LEMMA StutterType ==
  ASSUME TypeOK, UNCHANGED vars
  PROVE  TypeOK'
  BY DEF TypeOK, vars, serverVars, gameVars, clientVars, linkVars

LEMMA TypeStep ==
  ASSUME TypeOK, [Next]_vars
  PROVE  TypeOK'
  BY ClientCallType, ClientPollType, LoseType, ServerReceiveType, PollFailsType, QuietTickType,
     SnapshotTickType, StutterType DEF Next

-----------------------------------------------------------------------------
(* Inputs.                                                                 *)

Rising(q, newestIn, n) ==
  /\ newestIn # None => newestIn.seq < n
  /\ \A i \in DOMAIN q : q[i].in # None =>
       /\ q[i].in.seq < n
       /\ newestIn # None => newestIn.seq < q[i].in.seq
       /\ \A j \in i + 1 .. Len(q) : q[j].in # None => q[i].in.seq < q[j].in.seq

LEMMA InputsRiseByClient ==
  InputsRise <=> \A c \in Client : Rising(up[c], offered[c], nextSeq[c])
  BY DEF InputsRise, Rising

LEMMA InputsRiseByClientPrime ==
  InputsRise' <=> \A c \in Client : Rising(up'[c], offered'[c], nextSeq'[c])
  BY DEF InputsRise, Rising

LEMMA AppendFacts ==
  ASSUME NEW S, NEW q \in Seq(S), NEW x \in S, NEW r, r = Append(q, x)
  PROVE  /\ r \in Seq(S) /\ Len(q) \in Nat /\ Len(r) = Len(q) + 1 /\ r # <<>>
         /\ DOMAIN q = 1 .. Len(q) /\ DOMAIN r = 1 .. Len(q) + 1
         /\ \A i \in 1 .. Len(q) : r[i] = q[i]
         /\ r[Len(q) + 1] = x
  OBVIOUS

LEMMA TailFacts ==
  ASSUME NEW S, NEW q \in Seq(S), q # <<>>, NEW r, r = Tail(q)
  PROVE  /\ r \in Seq(S) /\ Len(q) \in Nat \ {0} /\ Len(r) = Len(q) - 1 /\ Head(q) = q[1]
         /\ DOMAIN q = 1 .. Len(q) /\ DOMAIN r = 1 .. Len(q) - 1
         /\ \A i \in 1 .. Len(q) - 1 : r[i] = q[i + 1]
  OBVIOUS

LEMMA RisingAppend ==
  ASSUME NEW q \in Seq(Packet), NEW newestIn \in Input \cup {None}, NEW n \in Nat,
         Rising(q, newestIn, n), NEW p \in Packet
  PROVE  /\ p.in = None => Rising(Append(q, p), newestIn, n)
         /\ p.in # None /\ p.in.seq = n => Rising(Append(q, p), newestIn, n + 1)
  <1>1. PICK r : r = Append(q, p)
    OBVIOUS
  <1>2. /\ Len(q) \in Nat /\ Len(r) = Len(q) + 1
        /\ DOMAIN q = 1 .. Len(q) /\ DOMAIN r = 1 .. Len(q) + 1
        /\ \A i \in 1 .. Len(q) : r[i] = q[i]
        /\ r[Len(q) + 1] = p
    BY <1>1, AppendFacts
  <1>3. /\ newestIn # None => newestIn.seq \in Nat
        /\ \A i \in 1 .. Len(q) : q[i].in # None => q[i].in.seq \in Nat
    BY <1>2, Conversions
  <1>4. /\ newestIn # None => newestIn.seq < n
        /\ \A i \in 1 .. Len(q) : q[i].in # None =>
             /\ q[i].in.seq < n
             /\ newestIn # None => newestIn.seq < q[i].in.seq
             /\ \A j \in i + 1 .. Len(q) : q[j].in # None => q[i].in.seq < q[j].in.seq
    BY <1>2 DEF Rising
  <1>5. ASSUME p.in = None  PROVE Rising(r, newestIn, n)
    BY <1>2, <1>4, <1>5 DEF Rising
  <1>6. ASSUME p.in # None, p.in.seq = n  PROVE Rising(r, newestIn, n + 1)
    <2>1. newestIn # None => newestIn.seq < n + 1
      BY <1>3, <1>4
    <2>2. ASSUME NEW i \in DOMAIN r, r[i].in # None
          PROVE  /\ r[i].in.seq < n + 1
                 /\ newestIn # None => newestIn.seq < r[i].in.seq
                 /\ \A j \in i + 1 .. Len(r) : r[j].in # None => r[i].in.seq < r[j].in.seq
      <3>1. CASE i = Len(q) + 1
        BY <1>2, <1>4, <1>6, <3>1
      <3>2. CASE i \in 1 .. Len(q)
        <4>1. r[i].in.seq < n /\ r[i].in.seq \in Nat
              /\ (newestIn # None => newestIn.seq < r[i].in.seq)
          BY <1>2, <1>3, <1>4, <2>2, <3>2
        <4>2. ASSUME NEW j \in i + 1 .. Len(r), r[j].in # None  PROVE r[i].in.seq < r[j].in.seq
          <5>1. CASE j = Len(q) + 1
            BY <1>2, <1>6, <4>1, <5>1
          <5>2. CASE j \in i + 1 .. Len(q)
            BY <1>2, <1>4, <2>2, <3>2, <4>2, <5>2
          <5> QED  BY <1>2, <3>2, <5>1, <5>2
        <4> QED  BY <4>1, <4>2
      <3> QED  BY <1>2, <3>1, <3>2
    <2> QED  BY <2>1, <2>2 DEF Rising
  <1> QED  BY <1>1, <1>5, <1>6

LEMMA RisingTail ==
  ASSUME NEW q \in Seq(Packet), q # <<>>, NEW newestIn, NEW n,
         Rising(q, newestIn, n)
  PROVE  /\ Rising(Tail(q), newestIn, n) /\ Rising(Tail(q), None, n)
         /\ Head(q).in # None => Rising(Tail(q), Head(q).in, n)
  <1>1. PICK r : r = Tail(q)
    OBVIOUS
  <1>2. /\ Len(q) \in Nat \ {0} /\ Len(r) = Len(q) - 1 /\ Head(q) = q[1]
        /\ DOMAIN q = 1 .. Len(q) /\ DOMAIN r = 1 .. Len(q) - 1
        /\ \A i \in 1 .. Len(q) - 1 : r[i] = q[i + 1]
    BY <1>1, TailFacts
  <1>3. /\ newestIn # None => newestIn.seq < n
        /\ \A i \in 1 .. Len(q) : q[i].in # None =>
             /\ q[i].in.seq < n
             /\ newestIn # None => newestIn.seq < q[i].in.seq
             /\ \A j \in i + 1 .. Len(q) : q[j].in # None => q[i].in.seq < q[j].in.seq
    BY <1>2 DEF Rising
  <1>4. ASSUME NEW i \in DOMAIN r, r[i].in # None
        PROVE  /\ r[i].in.seq < n
               /\ newestIn # None => newestIn.seq < r[i].in.seq
               /\ q[1].in # None => q[1].in.seq < r[i].in.seq
               /\ \A j \in i + 1 .. Len(r) : r[j].in # None => r[i].in.seq < r[j].in.seq
    <2>1. i \in 1 .. Len(q) - 1 /\ r[i] = q[i + 1] /\ i + 1 \in 1 .. Len(q) /\ 1 \in 1 .. Len(q)
          /\ i + 1 \in 1 + 1 .. Len(q)
      BY <1>2
    <2>2. r[i].in.seq < n /\ (newestIn # None => newestIn.seq < r[i].in.seq)
      BY <1>3, <1>4, <2>1
    <2>3. q[1].in # None => q[1].in.seq < r[i].in.seq
      BY <1>3, <1>4, <2>1
    <2>4. ASSUME NEW j \in i + 1 .. Len(r), r[j].in # None  PROVE r[i].in.seq < r[j].in.seq
      <3>1. r[j] = q[j + 1] /\ j + 1 \in (i + 1) + 1 .. Len(q)
        BY <1>2, <2>1
      <3> QED  BY <1>3, <1>4, <2>1, <2>4, <3>1
    <2> QED  BY <2>2, <2>3, <2>4
  <1>5. q[1].in # None => q[1].in.seq < n
    BY <1>2, <1>3
  <1>6. Rising(r, newestIn, n) /\ Rising(r, None, n)
    BY <1>3, <1>4 DEF Rising
  <1>7. ASSUME q[1].in # None  PROVE Rising(r, q[1].in, n)
    BY <1>4, <1>5, <1>7 DEF Rising
  <1> QED  BY <1>1, <1>2, <1>6, <1>7

(* One packet more at the end of a link, or one less at its head.          *)
LEMMA SendUpFacts ==
  ASSUME TypeOK, NEW c \in Client, NEW ctl \in 1 .. 2, NEW in \in Input \cup {None},
         SendUp(c, ctl, in)
  PROVE  \E p \in Packet :
           /\ p.in = in /\ p.ctl = ctl
           /\ up[c] \in Seq(Packet)
           /\ \A d \in Client : up'[d] = IF d = c THEN Append(up[c], p) ELSE up[d]
  <1>1. PICK p : p = [ctl |-> ctl, in |-> in]
    OBVIOUS
  <1>2. p \in Packet /\ p.in = in /\ p.ctl = ctl
    BY <1>1 DEF Packet
  <1>3. /\ up[c] \in Seq(Packet)
        /\ \A d \in Client : up'[d] = IF d = c THEN Append(up[c], p) ELSE up[d]
    BY <1>1 DEF TypeOK, SendUp
  <1> QED  BY <1>2, <1>3

LEMMA TakeFacts ==
  ASSUME TypeOK, NEW c \in Client, up[c] # <<>>, up' = [up EXCEPT ![c] = Tail(@)]
  PROVE  /\ up[c] \in Seq(Packet)
         /\ \A d \in Client : up'[d] = IF d = c THEN Tail(up[c]) ELSE up[d]
  BY DEF TypeOK

LEMMA InputsRiseStep ==
  ASSUME TypeOK, InputsRise, [Next]_vars
  PROVE  InputsRise'
  <1>0. \A d \in Client : /\ Rising(up[d], offered[d], nextSeq[d])
                          /\ offered[d] \in Input \cup {None} /\ nextSeq[d] \in Nat
    BY InputsRiseByClient, Constants DEF TypeOK
  <1>1. ASSUME NEW c \in Client, Connect(c) \/ Disconnect(c) \/ RepeatConnect(c)
        PROVE  InputsRise'
    <2>1. UNCHANGED <<offered, nextSeq>>
      BY <1>1 DEF Connect, Disconnect, RepeatConnect, serverVars, gameVars, clientVars
    <2>2. PICK ctl \in 1 .. 2 : SendUp(c, ctl, None)
      BY <1>1 DEF Connect, Disconnect, RepeatConnect
    <2>3. PICK p \in Packet : /\ p.in = None /\ up[c] \in Seq(Packet)
                              /\ \A d \in Client : up'[d] = IF d = c THEN Append(up[c], p) ELSE up[d]
      BY <2>2, SendUpFacts
    <2>4. Rising(Append(up[c], p), offered[c], nextSeq[c])
      BY <1>0, <2>3, RisingAppend
    <2> QED  BY <1>0, <2>1, <2>3, <2>4, InputsRiseByClientPrime
  <1>2. ASSUME NEW c \in Client, SendInput(c)
        PROVE  InputsRise'
    <2>1. PICK m \in Moves : SendUp(c, 1, [seq |-> nextSeq[c], move |-> m])
      BY <1>2 DEF SendInput
    <2>2. /\ UNCHANGED offered
          /\ \A d \in Client : nextSeq'[d] = IF d = c THEN nextSeq[c] + 1 ELSE nextSeq[d]
      BY <1>2 DEF SendInput, serverVars, gameVars, TypeOK
    <2>3. [seq |-> nextSeq[c], move |-> m] \in Input
      BY <1>2, Constants DEF SendInput, Input, TypeOK
    <2>4. PICK p \in Packet : /\ p.in = [seq |-> nextSeq[c], move |-> m] /\ up[c] \in Seq(Packet)
                              /\ \A d \in Client : up'[d] = IF d = c THEN Append(up[c], p) ELSE up[d]
      BY <2>1, <2>3, SendUpFacts
    <2>5. p.in # None /\ p.in.seq = nextSeq[c]
      BY <2>3, <2>4, Constants
    <2>6. Rising(Append(up[c], p), offered[c], nextSeq[c] + 1)
      BY <1>0, <2>4, <2>5, RisingAppend
    <2> QED  BY <1>0, <2>2, <2>4, <2>6, InputsRiseByClientPrime
  <1>3. ASSUME NEW c \in Client, up[c] # <<>>, up' = [up EXCEPT ![c] = Tail(@)],
               UNCHANGED <<offered, nextSeq>>
        PROVE  InputsRise'
    <2>1. Rising(Tail(up[c]), offered[c], nextSeq[c])
      BY <1>0, <1>3, TakeFacts, RisingTail
    <2> QED  BY <1>0, <1>3, <2>1, TakeFacts, InputsRiseByClientPrime
  <1>4. ASSUME NEW c \in Client, ServerReceive(c)
        PROVE  InputsRise'
    <2>1. up[c] # <<>> /\ up' = [up EXCEPT ![c] = Tail(@)] /\ UNCHANGED nextSeq
      BY <1>4 DEF ServerReceive, TakePacket, clientVars
    <2>2. \A d \in Client : offered'[d] = IF d # c THEN offered[d]
                                          ELSE IF Head(up[c]).in # None THEN Head(up[c]).in
                                          ELSE IF c \in Registered THEN offered[c] ELSE None
      <3>1. offered' = [offered EXCEPT ![c] = IF Head(up[c]).in # None THEN Head(up[c]).in
                                              ELSE IF c \in Registered THEN offered[c] ELSE None]
        BY <1>4, ReceiveInput
      <3> QED  BY <3>1 DEF TypeOK
    <2>3. up[c] \in Seq(Packet) /\ \A d \in Client : up'[d] = IF d = c THEN Tail(up[c]) ELSE up[d]
      BY <2>1, TakeFacts
    <2>4. Rising(up'[c], offered'[c], nextSeq[c])
      <3>1. /\ Rising(Tail(up[c]), offered[c], nextSeq[c]) /\ Rising(Tail(up[c]), None, nextSeq[c])
            /\ Head(up[c]).in # None => Rising(Tail(up[c]), Head(up[c]).in, nextSeq[c])
        BY <1>0, <2>1, <2>3, RisingTail
      <3> QED  BY <2>2, <2>3, <3>1
    <2> QED  BY <1>0, <2>1, <2>2, <2>3, <2>4, InputsRiseByClientPrime
  <1>5. ASSUME UNCHANGED <<up, offered, nextSeq>>
        PROVE  InputsRise'
    BY <1>0, <1>5, InputsRiseByClientPrime
  <1>6. ASSUME NEW c \in Client, Lose(c) \/ PollFails(c) \/ Crash(c) \/ ClientPoll(c)
        PROVE  InputsRise'
    BY <1>3, <1>5, <1>6
       DEF Lose, PollFails, TakePacket, Crash, ClientPoll, serverVars, gameVars, clientVars
  <1>7. CASE QuietTick \/ RefusedTick \/ SnapshotTick \/ FlushFails
    BY <1>5, <1>7, PassPollFacts DEF QuietTick, RefusedTick, SnapshotTick, FlushFails, Snapshots
  <1>8. CASE UNCHANGED vars
    BY <1>5, <1>8 DEF vars, serverVars, gameVars, clientVars, linkVars
  <1> QED  BY <1>1, <1>2, <1>4, <1>6, <1>7, <1>8 DEF Next

LEMMA InputsApplyStep ==
  ASSUME TypeOK, InputsRise, NewestInputApplies, FirstInputAwaited, [Next]_vars
  PROVE  NewestInputApplies' /\ FirstInputAwaited'
  <1>1. ASSUME UNCHANGED <<order, offered, lastSeq, input>>
        PROVE  NewestInputApplies' /\ FirstInputAwaited'
    BY <1>1 DEF NewestInputApplies, FirstInputAwaited, Registered
  <1>2. ASSUME NEW c \in Client, ServerReceive(c)
        PROVE  NewestInputApplies' /\ FirstInputAwaited'
    <2> DEFINE known == c \in Registered
               last == IF known THEN lastSeq[c] ELSE 0
    <2>1. PICK p \in Packet : p = Head(up[c])
      BY <1>2, ReceiveInput
    <2>2. /\ lastSeq' = [lastSeq EXCEPT ![c] = IF p.in # None /\ Accepts(p.in.seq, last)
                                               THEN p.in.seq ELSE last]
          /\ input' = [input EXCEPT ![c] = IF p.in # None /\ Accepts(p.in.seq, last)
                                           THEN p.in.move ELSE IF known THEN input[c] ELSE None]
          /\ offered' = [offered EXCEPT ![c] = IF p.in # None THEN p.in
                                               ELSE IF known THEN offered[c] ELSE None]
      BY <1>2, <2>1, ReceiveInput
    <2>3. /\ lastSeq \in [Client -> 0 .. MaxInputs] /\ input \in [Client -> Moves \cup {None}]
          /\ offered \in [Client -> Input \cup {None}] /\ up[c] \in Seq(Packet) /\ up[c] # <<>>
      BY <1>2 DEF TypeOK, ServerReceive, TakePacket
    <2>4. Registered' \subseteq Registered \cup {c} /\ Registered \subseteq Client
      <3>1. Registered' \subseteq Registered \cup {c}
        BY <1>2, ReceiveOrder
      <3>2. Registered \subseteq Client
        BY DEF TypeOK, Registered, Range
      <3> QED  BY <3>1, <3>2
    <2>5. p.in # None => p.in \in Input /\ p.in.seq \in Nat
      BY <2>1, Conversions
    <2>6. p.in # None /\ offered[c] # None => offered[c].seq < p.in.seq
      <3>1. up[c][1] = p /\ 1 \in DOMAIN up[c]
        BY <2>1, <2>3, TailFacts
      <3> QED  BY <3>1 DEF InputsRise
    <2>7. p.in # None => Accepts(p.in.seq, last)
      <3>1. CASE ~known
        BY <2>5, <3>1 DEF Accepts, SeqMoreRecent
      <3>2. CASE known /\ offered[c] = None
        BY <2>5, <3>2 DEF Accepts, SeqMoreRecent, FirstInputAwaited
      <3>3. CASE known /\ offered[c] # None
        <4>1. last = offered[c].seq
          BY <3>3 DEF NewestInputApplies
        <4>2. offered[c].seq \in Nat
          BY <2>3, <3>3, Conversions
        <4> QED  BY <2>5, <2>6, <3>3, <4>1, <4>2 DEF Accepts, SeqMoreRecent
      <3> QED  BY <3>1, <3>2, <3>3
    <2>8. /\ lastSeq'[c] = IF p.in # None THEN p.in.seq ELSE last
          /\ input'[c] = IF p.in # None THEN p.in.move ELSE IF known THEN input[c] ELSE None
          /\ offered'[c] = IF p.in # None THEN p.in ELSE IF known THEN offered[c] ELSE None
      BY <2>2, <2>3, <2>7
    <2>9. \A d \in Client \ {c} :
            lastSeq'[d] = lastSeq[d] /\ input'[d] = input[d] /\ offered'[d] = offered[d]
      BY <2>2, <2>3
    <2>10. /\ offered'[c] # None => lastSeq'[c] = offered'[c].seq /\ input'[c] = offered'[c].move
           /\ offered'[c] = None => lastSeq'[c] = 0
      <3>1. CASE p.in # None
        BY <2>8, <3>1
      <3>2. CASE p.in = None /\ known
        BY <2>8, <3>2 DEF NewestInputApplies, FirstInputAwaited
      <3>3. CASE p.in = None /\ ~known
        BY <2>8, <3>3
      <3> QED  BY <3>1, <3>2, <3>3
    <2>11. ASSUME NEW d \in Registered'
           PROVE  /\ offered'[d] # None => lastSeq'[d] = offered'[d].seq /\ input'[d] = offered'[d].move
                  /\ offered'[d] = None => lastSeq'[d] = 0
      <3>1. CASE d = c
        BY <2>10, <3>1
      <3>2. CASE d # c
        <4>1. d \in Registered /\ d \in Client \ {c}
          BY <2>4, <3>2
        <4> QED  BY <2>9, <4>1 DEF NewestInputApplies, FirstInputAwaited
      <3> QED  BY <3>1, <3>2
    <2> QED  BY <2>11 DEF NewestInputApplies, FirstInputAwaited
  <1>3. ASSUME NEW c \in Client,
               \/ Connect(c) \/ SendInput(c) \/ Disconnect(c) \/ Crash(c) \/ RepeatConnect(c)
               \/ ClientPoll(c) \/ Lose(c) \/ PollFails(c)
        PROVE  NewestInputApplies' /\ FirstInputAwaited'
    BY <1>1, <1>3 DEF Connect, SendInput, Disconnect, Crash, RepeatConnect, ClientPoll, Lose,
                      PollFails, serverVars, gameVars
  <1>4. CASE QuietTick \/ RefusedTick \/ SnapshotTick \/ FlushFails
    BY <1>1, <1>4, PassPollFacts DEF QuietTick, RefusedTick, SnapshotTick, FlushFails, Snapshots
  <1>5. CASE UNCHANGED vars
    BY <1>1, <1>5 DEF vars, serverVars, gameVars
  <1> QED  BY <1>2, <1>3, <1>4, <1>5 DEF Next

-----------------------------------------------------------------------------
(* Departures, over a network that loses nothing.                          *)

Departing(q, ctl, gone) ==
  /\ ~gone \/ q # <<>> => ctl <= 1
  /\ \A i \in DOMAIN q : q[i].ctl = IF gone /\ i = Len(q) THEN 2 ELSE 1

LEMMA GoodbyeByClient ==
  GoodbyeLast <=>
    (lost = 0 /\ failures = 0 => \A c \in Client : Departing(up[c], ctlGot[c], phase[c] = "gone"))
  BY DEF GoodbyeLast, Departing

LEMMA GoodbyeByClientPrime ==
  GoodbyeLast' <=>
    (lost' = 0 /\ failures' = 0 => \A c \in Client : Departing(up'[c], ctlGot'[c], phase'[c] = "gone"))
  BY DEF GoodbyeLast, Departing

LEMMA DepartingAppend ==
  ASSUME NEW q \in Seq(Packet), NEW ctl \in 0 .. 2, Departing(q, ctl, FALSE), NEW p \in Packet
  PROVE  /\ p.ctl = 1 => Departing(Append(q, p), ctl, FALSE)
         /\ p.ctl = 2 => Departing(Append(q, p), ctl, TRUE)
  <1>1. PICK r : r = Append(q, p)
    OBVIOUS
  <1>2. /\ Len(q) \in Nat /\ Len(r) = Len(q) + 1
        /\ DOMAIN q = 1 .. Len(q) /\ DOMAIN r = 1 .. Len(q) + 1
        /\ \A i \in 1 .. Len(q) : r[i] = q[i]
        /\ r[Len(q) + 1] = p
    BY <1>1, AppendFacts
  <1>3. ctl <= 1 /\ \A i \in 1 .. Len(q) : q[i].ctl = 1
    BY <1>2 DEF Departing
  <1>4. ASSUME p.ctl = 1  PROVE Departing(r, ctl, FALSE)
    BY <1>2, <1>3, <1>4 DEF Departing
  <1>5. ASSUME p.ctl = 2  PROVE Departing(r, ctl, TRUE)
    BY <1>2, <1>3, <1>5 DEF Departing
  <1> QED  BY <1>1, <1>4, <1>5

(* The server takes the first packet of a client.                          *)
LEMMA DepartingTail ==
  ASSUME NEW q \in Seq(Packet), q # <<>>, NEW ctl \in 0 .. 2, NEW gone \in BOOLEAN,
         Departing(q, ctl, gone)
  PROVE  /\ Departing(Tail(q), IF Head(q).ctl > ctl THEN Head(q).ctl ELSE ctl, gone)
         /\ gone /\ Tail(q) = <<>> => Head(q).ctl = 2 /\ ctl < 2
  <1>1. PICK r : r = Tail(q)
    OBVIOUS
  <1>2. /\ Len(q) \in Nat \ {0} /\ Len(r) = Len(q) - 1 /\ Head(q) = q[1] /\ r \in Seq(Packet)
        /\ DOMAIN q = 1 .. Len(q) /\ DOMAIN r = 1 .. Len(q) - 1
        /\ \A i \in 1 .. Len(q) - 1 : r[i] = q[i + 1]
    BY <1>1, TailFacts
  <1>3. ctl <= 1 /\ \A i \in 1 .. Len(q) : q[i].ctl = IF gone /\ i = Len(q) THEN 2 ELSE 1
    BY <1>2 DEF Departing
  <1>4. \A i \in DOMAIN r : r[i].ctl = IF gone /\ i = Len(r) THEN 2 ELSE 1
    BY <1>2, <1>3
  <1>5. ~gone \/ r # <<>> => q[1].ctl = 1
    <2>1. r # <<>> => Len(q) # 1
      BY <1>2
    <2> QED  BY <1>2, <1>3, <2>1
  <1>6. gone /\ r = <<>> => q[1].ctl = 2 /\ ctl < 2
    <2>1. r = <<>> => Len(q) = 1
      BY <1>2
    <2> QED  BY <1>2, <1>3, <2>1
  <1>7. Departing(r, IF q[1].ctl > ctl THEN q[1].ctl ELSE ctl, gone)
    BY <1>3, <1>4, <1>5 DEF Departing
  <1> QED  BY <1>1, <1>2, <1>6, <1>7

LEMMA GoodbyeStep ==
  ASSUME TypeOK, GoodbyeLast, NoGhosts, [Next]_vars
  PROVE  GoodbyeLast' /\ NoGhosts'
  <1>0. /\ lost \in Nat /\ failures \in Nat /\ order \in Seq(Client) /\ IsInjective(order)
        /\ phase \in [Client -> {"new", "on", "gone"}]
        /\ \A d \in Client : up[d] \in Seq(Packet) /\ ctlGot[d] \in 0 .. 2
    BY Constants DEF TypeOK
  <1>1. ASSUME NEW c \in Client, Lose(c) \/ PollFails(c) \/ Crash(c)
        PROVE  GoodbyeLast' /\ NoGhosts'
    <2>1. ~(lost' = 0 /\ failures' = 0)
      <3>1. lost' = lost + 1 \/ failures' = failures + 1
        BY <1>1 DEF Lose, PollFails, Crash
      <3> QED  BY <1>0, <3>1
    <2> QED  BY <2>1 DEF GoodbyeLast, NoGhosts
  <1>2. ASSUME FlushFails
        PROVE  GoodbyeLast' /\ NoGhosts'
    <2>1. failures' = failures + 1
      BY <1>2 DEF FlushFails
    <2>2. failures' # 0
      BY <1>0, <2>1
    <2> QED  BY <2>2 DEF GoodbyeLast, NoGhosts
  <1>3. ASSUME UNCHANGED <<order, up, ctlGot, phase, lost, failures>>
        PROVE  GoodbyeLast' /\ NoGhosts'
    BY <1>3 DEF GoodbyeLast, NoGhosts, Registered
  <1>4. CASE QuietTick \/ RefusedTick \/ SnapshotTick
    BY <1>3, <1>4, PassPollFacts DEF QuietTick, RefusedTick, SnapshotTick, Snapshots
  <1>5. CASE UNCHANGED vars
    BY <1>3, <1>5 DEF vars, serverVars, gameVars, clientVars, linkVars
  <1>6. ASSUME NEW c \in Client, ClientPoll(c)
        PROVE  GoodbyeLast' /\ NoGhosts'
    BY <1>3, <1>6 DEF ClientPoll, serverVars, gameVars
  <1>7. ASSUME NEW c \in Client, NEW ctl \in 1 .. 2, NEW in \in Input \cup {None},
               SendUp(c, ctl, in), phase[c] # "gone",
               \A d \in Client : phase'[d] = "gone" <=> IF d = c THEN ctl = 2 ELSE phase[d] = "gone",
               UNCHANGED <<order, ctlGot, lost, failures>>
        PROVE  GoodbyeLast' /\ NoGhosts'
    <2>1. PICK p \in Packet : /\ p.ctl = ctl
                              /\ \A d \in Client : up'[d] = IF d = c THEN Append(up[c], p) ELSE up[d]
      BY <1>7, SendUpFacts
    <2>2. GoodbyeLast'
      <3>1. SUFFICES ASSUME lost = 0, failures = 0, NEW d \in Client
                     PROVE  Departing(up'[d], ctlGot'[d], phase'[d] = "gone")
        BY <1>7, GoodbyeByClientPrime
      <3>2. Departing(up[d], ctlGot[d], phase[d] = "gone")
        BY <3>1, GoodbyeByClient
      <3>3. CASE d # c
        BY <1>7, <2>1, <3>2, <3>3 DEF Departing
      <3>4. CASE d = c
        <4>1. Departing(up[c], ctlGot[c], FALSE)
          BY <1>7, <3>2, <3>4 DEF Departing
        <4>2. /\ ctl = 1 => Departing(Append(up[c], p), ctlGot[c], FALSE)
              /\ ctl = 2 => Departing(Append(up[c], p), ctlGot[c], TRUE)
          BY <1>0, <2>1, <4>1, DepartingAppend
        <4>3. CASE ctl = 1
          BY <1>7, <2>1, <3>4, <4>2, <4>3 DEF Departing
        <4>4. CASE ctl = 2
          BY <1>7, <2>1, <3>4, <4>2, <4>4 DEF Departing
        <4> QED  BY <4>3, <4>4
      <3> QED  BY <3>3, <3>4
    <2>3. NoGhosts'
      <3>1. Append(up[c], p) # <<>>
        <4>1. up[c] \in Seq(Packet)
          BY <1>0
        <4> QED  BY <4>1, AppendFacts
      <3> QED  BY <1>7, <2>1, <3>1 DEF NoGhosts, Registered
    <2> QED  BY <2>2, <2>3
  <1>8. ASSUME NEW c \in Client, Connect(c) \/ SendInput(c) \/ Disconnect(c) \/ RepeatConnect(c)
        PROVE  GoodbyeLast' /\ NoGhosts'
    <2>1. phase[c] # "gone" /\ UNCHANGED <<order, ctlGot, lost, failures>>
      BY <1>8 DEF Connect, SendInput, Disconnect, RepeatConnect, serverVars, gameVars
    <2>2. CASE Connect(c)
      <3>1. SendUp(c, 1, None) /\ phase' = [phase EXCEPT ![c] = "on"]
        BY <2>2 DEF Connect
      <3>2. \A d \in Client : phase'[d] = "gone" <=> IF d = c THEN 1 = 2 ELSE phase[d] = "gone"
        BY <1>0, <3>1
      <3> QED  BY <1>7, <2>1, <3>1, <3>2
    <2>3. CASE SendInput(c)
      <3>1. PICK m \in Moves : SendUp(c, 1, [seq |-> nextSeq[c], move |-> m])
        BY <2>3 DEF SendInput
      <3>2. [seq |-> nextSeq[c], move |-> m] \in Input
        BY <2>3, Constants DEF SendInput, Input, TypeOK
      <3>3. \A d \in Client : phase'[d] = "gone" <=> IF d = c THEN 1 = 2 ELSE phase[d] = "gone"
        BY <2>1, <2>3 DEF SendInput
      <3> QED  BY <1>7, <2>1, <3>1, <3>2, <3>3
    <2>4. CASE Disconnect(c)
      <3>1. SendUp(c, 2, None) /\ phase' = [phase EXCEPT ![c] = "gone"]
        BY <2>4 DEF Disconnect
      <3>2. \A d \in Client : phase'[d] = "gone" <=> IF d = c THEN 2 = 2 ELSE phase[d] = "gone"
        BY <1>0, <3>1
      <3> QED  BY <1>7, <2>1, <3>1, <3>2
    <2>5. CASE RepeatConnect(c)
      <3>1. SendUp(c, 1, None) /\ phase' = phase
        BY <2>5 DEF RepeatConnect, clientVars
      <3>2. \A d \in Client : phase'[d] = "gone" <=> IF d = c THEN 1 = 2 ELSE phase[d] = "gone"
        BY <2>1, <3>1
      <3> QED  BY <1>7, <2>1, <3>1, <3>2
    <2> QED  BY <1>8, <2>2, <2>3, <2>4, <2>5
  <1>9. ASSUME NEW c \in Client, ServerReceive(c)
        PROVE  GoodbyeLast' /\ NoGhosts'
    <2>1. /\ up[c] # <<>> /\ up' = [up EXCEPT ![c] = Tail(@)]
          /\ UNCHANGED <<phase, lost, failures>>
      BY <1>9 DEF ServerReceive, TakePacket, clientVars
    <2>2. \A d \in Client : up'[d] = IF d = c THEN Tail(up[c]) ELSE up[d]
      BY <2>1, TakeFacts
    <2>3. \A d \in Client : ctlGot'[d] = IF d # c THEN ctlGot[d]
                                         ELSE IF Head(up[c]).ctl > ctlGot[c] THEN Head(up[c]).ctl
                                         ELSE ctlGot[c]
      BY <1>9 DEF ServerReceive, TakePacket, TypeOK
    <2>4. /\ Registered' \subseteq Registered \cup {c}
          /\ ctlGot[c] < 2 /\ Head(up[c]).ctl = 2 => c \notin Registered'
      BY <1>9, ReceiveOrder
    <2>5. ASSUME lost = 0, failures = 0
          PROVE  /\ Departing(Tail(up[c]), ctlGot'[c], phase[c] = "gone")
                 /\ phase[c] = "gone" /\ Tail(up[c]) = <<>> => Head(up[c]).ctl = 2 /\ ctlGot[c] < 2
      <3>1. Departing(up[c], ctlGot[c], phase[c] = "gone")
        BY <2>5, GoodbyeByClient
      <3> DEFINE gone == phase[c] = "gone"
      <3>2. gone \in BOOLEAN
        OBVIOUS
      <3> HIDE DEF gone
      <3>3. Departing(up[c], ctlGot[c], gone)
        BY <3>1 DEF gone
      <3>4. /\ Departing(Tail(up[c]), ctlGot'[c], gone)
            /\ gone /\ Tail(up[c]) = <<>> => Head(up[c]).ctl = 2 /\ ctlGot[c] < 2
        BY <1>0, <2>1, <2>3, <3>2, <3>3, DepartingTail
      <3> QED  BY <3>4 DEF gone
    <2>6. GoodbyeLast'
      <3>1. SUFFICES ASSUME lost = 0, failures = 0, NEW d \in Client
                     PROVE  Departing(up'[d], ctlGot'[d], phase[d] = "gone")
        BY <2>1, GoodbyeByClientPrime
      <3>2. Departing(up[d], ctlGot[d], phase[d] = "gone")
        BY <3>1, GoodbyeByClient
      <3> QED  BY <2>2, <2>3, <2>5, <3>1, <3>2
    <2>7. NoGhosts'
      <3>1. SUFFICES ASSUME lost = 0, failures = 0, NEW d \in Client, phase[d] = "gone", up'[d] = <<>>
                     PROVE  d \notin Registered'
        BY <2>1 DEF NoGhosts
      <3>2. CASE d = c
        BY <2>2, <2>4, <2>5, <3>1, <3>2
      <3>3. CASE d # c
        BY <2>2, <2>4, <3>1, <3>3 DEF NoGhosts
      <3> QED  BY <3>2, <3>3
    <2> QED  BY <2>6, <2>7
  <1> QED  BY <1>1, <1>2, <1>4, <1>5, <1>6, <1>8, <1>9 DEF Next

-----------------------------------------------------------------------------
(* Ticks.                                                                  *)
LEMMA EveryCallAdvancesStep ==
  ASSUME TypeOK, EveryCallAdvances, [Next]_vars
  PROVE  EveryCallAdvances'
  <1>1. tick \in Nat /\ calls \in Nat /\ failures \in Nat
    BY Constants DEF TypeOK
  <1>2. ASSUME UNCHANGED <<config, tick, calls>>, failures' = 0 => failures = 0
        PROVE  EveryCallAdvances'
    BY <1>2 DEF EveryCallAdvances
  <1>3. ASSUME NEW c \in Client,
               \/ Connect(c) \/ SendInput(c) \/ Disconnect(c) \/ Crash(c) \/ RepeatConnect(c)
               \/ ClientPoll(c) \/ Lose(c) \/ PollFails(c) \/ ServerReceive(c)
        PROVE  EveryCallAdvances'
    <2>1. UNCHANGED <<config, tick, calls>> /\ failures' \in {failures, failures + 1}
      BY <1>3 DEF Connect, SendInput, Disconnect, Crash, RepeatConnect, ClientPoll, Lose,
                  PollFails, ServerReceive, serverVars, gameVars
    <2> QED  BY <1>1, <1>2, <2>1
  <1>4. CASE QuietTick \/ SnapshotTick
    <2>1. tick' = tick + 1 /\ calls' = calls + 1 /\ UNCHANGED <<config, failures>>
      BY <1>4, PassPollFacts DEF QuietTick, SnapshotTick, Snapshots
    <2> QED  BY <1>1, <2>1 DEF EveryCallAdvances
  <1>5. CASE RefusedTick
    <2>1. Len(order) > config.mtu /\ UNCHANGED config
      BY <1>5, PassPollFacts DEF RefusedTick, Refused
    <2>2. Len(order) \in Nat /\ Len(order) <= Cardinality(Client)
      BY OrderBounded DEF TypeOK
    <2>3. config.mtu \in Nat
      BY Constants DEF TypeOK
    <2>4. ~(Cardinality(Client) <= config.mtu)
      BY <2>1, <2>2, <2>3, Constants
    <2> QED  BY <2>1, <2>4 DEF EveryCallAdvances
  <1>6. CASE FlushFails
    <2>1. failures' = failures + 1
      BY <1>6 DEF FlushFails
    <2>2. failures' # 0
      BY <1>1, <2>1
    <2> QED  BY <2>2 DEF EveryCallAdvances
  <1>7. CASE UNCHANGED vars
    BY <1>2, <1>7 DEF vars, serverVars, gameVars, linkVars
  <1> QED  BY <1>3, <1>4, <1>5, <1>6, <1>7 DEF Next

(* The initial state.                                                      *)
LEMMA InitServer == Init => ServerInv
  <1> SUFFICES ASSUME Init  PROVE ServerInv
    OBVIOUS
  <1>1. TypeOK
    BY InitType
  <1>2. /\ Registered = {} /\ \A c \in Client : up[c] = <<>> /\ offered[c] = None
        /\ \A c \in Client : ctlGot[c] = 0 /\ phase[c] = "new"
        /\ tick = 0 /\ calls = 0
    BY DEF Init, Registered, Range
  <1>3. NewestInputApplies /\ NoGhosts /\ EveryCallAdvances /\ FirstInputAwaited
    BY <1>2 DEF NewestInputApplies, NoGhosts, EveryCallAdvances, FirstInputAwaited
  <1>4. InputsRise /\ GoodbyeLast
    BY <1>2 DEF InputsRise, GoodbyeLast
  <1> QED  BY <1>1, <1>3, <1>4 DEF ServerInv, ServerFollows

LEMMA ServerInvariant == Spec => []ServerInv
  <1>1. ServerInv /\ [Next]_vars => ServerInv'
    BY TypeStep, InputsRiseStep, InputsApplyStep, GoodbyeStep, EveryCallAdvancesStep
       DEF ServerInv, ServerFollows
  <1> QED  BY <1>1, InitServer, PTL DEF Spec

(* For any number of clients, whatever is lost and whichever calls fail:   *)
(* of any number of inputs of a client that plays the newest that arrived  *)
(* is the one applied; the tick counts the calls unless one failed or      *)
(* nothing would fit; and who has left a whole network is gone             *)
(* (Server::tick).                                                         *)
THEOREM ServerActsOnTheNewest == Spec => []ServerFollows
  BY ServerInvariant, PTL DEF ServerInv

-----------------------------------------------------------------------------
(* What a message means: in full it is the snapshot built; as a delta it   *)
(* leads there from the snapshot remembered, and applies to no client that *)
(* holds another tick.                                                     *)
LEMMA MessageMeaning ==
  ASSUME TypeOK, Snapshots, NEW s, s = [tick |-> tick, ents |-> Entities], NEW c \in Client,
         NEW m, m = MessageFor(c)
  PROVE  \/ /\ m.kind = "full" /\ [tick |-> m.tick, ents |-> m.ents] = s
            /\ \A old : Applied(old, m) = s
         \/ /\ m.kind # "full" /\ lastSnap[c] # None /\ lastSnap[c] \in built
            /\ Applies(lastSnap[c], m) /\ Applied(lastSnap[c], m) = s
            /\ \A old : ~(old # None /\ old.tick = lastSnap[c].tick) => Applied(old, m) = old
  <1> DEFINE base == lastSnap[c]
             full == base = None \/ tick - base.tick >= BASELINE_INTERVAL
                     \/ ~Comparable(base.ents, Entities)
  <1>1. CASE full
    <2>1. m = [kind |-> "full", tick |-> tick, ents |-> Entities]
      BY <1>1 DEF MessageFor
    <2>2. m.kind = "full" /\ [tick |-> m.tick, ents |-> m.ents] = s
      BY <2>1
    <2>3. \A old : Applied(old, m) = s
      BY <2>2 DEF Applied
    <2> QED  BY <2>2, <2>3
  <1>2. CASE ~full
    <2>1. m = [kind |-> "delta", tick |-> tick, ents |-> Delta(base.ents, Entities),
               base |-> BaseOf(base)]
      BY <1>2 DEF MessageFor
    <2>2. base # None /\ base \in built /\ base \in Snapshot /\ base.ents \in Seq(Entity)
          /\ Comparable(base.ents, Entities)
      BY <1>2 DEF TypeOK
    <2>3. Entities \in Seq(Entity)
      BY PassPollFacts DEF Snapshots
    <2>4. m.kind # "full" /\ m.base = base.tick
      BY <2>1 DEF BaseOf
    <2>5. Applies(base, m)
      BY <2>2, <2>4 DEF Applies
    <2>6. Applied(base, m) = s
      BY <2>1, <2>2, <2>3, DeltaRebuilds
    <2>7. \A old : ~(old # None /\ old.tick = base.tick) => Applied(old, m) = old
      BY <2>4 DEF Applied, Applies
    <2> QED  BY <2>2, <2>4, <2>5, <2>6, <2>7
  <1> QED  BY <1>1, <1>2

-----------------------------------------------------------------------------
(* Without a failed call, whatever is lost.                                *)

Telling(q, known) ==
  \A i \in DOMAIN q :
    IF q[i].kind = "full" THEN [tick |-> q[i].tick, ents |-> q[i].ents] \in known
    ELSE \E b \in known : Applies(b, q[i]) /\ Applied(b, q[i]) \in known

LEMMA TellingByClient ==
  MessagesTell <=> (failures = 0 => \A c \in Client : Telling(down[c], built))
  BY DEF MessagesTell, Telling

LEMMA TellingByClientPrime ==
  MessagesTell' <=> (failures' = 0 => \A c \in Client : Telling(down'[c], built'))
  BY DEF MessagesTell, Telling

LEMMA TellingTail ==
  ASSUME NEW q \in Seq(Message), q # <<>>, NEW known, Telling(q, known)
  PROVE  Telling(Tail(q), known)
  <1>1. PICK r : r = Tail(q)
    OBVIOUS
  <1>2. /\ DOMAIN q = 1 .. Len(q) /\ DOMAIN r = 1 .. Len(q) - 1 /\ Len(q) \in Nat
        /\ \A i \in 1 .. Len(q) - 1 : r[i] = q[i + 1]
    BY <1>1, TailFacts
  <1>3. \A i \in DOMAIN r : i + 1 \in DOMAIN q /\ r[i] = q[i + 1]
    BY <1>2
  <1>4. Telling(r, known)
    BY <1>3 DEF Telling
  <1> QED  BY <1>1, <1>4

LEMMA TellingAppend ==
  ASSUME NEW q \in Seq(Message), NEW m \in Message, NEW known, NEW s, Telling(q, known),
         \/ m.kind = "full" /\ [tick |-> m.tick, ents |-> m.ents] = s
         \/ m.kind # "full" /\ \E b \in known : Applies(b, m) /\ Applied(b, m) = s
  PROVE  Telling(Append(q, m), known \cup {s}) /\ Telling(q, known \cup {s})
  <1>1. PICK r : r = Append(q, m)
    OBVIOUS
  <1>2. /\ DOMAIN q = 1 .. Len(q) /\ DOMAIN r = 1 .. Len(q) + 1 /\ Len(q) \in Nat
        /\ \A i \in 1 .. Len(q) : r[i] = q[i]
        /\ r[Len(q) + 1] = m
    BY <1>1, AppendFacts
  <1>3. Telling(q, known \cup {s})
    BY DEF Telling
  <1>4. \A i \in DOMAIN r : (i \in DOMAIN q /\ r[i] = q[i]) \/ r[i] = m
    BY <1>2
  <1>5. Telling(r, known \cup {s})
    BY <1>3, <1>4 DEF Telling
  <1> QED  BY <1>1, <1>3, <1>5

LEMMA OnePerTickStep ==
  ASSUME TypeOK, OnePerTick, [Next]_vars
  PROVE  OnePerTick'
  <1>0. /\ tick \in Nat /\ failures \in Nat /\ \A b \in built : b.tick \in Nat /\ b.tick <= tick
    BY Constants, Conversions DEF TypeOK
  <1>1. ASSUME UNCHANGED <<tick, built>>, failures' = 0 => failures = 0
        PROVE  OnePerTick'
    BY <1>1 DEF OnePerTick
  <1>2. ASSUME NEW c \in Client,
               \/ Connect(c) \/ SendInput(c) \/ Disconnect(c) \/ Crash(c) \/ RepeatConnect(c)
               \/ ClientPoll(c) \/ Lose(c) \/ PollFails(c) \/ ServerReceive(c)
        PROVE  OnePerTick'
    <2>1. UNCHANGED <<tick, built>> /\ failures' \in {failures, failures + 1}
      BY <1>2 DEF Connect, SendInput, Disconnect, Crash, RepeatConnect, ClientPoll, Lose,
                  PollFails, ServerReceive, serverVars, gameVars
    <2> QED  BY <1>0, <1>1, <2>1
  <1>3. CASE QuietTick
    <2>1. tick' = tick + 1 /\ UNCHANGED <<built, failures>>
      BY <1>3 DEF QuietTick
    <2> QED  BY <1>0, <2>1 DEF OnePerTick
  <1>4. CASE RefusedTick
    BY <1>1, <1>4 DEF RefusedTick
  <1>5. CASE SnapshotTick
    <2>1. PICK s : s = [tick |-> tick, ents |-> Entities]
      OBVIOUS
    <2>2. tick' = tick + 1 /\ UNCHANGED failures /\ built' = built \cup {s} /\ s.tick = tick
      BY <1>5, <2>1, SnapshotsFacts DEF SnapshotTick
    <2> QED  BY <1>0, <2>2 DEF OnePerTick
  <1>6. CASE FlushFails
    <2>1. failures' = failures + 1
      BY <1>6 DEF FlushFails
    <2>2. failures' # 0
      BY <1>0, <2>1
    <2> QED  BY <2>2 DEF OnePerTick
  <1>7. CASE UNCHANGED vars
    BY <1>1, <1>7 DEF vars, serverVars, gameVars, linkVars
  <1> QED  BY <1>2, <1>3, <1>4, <1>5, <1>6, <1>7 DEF Next

(* The head of a link makes of a true state a true state.                  *)
LEMMA PollTrue ==
  ASSUME NEW q \in Seq(Message), q # <<>>, NEW known, None \notin known, Telling(q, known),
         \A a \in known : \A b \in known : a.tick = b.tick => a = b,
         NEW old \in known \cup {None}
  PROVE  Applied(old, Head(q)) \in known \cup {None}
  <1>1. PICK m : m = Head(q)
    OBVIOUS
  <1>2. m = q[1] /\ 1 \in DOMAIN q
    BY <1>1
  <1>3. CASE m.kind = "full"
    BY <1>2, <1>3 DEF Telling, Applied
  <1>4. CASE m.kind # "full"
    <2>1. PICK b \in known : Applies(b, m) /\ Applied(b, m) \in known
      BY <1>2, <1>4 DEF Telling
    <2>2. CASE Applies(old, m)
      <3>1. old \in known /\ old.tick = b.tick
        BY <2>1, <2>2 DEF Applies
      <3>2. old = b
        BY <3>1
      <3> QED  BY <2>1, <3>2, <1>1
    <2>3. CASE ~Applies(old, m)
      BY <1>1, <1>4, <2>3 DEF Applied
    <2> QED  BY <2>2, <2>3
  <1> QED  BY <1>1, <1>3, <1>4

Lossy == MessagesTell /\ (failures = 0 => Authoritative)

LEMMA LossyStep ==
  ASSUME TypeOK, OnePerTick, Lossy, [Next]_vars
  PROVE  Lossy'
  <1>0. /\ failures \in Nat /\ None \notin built
        /\ \A d \in Client : down[d] \in Seq(Message)
        /\ snap \in [Client -> Snapshot \cup {None}]
    BY Constants, Conversions DEF TypeOK
  <1>1. ASSUME UNCHANGED <<down, snap, built>>, failures' = 0 => failures = 0
        PROVE  Lossy'
    BY <1>1 DEF Lossy, MessagesTell, Authoritative
  <1>2. ASSUME NEW c \in Client,
               \/ Connect(c) \/ SendInput(c) \/ Disconnect(c) \/ Crash(c) \/ RepeatConnect(c)
               \/ PollFails(c) \/ ServerReceive(c)
        PROVE  Lossy'
    <2>1. UNCHANGED <<down, snap, built>> /\ failures' \in {failures, failures + 1}
      BY <1>2 DEF Connect, SendInput, Disconnect, Crash, RepeatConnect, TakePacket,
                  PollFails, ServerReceive, serverVars, clientVars
    <2> QED  BY <1>0, <1>1, <2>1
  <1>3. ASSUME NEW c \in Client, ClientPoll(c)
        PROVE  Lossy'
    <2>1. /\ down[c] # <<>> /\ UNCHANGED <<built, failures>>
          /\ \A d \in Client : down'[d] = IF d = c THEN Tail(down[c]) ELSE down[d]
          /\ \A d \in Client : snap'[d] = IF d = c THEN Applied(snap[c], Head(down[c])) ELSE snap[d]
      BY <1>3 DEF ClientPoll, serverVars, TypeOK
    <2>2. SUFFICES ASSUME failures = 0
                   PROVE  /\ \A d \in Client : Telling(down'[d], built)
                          /\ \A d \in Client : snap'[d] # None => snap'[d] \in built
      BY <2>1, TellingByClientPrime DEF Lossy, Authoritative
    <2>3. \A d \in Client : Telling(down[d], built) /\ snap[d] \in built \cup {None}
      BY <2>2, TellingByClient DEF Lossy, Authoritative
    <2>4. Telling(Tail(down[c]), built)
      BY <1>0, <2>1, <2>3, TellingTail
    <2>5. Applied(snap[c], Head(down[c])) \in built \cup {None}
      BY <1>0, <2>1, <2>2, <2>3, PollTrue DEF OnePerTick
    <2> QED  BY <2>1, <2>3, <2>4, <2>5
  <1>4. ASSUME NEW c \in Client, Lose(c)
        PROVE  Lossy'
    <2>1. UNCHANGED <<built, failures, snap>>
      BY <1>4 DEF Lose, serverVars, clientVars
    <2>2. CASE UNCHANGED down
      BY <1>1, <2>1, <2>2
    <2>3. CASE down[c] # <<>> /\ down' = [down EXCEPT ![c] = Tail(@)]
      <3>1. \A d \in Client : down'[d] = IF d = c THEN Tail(down[c]) ELSE down[d]
        BY <2>3 DEF TypeOK
      <3>2. SUFFICES ASSUME failures = 0  PROVE \A d \in Client : Telling(down'[d], built)
        BY <2>1, TellingByClientPrime DEF Lossy, Authoritative
      <3>3. \A d \in Client : Telling(down[d], built)
        BY <3>2, TellingByClient DEF Lossy
      <3>4. Telling(Tail(down[c]), built)
        BY <1>0, <2>3, <3>3, TellingTail
      <3> QED  BY <3>1, <3>3, <3>4
    <2> QED  BY <1>4, <2>2, <2>3 DEF Lose
  <1>5. CASE QuietTick \/ RefusedTick
    BY <1>1, <1>5, PassPollFacts DEF QuietTick, RefusedTick
  <1>6. CASE SnapshotTick
    <2>1. PICK s : s = [tick |-> tick, ents |-> Entities]
      OBVIOUS
    <2>2. Snapshots /\ Sent(Registered) /\ UNCHANGED <<failures, snap>> /\ Registered \subseteq Registered
      BY <1>6, PassPollFacts DEF SnapshotTick, Snapshots
    <2>3. built' = built \cup {s}
      BY <2>1, <2>2, SnapshotsFacts
    <2>4. \A d \in Client : down'[d] = IF d \in Registered THEN Append(down[d], MessageFor(d))
                                       ELSE down[d]
      BY <2>2, SentFacts
    <2>5. SUFFICES ASSUME failures = 0  PROVE \A d \in Client : Telling(down'[d], built \cup {s})
      BY <2>2, <2>3, TellingByClientPrime DEF Lossy, Authoritative
    <2>6. ASSUME NEW d \in Client  PROVE Telling(down'[d], built \cup {s})
      <3>1. PICK m : m = MessageFor(d)
        OBVIOUS
      <3>2. m \in Message
        BY <2>1, <2>2, <3>1, SnapshotsFacts
      <3>3. \/ m.kind = "full" /\ [tick |-> m.tick, ents |-> m.ents] = s
            \/ m.kind # "full" /\ \E b \in built : Applies(b, m) /\ Applied(b, m) = s
        BY <2>1, <2>2, <3>1, MessageMeaning
      <3>4. Telling(down[d], built)
        BY <2>5, TellingByClient DEF Lossy
      <3>5. Telling(Append(down[d], m), built \cup {s}) /\ Telling(down[d], built \cup {s})
        BY <1>0, <3>2, <3>3, <3>4, TellingAppend
      <3> QED  BY <2>4, <3>1, <3>5
    <2> QED  BY <2>6
  <1>7. CASE FlushFails
    <2>1. failures' = failures + 1
      BY <1>7 DEF FlushFails
    <2>2. failures' # 0
      BY <1>0, <2>1
    <2> QED  BY <2>2 DEF Lossy, MessagesTell
  <1>8. CASE UNCHANGED vars
    BY <1>1, <1>8 DEF vars, serverVars, clientVars, linkVars
  <1> QED  BY <1>2, <1>3, <1>4, <1>5, <1>6, <1>7, <1>8 DEF Next

-----------------------------------------------------------------------------
(* Over a network that loses nothing, with one failed call at most.        *)

\* What a client with snapshot `sn' will hold after the last message of q, as
\* compared with what the server remembers; f is the number of failed calls.
Agrees(end, remembered, f) ==
  remembered # None =>
    end = remembered \/ (f = 1 /\ (end = None \/ end.tick < remembered.tick))

FutureOf(q, sn, remembered, f, R) ==
  /\ R[0] = sn
  /\ \A i \in DOMAIN q : R[i] = Applied(R[i - 1], q[i])
  /\ f = 0 => \A i \in DOMAIN q : R[i] # None /\ R[i].tick = q[i].tick
  /\ Agrees(R[Len(q)], remembered, f)

LEMMA FutureByClient ==
  FutureTrue <=>
    (lost = 0 /\ failures <= 1 =>
      \A c \in Client : \E R \in [0 .. Len(down[c]) -> built \cup {None}] :
        FutureOf(down[c], snap[c], lastSnap[c], failures, R))
  BY DEF FutureTrue, Future, FutureOf, Agrees

LEMMA FutureByClientPrime ==
  FutureTrue' <=>
    (lost' = 0 /\ failures' <= 1 =>
      \A c \in Client : \E R \in [0 .. Len(down'[c]) -> built' \cup {None}] :
        FutureOf(down'[c], snap'[c], lastSnap'[c], failures', R))
  BY DEF FutureTrue, Future, FutureOf, Agrees

LEMMA FutureTail ==
  ASSUME NEW q \in Seq(Message), q # <<>>, NEW S, NEW R \in [0 .. Len(q) -> S],
         NEW sn, NEW remembered, NEW f, FutureOf(q, sn, remembered, f, R)
  PROVE  /\ \E T \in [0 .. Len(Tail(q)) -> S] :
              FutureOf(Tail(q), Applied(sn, Head(q)), remembered, f, T)
         /\ f = 0 => /\ Applied(sn, Head(q)) # None
                     /\ Applied(sn, Head(q)).tick = Head(q).tick
  <1>1. PICK r : r = Tail(q)
    OBVIOUS
  <1>2. /\ DOMAIN q = 1 .. Len(q) /\ DOMAIN r = 1 .. Len(q) - 1 /\ Len(q) \in Nat \ {0}
        /\ \A i \in 1 .. Len(q) - 1 : r[i] = q[i + 1]
        /\ Len(r) = Len(q) - 1 /\ Head(q) = q[1]
    BY <1>1, TailFacts
  <1>3. PICK T : T = [i \in 0 .. Len(r) |-> R[i + 1]]
    OBVIOUS
  <1>4. T \in [0 .. Len(r) -> S]
    <2>1. \A i \in 0 .. Len(r) : i + 1 \in 0 .. Len(q)
      BY <1>2
    <2> QED  BY <1>3, <2>1
  <1>5. /\ R[0] = sn /\ \A i \in 1 .. Len(q) : R[i] = Applied(R[i - 1], q[i])
        /\ f = 0 => \A i \in 1 .. Len(q) : R[i] # None /\ R[i].tick = q[i].tick
        /\ Agrees(R[Len(q)], remembered, f)
    BY <1>2 DEF FutureOf
  <1>6. R[1] = Applied(sn, q[1])
    <2>1. 1 \in 1 .. Len(q) /\ 1 - 1 = 0
      BY <1>2
    <2> QED  BY <1>5, <2>1
  <1>7. T[0] = Applied(sn, q[1]) /\ T[Len(r)] = R[Len(q)]
    <2>1. 0 \in 0 .. Len(r) /\ Len(r) \in 0 .. Len(r) /\ 0 + 1 = 1 /\ Len(r) + 1 = Len(q)
      BY <1>2
    <2>2. T[0] = R[0 + 1] /\ T[Len(r)] = R[Len(r) + 1]
      BY <1>3, <2>1
    <2> QED  BY <1>6, <2>1, <2>2
  <1>8. ASSUME NEW i \in DOMAIN r
        PROVE  /\ T[i] = Applied(T[i - 1], r[i])
               /\ f = 0 => T[i] # None /\ T[i].tick = r[i].tick
    <2>1. /\ i \in 0 .. Len(r) /\ i - 1 \in 0 .. Len(r) /\ (i - 1) + 1 = i /\ (i + 1) - 1 = i
          /\ i + 1 \in 1 .. Len(q) /\ r[i] = q[i + 1]
      BY <1>2
    <2>2. T[i] = R[i + 1] /\ T[i - 1] = R[(i - 1) + 1]
      BY <1>3, <2>1
    <2>3. R[i + 1] = Applied(R[(i + 1) - 1], q[i + 1])
      BY <1>5, <2>1
    <2> QED  BY <1>5, <2>1, <2>2, <2>3
  <1>9. FutureOf(r, Applied(sn, q[1]), remembered, f, T)
    BY <1>5, <1>7, <1>8 DEF FutureOf
  <1>10. f = 0 => Applied(sn, q[1]) # None /\ Applied(sn, q[1]).tick = q[1].tick
    <2>1. 1 \in 1 .. Len(q)
      BY <1>2
    <2> QED  BY <1>5, <1>6, <2>1
  <1> QED  BY <1>1, <1>2, <1>4, <1>9, <1>10

LEMMA FutureAppend ==
  ASSUME NEW q \in Seq(Message), NEW m \in Message, NEW S, NEW R \in [0 .. Len(q) -> S],
         NEW sn, NEW remembered, NEW f, FutureOf(q, sn, remembered, f, R),
         NEW S2, S \subseteq S2, NEW new \in S2, new = Applied(R[Len(q)], m),
         NEW remembered2, NEW f2, Agrees(new, remembered2, f2),
         f2 = 0 => f = 0 /\ new # None /\ new.tick = m.tick
  PROVE  \E T \in [0 .. Len(Append(q, m)) -> S2] :
           FutureOf(Append(q, m), sn, remembered2, f2, T)
  <1>1. PICK r : r = Append(q, m)
    OBVIOUS
  <1>2. /\ DOMAIN q = 1 .. Len(q) /\ DOMAIN r = 1 .. Len(q) + 1 /\ Len(q) \in Nat
        /\ \A i \in 1 .. Len(q) : r[i] = q[i]
        /\ r[Len(q) + 1] = m /\ Len(r) = Len(q) + 1
    BY <1>1, AppendFacts
  <1>3. PICK T : T = [i \in 0 .. Len(r) |-> IF i = Len(r) THEN new ELSE R[i]]
    OBVIOUS
  <1>4. \A i \in 0 .. Len(q) : T[i] = R[i] /\ R[i] \in S
    <2>1. \A i \in 0 .. Len(q) : i \in 0 .. Len(r) /\ i # Len(r)
      BY <1>2
    <2> QED  BY <1>3, <2>1
  <1>5. T[Len(r)] = new
    <2>1. Len(r) \in 0 .. Len(r)
      BY <1>2
    <2> QED  BY <1>3, <2>1
  <1>6. \A i \in 0 .. Len(r) : i \in 0 .. Len(q) \/ i = Len(r)
    BY <1>2
  <1>7. T \in [0 .. Len(r) -> S2]
    <2>1. \A i \in 0 .. Len(r) : T[i] \in S2
      BY <1>4, <1>5, <1>6
    <2> QED  BY <1>3, <2>1
  <1>8. /\ R[0] = sn /\ \A i \in 1 .. Len(q) : R[i] = Applied(R[i - 1], q[i])
        /\ f = 0 => \A i \in 1 .. Len(q) : R[i] # None /\ R[i].tick = q[i].tick
    BY <1>2 DEF FutureOf
  <1>9. T[0] = sn
    <2>1. 0 \in 0 .. Len(q)
      BY <1>2
    <2> QED  BY <1>4, <1>8, <2>1
  <1>10. ASSUME NEW i \in DOMAIN r
         PROVE  /\ T[i] = Applied(T[i - 1], r[i])
                /\ f2 = 0 => T[i] # None /\ T[i].tick = r[i].tick
    <2>1. CASE i \in 1 .. Len(q)
      <3>1. i \in 0 .. Len(q) /\ i - 1 \in 0 .. Len(q) /\ r[i] = q[i]
        BY <1>2, <2>1
      <3> QED  BY <1>4, <1>8, <2>1, <3>1
    <2>2. CASE i = Len(q) + 1
      <3>1. i = Len(r) /\ r[i] = m /\ i - 1 = Len(q) /\ Len(q) \in 0 .. Len(q)
        BY <1>2, <2>2
      <3>2. T[i] = new /\ T[i - 1] = R[Len(q)]
        BY <1>4, <1>5, <3>1
      <3> QED  BY <3>1, <3>2
    <2> QED  BY <1>2, <2>1, <2>2
  <1>11. FutureOf(r, sn, remembered2, f2, T)
    BY <1>5, <1>9, <1>10 DEF FutureOf
  <1> QED  BY <1>1, <1>7, <1>11

Whole == FutureTrue /\ UpToDateUnlessLost

LEMMA ClientPollWhole ==
  ASSUME TypeOK, Whole, NEW c \in Client, ClientPoll(c)
  PROVE  Whole'
  <1>1. /\ down[c] # <<>> /\ UNCHANGED <<built, lastSnap, lost, failures>>
        /\ \A d \in Client : down'[d] = IF d = c THEN Tail(down[c]) ELSE down[d]
        /\ \A d \in Client : snap'[d] = IF d = c THEN Applied(snap[c], Head(down[c])) ELSE snap[d]
        /\ \A d \in Client : newest'[d] = IF d = c THEN Head(down[c]).tick ELSE newest[d]
    BY DEF ClientPoll, serverVars, gameVars, TypeOK
  <1>2. SUFFICES ASSUME lost = 0, failures <= 1
                 PROVE  /\ \A d \in Client : \E R \in [0 .. Len(down'[d]) -> built \cup {None}] :
                             FutureOf(down'[d], snap'[d], lastSnap[d], failures, R)
                        /\ failures = 0 => NewerSupersedes'
    <2>1. lost = 0 /\ failures = 0 => failures <= 1
      OBVIOUS
    <2> QED  BY <1>1, <2>1, FutureByClientPrime DEF Whole, UpToDateUnlessLost
  <1>3. \A d \in Client : \E R \in [0 .. Len(down[d]) -> built \cup {None}] :
          FutureOf(down[d], snap[d], lastSnap[d], failures, R)
    BY <1>2, FutureByClient DEF Whole
  <1>4. down[c] \in Seq(Message)
    BY DEF TypeOK
  <1>5. PICK R \in [0 .. Len(down[c]) -> built \cup {None}] :
          FutureOf(down[c], snap[c], lastSnap[c], failures, R)
    BY <1>3
  <1>6. /\ \E T \in [0 .. Len(Tail(down[c])) -> built \cup {None}] :
             FutureOf(Tail(down[c]), Applied(snap[c], Head(down[c])), lastSnap[c], failures, T)
        /\ failures = 0 => /\ Applied(snap[c], Head(down[c])) # None
                           /\ Applied(snap[c], Head(down[c])).tick = Head(down[c]).tick
    BY <1>1, <1>4, <1>5, FutureTail
  <1>7. \A d \in Client : \E T \in [0 .. Len(down'[d]) -> built \cup {None}] :
          FutureOf(down'[d], snap'[d], lastSnap[d], failures, T)
    BY <1>1, <1>3, <1>6
  <1>8. failures = 0 => NewerSupersedes'
    BY <1>1, <1>2, <1>6 DEF Whole, UpToDateUnlessLost, NewerSupersedes
  <1> QED  BY <1>7, <1>8

(* A snapshot for one client: sent, or not sent by the call that failed.   *)
LEMMA SendWhole ==
  ASSUME TypeOK, OnePerTick, Whole, lost = 0, Snapshots,
         NEW s, s = [tick |-> tick, ents |-> Entities],
         NEW reached \in SUBSET Registered, Sent(reached),
         \/ failures' = failures /\ reached = Registered
         \/ failures = 0 /\ failures' = 1,
         failures' <= 1, NEW d \in Client
  PROVE  \E T \in [0 .. Len(down'[d]) -> built' \cup {None}] :
           FutureOf(down'[d], snap[d], lastSnap'[d], failures', T)
  <1>1. /\ failures \in Nat /\ failures' \in {0, 1} /\ failures <= 1
        /\ failures' = 0 => failures = 0
    BY Constants DEF TypeOK
  <1>2. PICK R \in [0 .. Len(down[d]) -> built \cup {None}] :
          FutureOf(down[d], snap[d], lastSnap[d], failures, R)
    BY <1>1, FutureByClient DEF Whole
  <1>3. /\ s \in Snapshot /\ s.tick = tick /\ s # None /\ built' = built \cup {s}
        /\ lastSnap'[d] = IF d \in Registered THEN s ELSE lastSnap[d]
    BY SnapshotsFacts, Conversions
  <1>4. down'[d] = (IF d \in reached THEN Append(down[d], MessageFor(d)) ELSE down[d])
        /\ down[d] \in Seq(Message)
    BY SentFacts DEF TypeOK
  <1>5. PICK end : end = R[Len(down[d])]
    OBVIOUS
  <1>6. end \in built \cup {None} /\ Agrees(end, lastSnap[d], failures)
    <2>1. Len(down[d]) \in 0 .. Len(down[d])
      BY <1>4
    <2> QED  BY <1>2, <1>5, <2>1 DEF FutureOf
  <1>7. /\ tick \in Nat /\ \A b \in built : b.tick \in Nat /\ b.tick <= tick /\ b # None
        /\ lastSnap[d] \in built \cup {None}
    BY Constants, Conversions DEF TypeOK
  <1>8. CASE d \in reached
    <2>1. PICK m : m = MessageFor(d)
      OBVIOUS
    <2>2. m \in Message /\ m.tick = tick
      BY <2>1, SnapshotsFacts
    <2>3. \/ Applied(end, m) = s
          \/ /\ Applied(end, m) = end /\ lastSnap[d] \in built
             /\ ~(end # None /\ end.tick = lastSnap[d].tick) /\ end # lastSnap[d]
      <3>1. CASE m.kind = "full"
        BY <2>1, <3>1, MessageMeaning
      <3>2. CASE m.kind # "full"
        <4>1. /\ lastSnap[d] # None /\ lastSnap[d] \in built /\ Applies(lastSnap[d], m)
              /\ Applied(lastSnap[d], m) = s
              /\ \A old : ~(old # None /\ old.tick = lastSnap[d].tick) => Applied(old, m) = old
          BY <2>1, <3>2, MessageMeaning
        <4>2. CASE end = lastSnap[d]
          BY <4>1, <4>2
        <4>3. CASE end # lastSnap[d]
          <5>1. end = None \/ end.tick < lastSnap[d].tick
            BY <1>6, <4>1, <4>3 DEF Agrees
          <5>2. ~(end # None /\ end.tick = lastSnap[d].tick)
            BY <1>6, <1>7, <4>1, <5>1
          <5> QED  BY <4>1, <4>3, <5>2
        <4> QED  BY <4>2, <4>3
      <3> QED  BY <3>1, <3>2
    <2>4. lastSnap'[d] = s
      BY <1>3, <1>8
    <2>5. Applied(end, m) \in built' \cup {None}
      BY <1>3, <1>6, <2>3
    <2>6. /\ Agrees(Applied(end, m), lastSnap'[d], failures')
          /\ failures' = 0 => Applied(end, m) # None /\ Applied(end, m).tick = m.tick
      <3>1. CASE Applied(end, m) = s
        BY <1>3, <2>2, <2>4, <3>1 DEF Agrees
      <3>2. CASE Applied(end, m) # s
        <4>1. /\ Applied(end, m) = end /\ lastSnap[d] \in built /\ end # lastSnap[d]
          BY <2>3, <3>2
        <4>2. failures = 1 /\ (end = None \/ end.tick < lastSnap[d].tick)
          BY <1>6, <1>7, <4>1 DEF Agrees
        <4>3. failures' = 1
          BY <1>1, <4>2
        <4>4. end = None \/ end.tick < s.tick
          BY <1>3, <1>6, <1>7, <4>1, <4>2
        <4> QED  BY <2>4, <4>1, <4>3, <4>4 DEF Agrees
      <3> QED  BY <3>1, <3>2
    <2>7. \E T \in [0 .. Len(Append(down[d], m)) -> built' \cup {None}] :
            FutureOf(Append(down[d], m), snap[d], lastSnap'[d], failures', T)
      <3>1. built \cup {None} \subseteq built' \cup {None}
        BY <1>3
      <3>2. Applied(end, m) = Applied(R[Len(down[d])], m)
        BY <1>5
      <3> QED  BY <1>1, <1>2, <1>4, <2>2, <2>5, <2>6, <3>1, <3>2, FutureAppend
    <2> QED  BY <1>4, <1>8, <2>1, <2>7
  <1>9. CASE d \notin reached
    <2>1. Agrees(end, lastSnap'[d], failures')
      <3>1. CASE d \in Registered
        <4>1. failures = 0 /\ failures' = 1 /\ lastSnap'[d] = s
          BY <1>3, <1>9, <3>1
        <4>2. end = None \/ end.tick < s.tick
          BY <1>3, <1>6, <4>1 DEF OnePerTick
        <4> QED  BY <4>1, <4>2 DEF Agrees
      <3>2. CASE d \notin Registered
        <4>1. lastSnap'[d] = lastSnap[d] /\ (failures = 1 => failures' = 1)
          BY <1>1, <1>3, <3>2
        <4> QED  BY <1>6, <4>1 DEF Agrees
      <3> QED  BY <3>1, <3>2
    <2>2. built \cup {None} \subseteq built' \cup {None}
      BY <1>3
    <2>3. \E T \in [0 .. Len(down[d]) -> built' \cup {None}] :
            FutureOf(down[d], snap[d], lastSnap'[d], failures', T)
      <3>1. Agrees(R[Len(down[d])], lastSnap'[d], failures')
        BY <1>5, <2>1
      <3>2. failures' = 0 => failures = 0
        BY <1>1
      <3>3. FutureOf(down[d], snap[d], lastSnap'[d], failures', R)
        BY <1>2, <3>1, <3>2 DEF FutureOf
      <3>4. R \in [0 .. Len(down[d]) -> built' \cup {None}]
        BY <1>2, <2>2
      <3> QED  BY <3>3, <3>4
    <2> QED  BY <1>4, <1>9, <2>3
  <1> QED  BY <1>8, <1>9

(* Steps that send no snapshot and hand none over; a client may be         *)
(* forgotten.                                                              *)
LEMMA QuietWhole ==
  ASSUME TypeOK, Whole, UNCHANGED <<down, snap, newest, built, lost>>,
         \A d \in Client : lastSnap'[d] \in {lastSnap[d], None},
         failures' \in {failures, failures + 1}
  PROVE  Whole'
  <1>1. failures \in Nat
    BY Constants DEF TypeOK
  <1>2. UpToDateUnlessLost'
    <2>1. failures' = 0 => failures = 0
      BY <1>1
    <2> QED  BY <2>1 DEF Whole, UpToDateUnlessLost, NewerSupersedes
  <1>3. FutureTrue'
    <2>1. SUFFICES ASSUME lost = 0, failures' <= 1, NEW d \in Client
                   PROVE  \E T \in [0 .. Len(down[d]) -> built \cup {None}] :
                            FutureOf(down[d], snap[d], lastSnap'[d], failures', T)
      BY FutureByClientPrime
    <2>2. failures <= 1 /\ (failures' = 0 => failures = 0) /\ (failures = 1 => failures' = 1)
      BY <1>1, <2>1
    <2>3. PICK R \in [0 .. Len(down[d]) -> built \cup {None}] :
            FutureOf(down[d], snap[d], lastSnap[d], failures, R)
      BY <2>1, <2>2, FutureByClient DEF Whole
    <2>4. Agrees(R[Len(down[d])], lastSnap[d], failures)
      BY <2>3 DEF FutureOf
    <2>5. Agrees(R[Len(down[d])], lastSnap'[d], failures')
      <3>1. CASE lastSnap'[d] = None
        BY <3>1 DEF Agrees
      <3>2. CASE lastSnap'[d] = lastSnap[d]
        BY <2>2, <2>4, <3>2 DEF Agrees
      <3> QED  BY <3>1, <3>2
    <2>6. FutureOf(down[d], snap[d], lastSnap'[d], failures', R)
      BY <2>2, <2>3, <2>5 DEF FutureOf
    <2> QED  BY <2>3, <2>6
  <1> QED  BY <1>2, <1>3 DEF Whole

LEMMA WholeStep ==
  ASSUME TypeOK, OnePerTick, Whole, [Next]_vars
  PROVE  Whole'
  <1>0. lost \in Nat /\ failures \in Nat
    BY Constants DEF TypeOK
  <1>1. ASSUME NEW c \in Client,
               Connect(c) \/ SendInput(c) \/ Disconnect(c) \/ Crash(c) \/ RepeatConnect(c)
        PROVE  Whole'
    <2>1. /\ UNCHANGED <<down, snap, newest, built, lost, lastSnap>>
          /\ failures' \in {failures, failures + 1}
      BY <1>1 DEF Connect, SendInput, Disconnect, Crash, RepeatConnect, serverVars, gameVars,
                  clientVars
    <2> QED  BY <2>1, QuietWhole
  <1>2. ASSUME NEW c \in Client, PollFails(c)
        PROVE  Whole'
    <2>1. /\ UNCHANGED <<down, snap, newest, built, lost, lastSnap>>
          /\ failures' \in {failures, failures + 1}
      BY <1>2 DEF PollFails, TakePacket, serverVars, gameVars, clientVars
    <2> QED  BY <2>1, QuietWhole
  <1>3. ASSUME NEW c \in Client, ServerReceive(c)
        PROVE  Whole'
    <2>1. UNCHANGED <<down, snap, newest, built, lost, failures>>
      BY <1>3 DEF ServerReceive, TakePacket, clientVars
    <2>2. \A d \in Client : lastSnap'[d] \in {lastSnap[d], None}
      BY <1>3, ReceiveOrder
    <2> QED  BY <2>1, <2>2, QuietWhole
  <1>4. ASSUME NEW c \in Client, Lose(c)
        PROVE  Whole'
    <2>1. lost' = lost + 1
      BY <1>4 DEF Lose
    <2>2. lost' # 0
      BY <1>0, <2>1
    <2> QED  BY <2>2 DEF Whole, FutureTrue, UpToDateUnlessLost
  <1>5. CASE QuietTick \/ RefusedTick
    <2>1. UNCHANGED <<down, snap, newest, built, lost, lastSnap, failures>>
      BY <1>5, PassPollFacts DEF QuietTick, RefusedTick
    <2> QED  BY <2>1, QuietWhole
  <1>6. CASE SnapshotTick \/ FlushFails
    <2>1. PICK s : s = [tick |-> tick, ents |-> Entities]
      OBVIOUS
    <2>2. PICK reached \in SUBSET Registered :
            /\ Sent(reached)
            /\ \/ failures' = failures /\ reached = Registered
               \/ failures' = failures + 1
      BY <1>6 DEF SnapshotTick, FlushFails
    <2>3. Snapshots /\ UNCHANGED <<snap, newest, lost>>
      BY <1>6, PassPollFacts DEF SnapshotTick, FlushFails, Snapshots
    <2>4. UpToDateUnlessLost'
      <3>1. failures' = 0 => failures = 0
        BY <1>0, <2>2
      <3> QED  BY <2>3, <3>1 DEF Whole, UpToDateUnlessLost, NewerSupersedes
    <2>5. FutureTrue'
      <3>1. SUFFICES ASSUME lost = 0, failures' <= 1, NEW d \in Client
                     PROVE  \E T \in [0 .. Len(down'[d]) -> built' \cup {None}] :
                              FutureOf(down'[d], snap[d], lastSnap'[d], failures', T)
        BY <2>3, FutureByClientPrime
      <3>2. \/ failures' = failures /\ reached = Registered
            \/ failures = 0 /\ failures' = 1
        BY <1>0, <2>2, <3>1
      <3> QED  BY <2>1, <2>2, <2>3, <3>1, <3>2, SendWhole
    <2> QED  BY <2>4, <2>5 DEF Whole
  <1>7. CASE UNCHANGED vars
    <2>1. UNCHANGED <<down, snap, newest, built, lost, lastSnap, failures>>
      BY <1>7 DEF vars, serverVars, gameVars, clientVars, linkVars
    <2> QED  BY <2>1, QuietWhole
  <1> QED  BY <1>1, <1>2, <1>3, <1>4, <1>5, <1>6, <1>7, ClientPollWhole DEF Next

LEMMA InitClient == Init => OnePerTick /\ Lossy /\ Whole
  <1> SUFFICES ASSUME Init  PROVE OnePerTick /\ Lossy /\ Whole
    OBVIOUS
  <1>1. /\ built = {} /\ lost = 0 /\ failures = 0
        /\ \A c \in Client : /\ down[c] = <<>> /\ snap[c] = None /\ newest[c] = None
                             /\ lastSnap[c] = None
    BY DEF Init
  <1>2. OnePerTick /\ Lossy /\ UpToDateUnlessLost
    BY <1>1 DEF OnePerTick, Lossy, MessagesTell, Authoritative, UpToDateUnlessLost, NewerSupersedes
  <1>3. ASSUME NEW c \in Client
        PROVE  \E R \in [0 .. Len(down[c]) -> built \cup {None}] : Future(c, R)
    <2>1. PICK R : R = [i \in 0 .. 0 |-> None]
      OBVIOUS
    <2>2. R[0] = None /\ R \in [0 .. 0 -> built \cup {None}]
      BY <2>1
    <2>3. Len(down[c]) = 0 /\ DOMAIN down[c] = {}
      BY <1>1
    <2>4. Future(c, R)
      BY <1>1, <2>2, <2>3 DEF Future
    <2> QED  BY <2>2, <2>3, <2>4
  <1> QED  BY <1>2, <1>3 DEF Whole, FutureTrue

(* What the invariants say of the snapshots clients hold.                  *)
LEMMA FollowsFromThese ==
  ASSUME TypeOK, Lossy, Whole
  PROVE  ClientsFollow
  <1>1. ASSUME failures = 1, lost = 0, NEW c \in Client, snap[c] # None
        PROVE  snap[c] \in built
    <2>1. failures <= 1
      BY <1>1
    <2>2. PICK R \in [0 .. Len(down[c]) -> built \cup {None}] : Future(c, R)
      BY <1>1, <2>1 DEF Whole, FutureTrue
    <2>3. 0 \in 0 .. Len(down[c])
      <3>1. down[c] \in Seq(Message)
        BY DEF TypeOK
      <3> QED  BY <3>1
    <2> QED  BY <1>1, <2>2, <2>3 DEF Future
  <1>2. SnapshotFaithful
    BY <1>1 DEF SnapshotFaithful, Authoritative, Lossy
  <1> QED  BY <1>2 DEF ClientsFollow, Whole

LEMMA ClientInvariant == Spec => [](OnePerTick /\ Lossy /\ Whole)
  <1>1. TypeOK /\ (OnePerTick /\ Lossy /\ Whole) /\ [Next]_vars => (OnePerTick /\ Lossy /\ Whole)'
    BY OnePerTickStep, LossyStep, WholeStep
  <1>2. ServerInv => TypeOK
    BY DEF ServerInv, ServerFollows
  <1> QED  BY <1>1, <1>2, InitClient, ServerInvariant, PTL DEF Spec

(* For any number of clients: whatever is lost, and over a whole network   *)
(* also if one call fails on the socket, a client never holds a mixture    *)
(* but a state the server built for that tick, however full snapshots and  *)
(* deltas follow each other; and while nothing is lost and no call fails   *)
(* it holds the newest it was handed (delta_entities, Client::poll,        *)
(* apply_delta_snapshot).                                                  *)
THEOREM ClientsHoldTrueStates == Spec => []ClientsFollow
  <1>1. ServerInv /\ (OnePerTick /\ Lossy /\ Whole) => ClientsFollow
    BY FollowsFromThese DEF ServerInv, ServerFollows
  <1> QED  BY <1>1, ServerInvariant, ClientInvariant, PTL
=============================================================================
