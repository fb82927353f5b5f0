-------------------------- MODULE ReliableOrdered --------------------------
(***************************************************************************)
(* What a reliable ordered channel promises: the receiver is handed the    *)
(* messages of each sender in the order they were sent, none skipped and   *)
(* none repeated, possibly several at a time.                              *)
(***************************************************************************)
EXTENDS Integers, Sequences

CONSTANTS Senders, Messages

VARIABLES
  sent,  \* sent[s]: the messages s has sent so far
  got    \* got[s]: those of them its peer has been handed

vars == <<sent, got>>

Init ==
  /\ sent = [s \in Senders |-> <<>>]
  /\ got = [s \in Senders |-> <<>>]

Send(s) ==
  /\ \E m \in Messages : sent' = [sent EXCEPT ![s] = Append(@, m)]
  /\ UNCHANGED got

Deliver(s) ==
  /\ \E k \in Len(got[s]) + 1 .. Len(sent[s]) :
       got' = [got EXCEPT ![s] = SubSeq(sent[s], 1, k)]
  /\ UNCHANGED sent

Next == \E s \in Senders : Send(s) \/ Deliver(s)

Spec == Init /\ [][Next]_vars
=============================================================================
