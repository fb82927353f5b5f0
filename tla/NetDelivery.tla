---------------------------- MODULE NetDelivery ----------------------------
(***************************************************************************)
(* The reliable channel of NetTransport on a network that loses at most    *)
(* MaxLost packets: what retransmission achieves in the end.               *)
(*                                                                         *)
(* `poll' retransmits every RETRY_INTERVAL_MS for as long as messages are  *)
(* pending and the programs poll in every frame, which justifies weak      *)
(* fairness of Flush and of receiving the newest packet that was not lost. *)
(* NetTransport bounds the packets an end builds; so that this bound never *)
(* stands for a network that loses everything, a message is sent while     *)
(* more packets are left than the network may lose.                        *)
(***************************************************************************)
EXTENDS NetTransport, Functions

CONSTANT MaxLost  \* bound: packets the network loses

ASSUME LossBound == MaxLost \in Nat

VARIABLE lost     \* number of packets lost so far

deliveryVars == <<vars, lost>>

LiveInit == Init /\ lost = 0

RoomForRetries(e) == nextSeq[e] + MaxLost < MaxPackets

\* The network drops a packet for good.
Lose ==
  /\ lost < MaxLost
  /\ lost' = lost + 1
  /\ \E p \in network : network' = network \ {p}
  /\ UNCHANGED <<traffic, sendVars, recvVars>>

Newest(e) ==
  {p \in network : /\ p.from = Other(e)
                   /\ \A q \in network : q.from = Other(e) => q.seq <= p.seq}

ReceiveNewest(e) == \E p \in Newest(e) : Receive(e, p)

LiveNext ==
  \/ /\ \E e \in End :
          \/ RoomForRetries(e) /\ (SendReliable(e) \/ SendUnreliable(e))
          \/ Flush(e)
          \/ \E p \in network : Receive(e, p)
     /\ UNCHANGED lost
  \/ Lose

Fairness ==
  \A e \in End : /\ WF_deliveryVars(Flush(e) /\ UNCHANGED lost)
                 /\ WF_deliveryVars(ReceiveNewest(e) /\ UNCHANGED lost)

LiveSpec == LiveInit /\ [][LiveNext]_deliveryVars /\ Fairness

-----------------------------------------------------------------------------
\* Every reliable message the client sends is handed to the server's
\* application, as long as the network does not lose every retransmission.
EventuallyDelivered ==
  \A i \in 0 .. MaxReliable["client"] - 1 : nextId["client"] > i ~> i \in Range(delivered["server"])
=============================================================================
