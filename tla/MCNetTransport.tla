--------------------------- MODULE MCNetTransport ---------------------------
(* Instances of NetTransport for TLC.                                      *)
EXTENDS NetTransport

\* Both ends send reliably, as the transport allows.
BothReliable == [client |-> 3, server |-> 1]

\* Sessions on the reliable channel, and sessions on the other two.
ReliableOrLossy == {{"reliable"}, {"sequenced", "unreliable"}}
=============================================================================
