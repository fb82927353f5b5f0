---------------------------- MODULE MCNetDelivery ----------------------------
(* Instances of NetDelivery for TLC.                                       *)
EXTENDS NetDelivery

ClientReliable == [client |-> 2, server |-> 0]
AllButSequenced == {{"reliable", "unreliable"}}
=============================================================================
