---------------------------- MODULE MCNetSession ----------------------------
(* Instances of NetSession for TLC.                                        *)
EXTENDS NetSession, TLC

CONSTANTS c1, c2

Symmetry == Permutations(Client)

\* Both clients fit in a message and every tick has snapshots; or only one
\* client fits, and every other tick has snapshots.
Wide == [stride |-> 1, mtu |-> 2]
Narrow == [stride |-> 2, mtu |-> 1]
BothConfigs == {Wide, Narrow}
=============================================================================
