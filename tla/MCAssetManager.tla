---------------------------- MODULE MCAssetManager --------------------------
(* Instances of AssetManager for TLC.                                      *)
EXTENDS AssetManager

CONSTANTS k1, k2

OneWorkerEach == [q \in Queue |-> 1]
HighAndBackground ==
  {[prio |-> 1, tag |-> "boot"], [prio |-> 2, tag |-> "background"]}
=============================================================================
