---------------------------- MODULE MCVideoPlayback ----------------------------
(* Instances of VideoPlayback for TLC.                                     *)
EXTENDS VideoPlayback

File(v, a, h) == [video |-> v, audio |-> a, hold |-> h]

\* Two movies that play; a longer one before one too short to start.
TwoFiles == {<<File(2, 1, TRUE), File(2, 1, FALSE)>>, <<File(2, 2, FALSE), File(1, 0, TRUE)>>}
\* Three short ones.
ThreeFiles == {<<File(2, 1, FALSE), File(2, 1, FALSE), File(2, 1, FALSE)>>}
=============================================================================
