------------------------------- MODULE MCJobs -------------------------------
(* Instances of Jobs for TLC.                                              *)
EXTENDS Jobs, TLC

CONSTANTS io, cpu, w1, w2, w3, j1, j2

Both == (w1 :> io) @@ (w2 :> io) @@ (w3 :> cpu)
=============================================================================
