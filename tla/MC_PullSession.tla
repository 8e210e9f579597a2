--------------------------- MODULE MC_PullSession ---------------------------
(* Instances of PullSession for TLC.                                       *)
EXTENDS PullSession, TLC

CONSTANTS laptop, phone, cli, hook

ProcSymmetry == Permutations(Proc)
=============================================================================
