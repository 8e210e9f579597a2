---------------------------- MODULE MC_OplogPush ----------------------------
(* Instances of OplogPush for TLC.                                         *)
EXTENDS OplogPush, TLC

CONSTANTS laptop, hub, cli, hook

(* The middle op is as large as a chunk may be, the others half of that.   *)
MCBytes == [i \in 1 .. MaxOps |-> IF i = 2 THEN 2 ELSE 1]

ProcSymmetry == Permutations(Proc)
=============================================================================
