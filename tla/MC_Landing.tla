---------------------------- MODULE MC_Landing ----------------------------
(* Instances of Landing for TLC.                                           *)
EXTENDS Landing, TLC

Landers == Permutations(Lander)
=============================================================================
