---------------------------- MODULE MC_Copilot ----------------------------
(* Instances of Copilot for TLC.                                           *)
EXTENDS Copilot
=============================================================================
