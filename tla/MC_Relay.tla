------------------------------ MODULE MC_Relay ------------------------------
(* Instances of Relay for TLC.                                             *)
EXTENDS Relay

CONSTANTS permission, form

=============================================================================
