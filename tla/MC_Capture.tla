---------------------------- MODULE MC_Capture ----------------------------
(* Instances of Capture for TLC: a task and two rows that hang off it.     *)
EXTENDS Capture

CONSTANTS t, c, d
HangsOff == [r \in Row |-> t]

=============================================================================
