---------------------------- MODULE MC_FileLock ----------------------------
(* Instances of FileLock for TLC.                                          *)
EXTENDS FileLock

=============================================================================
