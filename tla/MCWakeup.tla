------------------------------ MODULE MCWakeup ------------------------------
(* Instances of Wakeup for TLC.                                            *)
EXTENDS Wakeup

CONSTANTS j1, j2
=============================================================================
