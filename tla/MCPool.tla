------------------------------- MODULE MCPool -------------------------------
(* Instances of Pool for TLC.                                              *)
EXTENDS Pool

CONSTANTS j1, j2, w1, w2

TwoAttempts == [j \in Jobs |-> 2]
FleetOfTwo  == [w \in Workers |-> 2]
OwnKeys     == [j \in Jobs |-> j]
=============================================================================
