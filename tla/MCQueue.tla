------------------------------ MODULE MCQueue -------------------------------
(* Instances of Queue for TLC.                                             *)
EXTENDS Queue

CONSTANTS j1, j2, w1, w2

TwoAttempts == [j \in Jobs |-> 2]
FleetOfTwo  == [w \in Workers |-> 2]
LowerOnW1   == [w \in Workers |-> IF w = w1 THEN 1 ELSE 2]
OwnKeys     == [j \in Jobs |-> j]
SharedKey   == [j \in Jobs |-> j1]
=============================================================================
