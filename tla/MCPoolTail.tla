----------------------------- MODULE MCPoolTail -----------------------------
(* Instances of PoolTail for TLC.                                          *)
EXTENDS PoolTail, TLC

CONSTANTS j1, j2, w1, w2

TwoAttempts == [j \in Jobs |-> 2]
FleetOfTwo  == [w \in Workers |-> 2]
OwnKeys     == [j \in Jobs |-> j]
AnyJobOrder == Permutations(Jobs)
=============================================================================
