------------------------------ MODULE MCWrites ------------------------------
(* An instance of Writes for TLC.                                          *)
EXTENDS Writes

CONSTANTS t1, t2

SomeOps ==
  {[kind |-> "create"], [kind |-> "delete", task |-> t1]}
    \cup {[kind |-> "update", task |-> t1, expect |-> v] : v \in {0, 1}}
=============================================================================
