------------------------------ MODULE MCMemory ------------------------------
(* Instances of Memory for TLC.                                            *)
EXTENDS Memory, TLC

CONSTANTS r1, r2, r3, k1

SomeOps == {[kind |-> "create"],
            [kind |-> "update", task |-> 1, expect |-> 1, status |-> 1],
            [kind |-> "delete", task |-> 1]}

\* Requests differ only in what they ask, which any of them may ask.
AnyOrder == Permutations(Requests)
=============================================================================
