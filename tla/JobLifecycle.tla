---------------------------- MODULE JobLifecycle ----------------------------
(***************************************************************************)
(* What the queue promises of a job, whatever processes, leases and        *)
(* crashes lie behind it: a job is worked on by one claim at a time, each  *)
(* failed attempt is paid for once out of its budget, an attempt that is   *)
(* handed back costs nothing, and a finished job is never taken up again.  *)
(***************************************************************************)
EXTENDS Naturals

CONSTANTS Jobs, Budget

VARIABLES
  phase,  \* where each job is
  spent   \* how many attempts each job has paid for

vars == <<phase, spent>>

Phases == {"none", "pending", "active", "done", "gone"}

Moves(j, from, to) == phase[j] = from /\ phase'[j] = to

Pays(j)     == spent'[j] = spent[j] + 1
PaysNone(j) == spent'[j] = spent[j]

Submit(j)   == Moves(j, "none", "pending") /\ PaysNone(j)
Start(j)    == Moves(j, "pending", "active") /\ PaysNone(j)
GiveBack(j) == Moves(j, "active", "pending") /\ PaysNone(j)
Complete(j) == Moves(j, "active", "done") /\ PaysNone(j)
Fail(j)     == Moves(j, "active", "pending") /\ Pays(j) /\ spent'[j] < Budget[j]
GiveUp(j)   == Moves(j, "active", "done") /\ Pays(j) /\ spent'[j] <= Budget[j]
Forget(j)   == Moves(j, "done", "gone") /\ PaysNone(j)
Rest(j)     == phase'[j] = phase[j] /\ spent'[j] = spent[j]

JobStep(j) == Submit(j) \/ Start(j) \/ GiveBack(j) \/ Complete(j) \/ Fail(j)
                \/ GiveUp(j) \/ Forget(j) \/ Rest(j)

Init == /\ phase = [j \in Jobs |-> "none"]
        /\ spent = [j \in Jobs |-> 0]

\* A statement may touch several rows: every job makes a step of its own.
Next == /\ phase' \in [Jobs -> Phases]
        /\ spent' \in [Jobs -> Nat]
        /\ \A j \in Jobs : JobStep(j)

Spec == Init /\ [][Next]_vars

=============================================================================
