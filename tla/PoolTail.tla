------------------------------ MODULE PoolTail ------------------------------
(***************************************************************************)
(* What the heartbeat is worth.  The claim loop registers a batch job by   *)
(* job, each before its hand-off, and blocks on the hand-off: the jobs     *)
(* behind it, the tail, hold leases that no heartbeat renews.  This module *)
(* adds to Pool a history of the jobs whose lease ran out in a tail, and   *)
(* says what a process that heartbeats in time can rely on for all other   *)
(* jobs, whatever the size of the batch.                                   *)
(*                                                                         *)
(* A tail that lapses can cost more than its own claim.  Dispatched late,  *)
(* it runs beside the job's next claim, and in one process its untrack     *)
(* removes the entry of that claim, which then lapses in turn.  The        *)
(* history is therefore of jobs and not of claims.                         *)
(***************************************************************************)
EXTENDS Pool

VARIABLE overtaken  \* history: the jobs whose lease ran out in a tail

historyVars == <<vars, overtaken>>

\* A process that heartbeats holds the job's claim and has not registered it.
InTail(j) ==
  \E w \in Workers :
    /\ Beating(w)
    /\ \E e \in loop[w].batch : e.job = j /\ ClaimGuard(rows[j], e)

Lapses(j) == rows[j].leaseAt = "live" /\ rows'[j].leaseAt = "lapsed"

Remember == overtaken' = overtaken \cup {j \in Jobs : InTail(j) /\ Lapses(j)}

HistorySpec ==
  Init /\ overtaken = {} /\ [][Next /\ Remember]_historyVars

-----------------------------------------------------------------------------

(***************************************************************************)
(* One handler per job across the fleet while heartbeats are on time: the  *)
(* lease keeps every process, its owner included, from a job whose handler *)
(* still runs, unless the lease ran out in the tail of a batch.            *)
(***************************************************************************)
OneHandlerPerJob ==
  \A v, w \in Workers : \A q \in runs[v], r \in runs[w] :
    /\ Beating(v) /\ Beating(w)
    /\ q.pc = "handling" /\ r.pc = "handling"
    /\ q.claim.job = r.claim.job /\ q.claim.job \notin overtaken
    => v = w /\ q = r

(***************************************************************************)
(* A run whose claim still holds is in the map, so it is heartbeated and a *)
(* drain waits for it: no untrack of an earlier run of the job, and no     *)
(* placeholder of a later claim, takes its entry, unless the job was       *)
(* overtaken in a tail.                                                    *)
(***************************************************************************)
CurrentRunTracked ==
  \A w \in Workers : \A r \in runs[w] :
    /\ Beating(w) /\ r.pc = "handling"
    /\ ClaimGuard(rows[r.claim.job], r.claim)
    /\ r.claim.job \notin overtaken
    => inflight[w][r.claim.job].tracked

(***************************************************************************)
(* The tail is the only hole: what a reaper takes from a process whose     *)
(* heartbeats are on time is a job whose lease ran out in the tail of a    *)
(* batch.                                                                  *)
(***************************************************************************)
OnlyTailsReaped ==
  [][\A v \in Workers : ReapRows(v) =>
       \A w \in Workers : \A e \in Held(w) :
         Beating(w) /\ ClaimGuard(rows[e.job], e) /\ Reapable(rows[e.job])
           => e.job \in overtaken]_historyVars

=============================================================================
