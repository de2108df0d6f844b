------------------------------- MODULE Queue --------------------------------
(***************************************************************************)
(* The job queue as the table sees it: processes claim rows under a lease, *)
(* extend the leases, write outcomes under the claim guard, hand jobs back *)
(* and die; one process at a time sweeps the table.                        *)
(*                                                                         *)
(* Every action is one SQL statement with the step of the process that     *)
(* issues it.  Nothing is assumed of the order in which processes act: a   *)
(* process may sit on a claim while the row is reaped, claimed again and   *)
(* finished by others.  Pool refines this module.                          *)
(***************************************************************************)
EXTENDS JobTable

CONSTANT MinUp  \* bound: how many processes never crash

ASSUME QueueAssumption == MinUp \in Nat

VARIABLES
  held,         \* the claims some process still works under
  up            \* the processes that are alive

vars == <<rows, handedBack, held, up>>

HeldBy(w) == {e \in held : e.worker = w}

\* outbox.Enqueue, in the producer's transaction.
Enqueue(j) == Insert(j) /\ UNCHANGED <<held, up>>

-----------------------------------------------------------------------------
(* Worker processes.                                                       *)

Claim(w, S) ==
  /\ w \in up
  /\ TakeRows(w, S)
  /\ held' = held \cup {NewClaim(w, j) : j \in S}
  /\ UNCHANGED up

\* The statement commits and its answer is lost: Claim returns an error and
\* the process knows nothing of the rows that now name it.
ClaimLost(w, S) == w \in up /\ TakeRows(w, S) /\ UNCHANGED <<held, up>>

\* The list a process heartbeats may be out of date: what is on it need not be
\* held any more.
Heartbeat(w, S) == w \in up /\ RenewRows(w, S) /\ UNCHANGED <<held, up>>

\* A completion write ends the claim whether or not it matches the row.
Done(e) == e \in held /\ held' = held \ {e} /\ UNCHANGED up

Succeed(e) == Done(e) /\ WriteSucceed(e)
Snooze(e)  == Done(e) /\ WriteSnooze(e)
Cancel(e)  == Done(e) /\ WriteCancel(e)
Discard(e) == Done(e) /\ WriteDiscard(e)
Retry(e)   == Done(e) /\ WriteRetry(e)

\* The write itself fails: the process is done with the job all the same.
WriteFails(e) == Done(e) /\ UNCHANGED table

\* The drain deadline: jobs go back while their handlers still run.
Release(w, S) == w \in up /\ ReleaseRows(w, S) /\ UNCHANGED <<held, up>>

\* The run context ends while a batch is being dispatched: the job in hand
\* goes back, and it and the rest of its batch are forgotten.
HandBack(e, C) ==
  /\ e \in held /\ C \subseteq HeldBy(e.worker)
  /\ e.worker \in up
  /\ ReleaseRows(e.worker, {e.job})
  /\ held' = held \ (C \cup {e})
  /\ UNCHANGED up

\* The same when the release fails: the table does not learn of it.
Abandon(e, C) ==
  /\ e \in held /\ C \subseteq HeldBy(e.worker)
  /\ held' = held \ (C \cup {e})
  /\ UNCHANGED <<table, up>>

\* The process ends, by a crash or at the end of its drain.
Crash(w) ==
  /\ w \in up
  /\ Cardinality(up) > MinUp
  /\ up' = up \ {w}
  /\ held' = held \ HeldBy(w)
  /\ UNCHANGED table

-----------------------------------------------------------------------------
(* Maintenance, by whichever process leads.  A sweep is Schedule and then  *)
(* Reap, two statements of their own: rows may come due in between, and an *)
(* error of the first leaves out the second.                               *)

Schedule(w) == w \in up /\ ScheduleRows /\ UNCHANGED <<held, up>>
Reap(w)     == w \in up /\ ReapRows(w) /\ UNCHANGED <<held, up>>
Purge(w)    == w \in up /\ PurgeRows /\ UNCHANGED <<held, up>>

-----------------------------------------------------------------------------
(* The database's clock.                                                   *)

BecomeDue(j)       == RowComesDue(j) /\ UNCHANGED <<held, up>>
LeaseLapse(j)      == RowLapses(j) /\ UNCHANGED <<held, up>>
RetentionPasses(j) == RowAges(j) /\ UNCHANGED <<held, up>>

-----------------------------------------------------------------------------

Init == InitTable /\ held = {} /\ up = Workers

Finish(e) == Succeed(e) \/ Snooze(e) \/ Cancel(e) \/ Discard(e) \/ Retry(e)
               \/ WriteFails(e)

Next ==
  \/ \E j \in Jobs : Enqueue(j) \/ BecomeDue(j) \/ LeaseLapse(j)
                       \/ RetentionPasses(j)
  \/ \E w \in Workers : \E S \in SUBSET Jobs :
       Claim(w, S) \/ ClaimLost(w, S) \/ Heartbeat(w, S) \/ Release(w, S)
  \/ \E w \in Workers : Schedule(w) \/ Reap(w) \/ Purge(w) \/ Crash(w)
  \/ \E e \in held : Finish(e) \/ \E C \in SUBSET held :
                                  HandBack(e, C) \/ Abandon(e, C)

Spec == Init /\ [][Next]_vars

(***************************************************************************)
(* Fairness: the clock runs; the leader's tickers fire; a claim loop that  *)
(* is up polls; every handler returns, at the latest at its job timeout.   *)
(***************************************************************************)
Fairness ==
  /\ \A j \in Jobs : /\ WF_vars(BecomeDue(j))
                     /\ WF_vars(LeaseLapse(j))
                     /\ WF_vars(RetentionPasses(j))
                     /\ WF_vars(\E w \in Workers : Claim(w, {j}))
                     /\ \A w \in Workers :
                          WF_vars(\E e \in held : /\ e.job = j /\ e.worker = w
                                                  /\ Finish(e))
  /\ WF_vars(\E w \in Workers : Schedule(w))
  /\ WF_vars(\E w \in Workers : Reap(w))
  /\ WF_vars(\E w \in Workers : Purge(w))

FairSpec == Spec /\ Fairness

-----------------------------------------------------------------------------
(* Safety.                                                                 *)

TypeOK ==
  /\ rows \in [Jobs -> Row]
  /\ held \subseteq Claims
  /\ up \subseteq Workers
  /\ handedBack \in [Workers -> SUBSET Jobs]

(***************************************************************************)
(* Exactly the running rows are locked and leased, so a row is always      *)
(* visible to the claim, to the scheduler or to the reaper, and never to   *)
(* two of them: no statement leaves a lock behind or forgets to take one.  *)
(***************************************************************************)
LeaseIffRunning ==
  \A j \in Jobs : LET r == rows[j] IN
    /\ r.state = "running" <=> r.lockedBy # NoWorker
    /\ r.state = "running" <=> r.leaseAt # "null"

\* The attempts a job has paid for: all it started but the one that is running
\* or that succeeded.
Paid(r) == IF r.state \in {"running", "succeeded"} THEN r.attempt - 1 ELSE r.attempt

(***************************************************************************)
(* The error history accounts for every attempt a job has paid for: Retry, *)
(* Cancel, Discard and Reap leave an entry for the attempt they end, in    *)
(* order, and what gives an attempt back (Snooze, Release) does not make   *)
(* it look paid.  No claim leaves two entries, whoever ends it: a reaped   *)
(* zombie does not report its attempt again.  Whether a snooze leaves an   *)
(* entry is SnoozeReasonRecorded's question.                               *)
(***************************************************************************)
ErrorHistory ==
  \A j \in Jobs : LET r == rows[j] IN
    r.state # "purged" =>
      /\ \A n \in 1 .. Paid(r) : \E i \in 1 .. Len(r.errors) : r.errors[i] = n
      /\ \A i, k \in 1 .. Len(r.errors) : i < k => r.errors[i] <= r.errors[k]
      /\ Len(r.errors) + (r.attempt - Paid(r)) <= r.gen

(***************************************************************************)
(* The reason of a snooze is in the error history of the job, under the    *)
(* attempt it gave back, as the comment on SnoozeError.Reason has it: only *)
(* a snooze makes a row scheduled.                                         *)
(***************************************************************************)
SnoozeReasonRecorded ==
  \A j \in Jobs : LET r == rows[j] IN
    r.state = "scheduled" => \E i \in 1 .. Len(r.errors) : r.errors[i] = r.attempt + 1

(***************************************************************************)
(* No job starts more attempts than its own max_attempts and the ceiling   *)
(* of the most generous process allow, whether its attempts end in errors, *)
(* snoozes, releases or crashes, and a job that waits has one left.        *)
(***************************************************************************)
AttemptBudget ==
  \A j \in Jobs : \E w \in Workers :
    /\ rows[j].attempt <= AttemptLimit(j, w)
    /\ rows[j].state \in Waiting => rows[j].attempt < AttemptLimit(j, w)

(***************************************************************************)
(* The claim guard fences off zombies: a completion write that matches the *)
(* row comes from the very claim the row is running under, unless the      *)
(* process had itself handed the job back.  Reaping a claim leaves its     *)
(* attempt number in the error history, and no later claim gets a number   *)
(* that is already there.                                                  *)
(***************************************************************************)
FencedByAttempt ==
  \A e \in held :
    ClaimGuard(rows[e.job], e) /\ e.job \notin handedBack[e.worker]
      => e.gen = rows[e.job].gen

(***************************************************************************)
(* One live job per unique key at any time: every statement that moves a   *)
(* job keeps it among the states the partial index covers until it is      *)
(* final, so a key is not reserved again behind a job that waits.          *)
(***************************************************************************)
OneLiveJobPerKey ==
  \A j, k \in Jobs :
    rows[j].state \in Live /\ rows[k].state \in Live
      /\ UniqueKey[j] = UniqueKey[k] => j = k

(***************************************************************************)
(* The queue keeps the promises of JobLifecycle, job by job.               *)
(***************************************************************************)
PhaseOf(r) == CASE r.state = "none"       -> "none"
                [] r.state \in Waiting    -> "pending"
                [] r.state = "running"    -> "active"
                [] r.state \in Terminal   -> "done"
                [] r.state = "purged"     -> "gone"

Lifecycle == INSTANCE JobLifecycle WITH
  Budget <- MaxAttempts,
  phase  <- [j \in Jobs |-> PhaseOf(rows[j])],
  spent  <- [j \in Jobs |-> Len(rows[j].errors)]

ImplementsLifecycle == Lifecycle!Spec

-----------------------------------------------------------------------------
(* Liveness, under FairSpec.                                               *)

(***************************************************************************)
(* A row whose process is gone does not stay running: its lease lapses and *)
(* the reaper takes it back.                                               *)
(***************************************************************************)
CrashedJobReclaimed ==
  \A j \in Jobs :
    rows[j].state = "running" /\ rows[j].lockedBy \notin up
      ~> rows[j].state # "running"

(***************************************************************************)
(* Rows that came to their own end leave the table: a job that succeeded,  *)
(* was cancelled, or used up its own max_attempts is purged, whichever     *)
(* process ended it and however it died on the way.                        *)
(***************************************************************************)
EndedRowsPurged ==
  \A j \in Jobs :
    rows[j].state \in Terminal
      /\ (rows[j].state = "discarded" => rows[j].attempt >= MaxAttempts[j])
      ~> rows[j].state = "purged"

(***************************************************************************)
(* The table does not grow forever: every final row is purged in the end,  *)
(* also one that a ceiling below its max_attempts cut short.               *)
(***************************************************************************)
FinalRowsPurged ==
  \A j \in Jobs : rows[j].state \in Terminal ~> rows[j].state = "purged"

=============================================================================
