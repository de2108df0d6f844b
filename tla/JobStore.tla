------------------------------ MODULE JobStore ------------------------------
(***************************************************************************)
(* The rows of the jobs table and what each SQL statement of the queue     *)
(* does to one row.  This module has no state: Queue and Pool keep the     *)
(* table and say which statement runs when.                                *)
(*                                                                         *)
(* Timestamps are abstracted to what the statements ask of them, always    *)
(* against the database's now(): whether scheduled_at has come, whether    *)
(* the lease has lapsed, whether finalized_at is set and past retention.   *)
(***************************************************************************)
EXTENDS Naturals, Sequences, FiniteSets

CONSTANTS
  Jobs,         \* identities of the jobs; an id is never used again
  Workers,      \* worker ids; one per process life (app/queue.go, workerID)
  NoWorker,     \* locked_by IS NULL
  MaxAttempts,  \* max_attempts of each row
  Ceiling,      \* queue.max_attempts of each process: the fleet-wide ceiling
  UniqueKey     \* unique_key of each job; a job without one has its own

ASSUME JobStoreAssumption ==
  /\ Workers # {} /\ NoWorker \notin Workers
  /\ MaxAttempts \in [Jobs -> Nat \ {0}]      \* CHECK (max_attempts >= 1)
  /\ Ceiling \in [Workers -> Nat \ {0}]       \* config.Queue.Validate

(***************************************************************************)
(* job_state, with "none" for an id that is not inserted yet and "purged"  *)
(* for a row that was deleted.                                             *)
(***************************************************************************)
Waiting  == {"available", "scheduled", "retryable"}
Live     == Waiting \cup {"running"}
Terminal == {"succeeded", "cancelled", "discarded"}
States   == Live \cup Terminal \cup {"none", "purged"}

(***************************************************************************)
(* One row.  errors keeps the attempt number of each entry.  gen is a      *)
(* history variable: it counts the claims ever made of the row, so that a  *)
(* claim has an identity even where the columns cannot tell two apart.     *)
(***************************************************************************)
Row == [state       : States,
        attempt     : Nat,
        lockedBy    : Workers \cup {NoWorker},
        scheduledAt : {"future", "due"},
        leaseAt     : {"null", "live", "lapsed"},
        finalizedAt : {"null", "recent", "aged"},
        errors      : Seq(Nat),
        gen         : Nat]

\* A claim as the process that made it knows it: the Job the query returned.
Claims == [job : Jobs, worker : Workers, attempt : Nat, gen : Nat]

NoRow == [state |-> "none", attempt |-> 0, lockedBy |-> NoWorker,
          scheduledAt |-> "due", leaseAt |-> "null", finalizedAt |-> "null",
          errors |-> <<>>, gen |-> 0]

-----------------------------------------------------------------------------
(* Which rows a statement touches.                                         *)

Claimable(r) == r.state = "available" /\ r.scheduledAt = "due"

\* Mutant: WHERE id = ANY(...) alone.
LockedByAnyone(r, w) == TRUE

\* heartbeatSQL and releaseSQL: the attempt is not part of the test.
LockedBy(r, w) == r.state = "running" /\ r.lockedBy = w

\* Mutant: the guard forgets the attempt.
ClaimGuardByWorker(r, e) == LockedBy(r, e.worker)

\* claimGuard, appended to every completion write.
ClaimGuard(r, e) == LockedBy(r, e.worker) /\ r.attempt = e.attempt

\* Mutants: the scheduler forgets the state test, or half of it.
SchedulableByTime(r) == r.scheduledAt = "due"
SchedulableSnoozed(r) == r.state = "scheduled" /\ r.scheduledAt = "due"

Schedulable(r) == r.state \in {"retryable", "scheduled"} /\ r.scheduledAt = "due"

\* Mutants: the reaper forgets the lease, or asks for a row without one.
ReapableAnyLease(r) == r.state = "running"
ReapableNoLease(r)  == r.state = "running" /\ r.leaseAt = "null"

Reapable(r) == r.state = "running" /\ r.leaseAt = "lapsed"

Purgeable(r) == r.state \in Terminal /\ r.finalizedAt = "aged"

-----------------------------------------------------------------------------
(* What a statement makes of a row it touches.                             *)

\* The per-job budget under a process's ceiling: the lower wins.
AttemptLimit(j, w) ==
  IF Ceiling[w] < MaxAttempts[j] THEN Ceiling[w] ELSE MaxAttempts[j]

\* Mutant: the lease is left behind.
UnlockedLeased(r) == [r EXCEPT !.lockedBy = NoWorker]

Unlocked(r) == [r EXCEPT !.lockedBy = NoWorker, !.leaseAt = "null"]

InsertRow(r) == [r EXCEPT !.state = "available"]

ClaimRow(r, w) == [r EXCEPT !.state = "running", !.attempt = @ + 1,
                            !.lockedBy = w, !.leaseAt = "live", !.gen = @ + 1]

HeartbeatRow(r) == [r EXCEPT !.leaseAt = "live"]

SucceedRow(r) == [Unlocked(r) EXCEPT !.state = "succeeded",
                                     !.finalizedAt = "recent"]

RetryRow(r) == [Unlocked(r) EXCEPT !.state = "retryable",
                                   !.scheduledAt = "future",
                                   !.errors = Append(@, r.attempt)]

\* Mutant: finalized_at is left NULL.
TerminalRowUndated(r, state) == [Unlocked(r) EXCEPT !.state = state,
                                                    !.errors = Append(@, r.attempt)]

\* terminalSQL, for Cancel and for Discard.
TerminalRow(r, state) == [Unlocked(r) EXCEPT !.state = state,
                                             !.finalizedAt = "recent",
                                             !.errors = Append(@, r.attempt)]

\* Mutant: a snooze keeps the attempt it was claimed with.
SnoozeRowPays(r) == [Unlocked(r) EXCEPT !.state = "scheduled",
                                        !.scheduledAt = "future"]

SnoozeRow(r) == [Unlocked(r) EXCEPT !.state = "scheduled", !.attempt = @ - 1,
                                    !.scheduledAt = "future"]

ReleaseRow(r) == [Unlocked(r) EXCEPT !.state = "available", !.attempt = @ - 1]

ScheduleRow(r) == [r EXCEPT !.state = "available"]

\* The state compares the attempt with LEAST(max_attempts, ceiling), the
\* finalized_at with max_attempts alone.
ReapRow(r, j, w) ==
  [Unlocked(r) EXCEPT
     !.state       = IF r.attempt >= AttemptLimit(j, w)
                     THEN "discarded" ELSE "retryable",
     !.scheduledAt = "future",
     !.finalizedAt = IF r.attempt >= MaxAttempts[j] THEN "recent" ELSE "null",
     !.errors      = Append(@, r.attempt)]

PurgeRow(r) == [r EXCEPT !.state = "purged"]

=============================================================================
