------------------------------ MODULE JobTable ------------------------------
(***************************************************************************)
(* The jobs table and the statements that change it.  Every action is one  *)
(* statement, which the database runs atomically; which process issues it, *)
(* and what it does with the answer, is for Queue and Pool to say.         *)
(***************************************************************************)
EXTENDS JobStore

CONSTANTS
  ClaimBatch,   \* queue.claim_batch
  MaxClaims     \* bound: how often one row may be claimed

ASSUME JobTableAssumption ==
  /\ ClaimBatch \in Nat \ {0}
  /\ MaxClaims \in Nat

VARIABLES
  rows,         \* the table
  handedBack    \* history: the jobs each process has released

table == <<rows, handedBack>>

InitTable ==
  /\ rows = [j \in Jobs |-> NoRow]
  /\ handedBack = [w \in Workers |-> {}]

-----------------------------------------------------------------------------
(* Producers.                                                              *)

\* Mutant: the partial index leaves out the retryable rows.
InsertBesideRetryable(j) ==
  /\ rows[j].state = "none"
  /\ \A k \in Jobs : rows[k].state \in Live \ {"retryable"}
                       => UniqueKey[k] # UniqueKey[j]
  /\ rows' = [rows EXCEPT ![j] = InsertRow(@)]
  /\ UNCHANGED handedBack

\* ON CONFLICT DO NOTHING against the partial unique index.
Insert(j) ==
  /\ rows[j].state = "none"
  /\ \A k \in Jobs : rows[k].state \in Live => UniqueKey[k] # UniqueKey[j]
  /\ rows' = [rows EXCEPT ![j] = InsertRow(@)]
  /\ UNCHANGED handedBack

-----------------------------------------------------------------------------
(* Worker processes.                                                       *)

NewClaim(w, j) == [job |-> j, worker |-> w, attempt |-> rows[j].attempt + 1,
                   gen |-> rows[j].gen + 1]

\* claimSQL.  SKIP LOCKED passes over rows others have locked, so any of the
\* claimable rows may be the ones that are taken.
TakeRows(w, S) ==
  /\ S # {} /\ Cardinality(S) <= ClaimBatch
  /\ \A j \in S : Claimable(rows[j]) /\ rows[j].gen < MaxClaims
  /\ rows' = [j \in Jobs |-> IF j \in S
                         THEN ClaimRow(rows[j], w) ELSE rows[j]]
  /\ UNCHANGED handedBack

\* heartbeatSQL: of the ids, the rows that still name the process.
RenewRows(w, S) ==
  /\ rows' = [j \in Jobs |-> IF j \in S /\ LockedBy(rows[j], w)
                         THEN HeartbeatRow(rows[j]) ELSE rows[j]]
  /\ UNCHANGED handedBack

\* A completion write: nothing happens unless the claim still holds.
Record(e, row) ==
  /\ rows' = [rows EXCEPT ![e.job] = IF ClaimGuard(@, e) THEN row ELSE @]
  /\ UNCHANGED handedBack

WriteSucceed(e) == Record(e, SucceedRow(rows[e.job]))

WriteSnooze(e) == Record(e, SnoozeRow(rows[e.job]))

WriteCancel(e) == Record(e, TerminalRow(rows[e.job], "cancelled"))

WriteDiscard(e) ==
  /\ e.attempt >= AttemptLimit(e.job, e.worker)
  /\ Record(e, TerminalRow(rows[e.job], "discarded"))

\* Mutant: off by one, <= for <.
WriteRetryOnceMore(e) ==
  /\ e.attempt <= AttemptLimit(e.job, e.worker)
  /\ Record(e, RetryRow(rows[e.job]))

WriteRetry(e) ==
  /\ e.attempt < AttemptLimit(e.job, e.worker)
  /\ Record(e, RetryRow(rows[e.job]))

\* releaseSQL.
ReleaseRows(w, S) ==
  /\ rows' = [j \in Jobs |-> IF j \in S /\ LockedBy(rows[j], w)
                         THEN ReleaseRow(rows[j]) ELSE rows[j]]
  /\ handedBack' = [handedBack EXCEPT
                      ![w] = @ \cup {j \in S : LockedBy(rows[j], w)}]

-----------------------------------------------------------------------------
(* Maintenance.                                                            *)

ScheduleRows ==
  /\ \E j \in Jobs : Schedulable(rows[j])
  /\ rows' = [j \in Jobs |-> IF Schedulable(rows[j])
                         THEN ScheduleRow(rows[j]) ELSE rows[j]]
  /\ UNCHANGED handedBack

ReapRows(w) ==
  /\ \E j \in Jobs : Reapable(rows[j])
  /\ rows' = [j \in Jobs |-> IF Reapable(rows[j])
                         THEN ReapRow(rows[j], j, w) ELSE rows[j]]
  /\ UNCHANGED handedBack

\* A sweep deletes at most purgeBatch rows, far more than a model has.
PurgeRows ==
  /\ \E j \in Jobs : Purgeable(rows[j])
  /\ rows' = [j \in Jobs |-> IF Purgeable(rows[j])
                         THEN PurgeRow(rows[j]) ELSE rows[j]]
  /\ UNCHANGED handedBack

-----------------------------------------------------------------------------
(* The database's clock passes a timestamp.                                *)

RowComesDue(j) ==
  /\ rows[j].scheduledAt = "future"
  /\ rows' = [rows EXCEPT ![j].scheduledAt = "due"]
  /\ UNCHANGED handedBack

RowLapses(j) ==
  /\ rows[j].leaseAt = "live"
  /\ rows' = [rows EXCEPT ![j].leaseAt = "lapsed"]
  /\ UNCHANGED handedBack

RowAges(j) ==
  /\ rows[j].finalizedAt = "recent"
  /\ rows' = [rows EXCEPT ![j].finalizedAt = "aged"]
  /\ UNCHANGED handedBack

=============================================================================
