---------------------------- MODULE QueueProofs -----------------------------
(***************************************************************************)
(* Proofs about Queue, for every set of jobs and processes and every value *)
(* of the bounds.                                                          *)
(*                                                                         *)
(* Every statement of the queue changes each row on its own.  RowStep says *)
(* how one row may change, RowOK what holds of one row; that a step of     *)
(* Queue is a RowStep of every row is proved once (StepIsRowStep), and the *)
(* row invariant and the refinement of JobLifecycle are then arguments     *)
(* about a single row.                                                     *)
(***************************************************************************)
EXTENDS Queue, TLAPS, SequenceTheorems

USE JobStoreAssumption

\* What holds of each row: type, lease, error history, attempt budget.
RowOK(r, j) ==
  /\ r \in Row
  /\ r.state = "running" <=> r.lockedBy # NoWorker
  /\ r.state = "running" <=> r.leaseAt # "null"
  /\ \A i \in 1 .. Len(r.errors) : r.errors[i] = i
  /\ r.state \in {"running", "succeeded"} => r.attempt = Len(r.errors) + 1
  /\ r.state \in {"none", "cancelled", "discarded"} \cup Waiting
       => r.attempt = Len(r.errors)
  /\ \E w \in Workers :
       /\ r.attempt <= AttemptLimit(j, w)
       /\ r.state \in Waiting => r.attempt < AttemptLimit(j, w)
  /\ r.state = "none" => r.attempt = 0
  /\ r.attempt <= r.gen

RowsOK == \A j \in Jobs : RowOK(rows[j], j)

\* The ways one row may change in one step.
Fails(r, j, n) ==
  /\ r.state = "running"
  /\ n.lockedBy = NoWorker /\ n.leaseAt = "null"
  /\ n.errors = Append(r.errors, r.attempt)
  /\ n.attempt = r.attempt /\ n.gen = r.gen
  /\ \/ n.state \in {"cancelled", "discarded"}
     \/ /\ n.state = "retryable"
        /\ \E w \in Workers : r.attempt < AttemptLimit(j, w)

HandsBack(r, n) ==
  /\ r.state = "running"
  /\ n.lockedBy = NoWorker /\ n.leaseAt = "null"
  /\ n.attempt = r.attempt - 1 /\ n.errors = r.errors /\ n.gen = r.gen
  /\ n.state \in {"scheduled", "available"}

ClockPasses(r, n) ==
  \/ n = [r EXCEPT !.scheduledAt = "due"]
  \/ r.leaseAt = "live" /\ n = [r EXCEPT !.leaseAt = "lapsed"]
  \/ n = [r EXCEPT !.finalizedAt = "aged"]

RowStep(r, j, n) ==
  \/ n = r
  \/ r.state = "none" /\ n = InsertRow(r)
  \/ \E w \in Workers : Claimable(r) /\ n = ClaimRow(r, w)
  \/ r.state = "running" /\ n = HeartbeatRow(r)
  \/ r.state = "running" /\ n = SucceedRow(r)
  \/ n \in Row /\ Fails(r, j, n)
  \/ n \in Row /\ HandsBack(r, n)
  \/ Schedulable(r) /\ n = ScheduleRow(r)
  \/ Purgeable(r) /\ n = PurgeRow(r)
  \/ ClockPasses(r, n)

-----------------------------------------------------------------------------
(* Lemmas on one row.                                                      *)

\* The attempt limit of a job is at least one and at most what its row
\* allows.
LEMMA LimitType ==
  ASSUME NEW j \in Jobs, NEW w \in Workers
  PROVE  /\ AttemptLimit(j, w) \in Nat
         /\ 0 < AttemptLimit(j, w)
         /\ AttemptLimit(j, w) <= MaxAttempts[j]
  BY DEF AttemptLimit

\* An attempt number appended to a history that is 1..n keeps it so.
LEMMA HistoryGrows ==
  ASSUME NEW s \in Seq(Nat), NEW a \in Nat,
         \A i \in 1 .. Len(s) : s[i] = i, a = Len(s) + 1
  PROVE  /\ Append(s, a) \in Seq(Nat)
         /\ Len(Append(s, a)) = Len(s) + 1
         /\ \A i \in 1 .. Len(Append(s, a)) : Append(s, a)[i] = i
  BY AppendProperties

\* No step of a row breaks what holds of a row.
LEMMA RowStepOK ==
  ASSUME NEW j \in Jobs, NEW r, NEW n, RowOK(r, j), RowStep(r, j, n)
  PROVE  RowOK(n, j)
<1>1. r \in Row
  BY DEF RowOK
<1>2. CASE n = r
  BY <1>2
<1>3. CASE r.state = "none" /\ n = InsertRow(r)
  <2>1. n \in Row
    BY <1>1, <1>3 DEF InsertRow, Row, States, Live, Waiting
  <2>2. /\ n.state = "available" /\ n.attempt = r.attempt /\ n.errors = r.errors
        /\ n.gen = r.gen /\ n.lockedBy = r.lockedBy /\ n.leaseAt = r.leaseAt
    BY <1>1, <1>3 DEF InsertRow, Row
  <2>3. /\ r.attempt = 0 /\ r.attempt = Len(r.errors)
        /\ r.lockedBy = NoWorker /\ r.leaseAt = "null"
    BY <1>3 DEF RowOK
  <2>4. PICK w \in Workers : r.attempt < AttemptLimit(j, w)
    BY <2>3, LimitType DEF RowOK
  <2>5. n.attempt <= AttemptLimit(j, w) /\ n.attempt < AttemptLimit(j, w)
    BY <2>2, <2>3, <2>4, LimitType
  <2>6. \A i \in 1 .. Len(n.errors) : n.errors[i] = i
    BY <2>2 DEF RowOK
  <2>7. QED
    BY <2>1, <2>2, <2>3, <2>5, <2>6 DEF RowOK
<1>4. CASE \E w \in Workers : Claimable(r) /\ n = ClaimRow(r, w)
  <2>1. PICK w \in Workers : Claimable(r) /\ n = ClaimRow(r, w)
    BY <1>4
  <2>2. PICK v \in Workers : r.attempt < AttemptLimit(j, v)
    BY <2>1 DEF RowOK, Claimable, Waiting
  <2>3. n.attempt = r.attempt + 1 /\ n.gen = r.gen + 1 /\ n.state = "running"
    BY <1>1, <2>1 DEF ClaimRow, Row
  <2>4. n.attempt <= AttemptLimit(j, v)
    BY <1>1, <2>2, <2>3, LimitType DEF Row
  <2>5. n \in Row /\ n.lockedBy \in Workers /\ n.leaseAt = "live"
    <3>1. r.attempt + 1 \in Nat /\ r.gen + 1 \in Nat /\ "running" \in States
      BY <1>1 DEF Row, States, Live
    <3>2. /\ n = [r EXCEPT !.state = "running", !.attempt = r.attempt + 1,
                          !.lockedBy = w, !.leaseAt = "live", !.gen = r.gen + 1]
      BY <2>1 DEF ClaimRow
    <3>3. n \in Row
      BY <1>1, <3>1, <3>2 DEF Row
    <3>4. n.lockedBy = w /\ n.leaseAt = "live"
      BY <1>1, <3>2 DEF Row
    <3>5. QED
      BY <3>3, <3>4
  <2>6. n.errors = r.errors /\ r.attempt = Len(r.errors)
    BY <1>1, <2>1 DEF RowOK, Claimable, Waiting, ClaimRow, Row
  <2>7. n.attempt <= n.gen
    BY <1>1, <2>3 DEF RowOK, Row
  <2>8. QED
    BY <2>2, <2>3, <2>4, <2>5, <2>6, <2>7 DEF RowOK, Waiting
<1>5. CASE r.state = "running" /\ n = HeartbeatRow(r)
  <2>1. n \in Row
    BY <1>1, <1>5 DEF HeartbeatRow, Row
  <2>2. /\ n.state = "running" /\ n.attempt = r.attempt /\ n.errors = r.errors
        /\ n.gen = r.gen /\ n.lockedBy = r.lockedBy /\ n.leaseAt = "live"
    BY <1>1, <1>5 DEF HeartbeatRow, Row
  <2>3. QED
    BY <1>5, <2>1, <2>2 DEF RowOK
<1>6. CASE r.state = "running" /\ n = SucceedRow(r)
  <2>1. n \in Row
    BY <1>1, <1>6 DEF SucceedRow, Unlocked, Row, States, Terminal
  <2>2. /\ n.state = "succeeded" /\ n.attempt = r.attempt /\ n.errors = r.errors
        /\ n.gen = r.gen /\ n.lockedBy = NoWorker /\ n.leaseAt = "null"
    BY <1>1, <1>6 DEF SucceedRow, Unlocked, Row
  <2>3. QED
    BY <1>6, <2>1, <2>2 DEF RowOK, Waiting
<1>7. CASE n \in Row /\ Fails(r, j, n)
  <2>1. /\ r.errors \in Seq(Nat) /\ r.attempt \in Nat
        /\ r.attempt = Len(r.errors) + 1
        /\ \A i \in 1 .. Len(r.errors) : r.errors[i] = i
    BY <1>1, <1>7 DEF RowOK, Fails, Row
  <2>2. /\ n.errors \in Seq(Nat)
        /\ Len(n.errors) = r.attempt
        /\ \A i \in 1 .. Len(n.errors) : n.errors[i] = i
    BY <1>7, <2>1, HistoryGrows DEF Fails
  <2>3. n.attempt = Len(n.errors)
    BY <1>7, <2>2 DEF Fails
  <2>4. \E w \in Workers :
          /\ n.attempt <= AttemptLimit(j, w)
          /\ n.state \in Waiting => n.attempt < AttemptLimit(j, w)
    <3>1. CASE n.state = "retryable"
      BY <1>7, <2>1, <3>1, LimitType DEF Fails
    <3>2. CASE n.state # "retryable"
      BY <1>7, <2>1, <3>2, LimitType DEF RowOK, Fails, Waiting
    <3>3. QED
      BY <3>1, <3>2
  <2>5. n.attempt <= n.gen
    BY <1>7 DEF RowOK, Fails
  <2>6. QED
    BY <1>7, <2>2, <2>3, <2>4, <2>5 DEF RowOK, Fails, Waiting
<1>8. CASE n \in Row /\ HandsBack(r, n)
  <2>1. /\ r.attempt \in Nat /\ n.attempt = Len(n.errors)
        /\ \A i \in 1 .. Len(n.errors) : n.errors[i] = i
    <3>1. r.attempt \in Nat /\ r.errors \in Seq(Nat)
      BY <1>1 DEF Row
    <3>2. r.attempt = Len(r.errors) + 1 /\ \A i \in 1 .. Len(r.errors) : r.errors[i] = i
      BY <1>8 DEF RowOK, HandsBack
    <3>3. n.attempt = r.attempt - 1 /\ n.errors = r.errors
      BY <1>8 DEF HandsBack
    <3>4. Len(r.errors) \in Nat
      BY <3>1, LenProperties
    <3>5. n.attempt = Len(n.errors)
      BY <3>1, <3>2, <3>3, <3>4
    <3>6. QED
      BY <3>1, <3>2, <3>3, <3>5
  <2>2. PICK w \in Workers : r.attempt <= AttemptLimit(j, w)
    BY DEF RowOK
  <2>3. n.attempt < AttemptLimit(j, w)
    BY <1>8, <2>1, <2>2, LimitType DEF HandsBack
  <2>4. n.attempt <= n.gen
    BY <1>1, <1>8 DEF RowOK, HandsBack, Row
  <2>5. QED
    BY <1>8, <2>1, <2>3, <2>4, LimitType DEF RowOK, HandsBack, Waiting, Row
<1>9. CASE Schedulable(r) /\ n = ScheduleRow(r)
  <2>1. n \in Row
    BY <1>1, <1>9 DEF ScheduleRow, Row, States, Live, Waiting
  <2>2. /\ n.state = "available" /\ n.attempt = r.attempt /\ n.errors = r.errors
        /\ n.gen = r.gen /\ n.lockedBy = r.lockedBy /\ n.leaseAt = r.leaseAt
    BY <1>1, <1>9 DEF ScheduleRow, Row
  <2>3. r.state \in Waiting /\ r.state # "running" /\ r.state # "none"
    BY <1>9 DEF Schedulable, Waiting
  <2>4. QED
    BY <2>1, <2>2, <2>3 DEF RowOK, Waiting
<1>10. CASE Purgeable(r) /\ n = PurgeRow(r)
  <2>1. n \in Row
    BY <1>1, <1>10 DEF PurgeRow, Row, States, Live, Waiting, Terminal
  <2>2. /\ n.state = "purged" /\ n.attempt = r.attempt /\ n.errors = r.errors
        /\ n.gen = r.gen /\ n.lockedBy = r.lockedBy /\ n.leaseAt = r.leaseAt
    BY <1>1, <1>10 DEF PurgeRow, Row
  <2>3. r.state # "running"
    BY <1>10 DEF Purgeable, Terminal
  <2>4. QED
    BY <2>1, <2>2, <2>3 DEF RowOK, Waiting
<1>11. CASE ClockPasses(r, n)
  <2>1. n \in Row
    BY <1>1, <1>11 DEF ClockPasses, Row
  <2>2. /\ n.state = r.state /\ n.attempt = r.attempt /\ n.errors = r.errors
        /\ n.gen = r.gen /\ n.lockedBy = r.lockedBy /\ (n.leaseAt = "null" <=> r.leaseAt = "null")
    BY <1>1, <1>11 DEF ClockPasses, Row
  <2>3. QED
    BY <2>1, <2>2 DEF RowOK
<1>12. QED
  BY <1>2, <1>3, <1>4, <1>5, <1>6, <1>7, <1>8, <1>9, <1>10, <1>11 DEF RowStep


\* Whatever the reaper makes of a running row, the attempt is paid for.
LEMMA ReapFails ==
  ASSUME NEW j \in Jobs, NEW w \in Workers, NEW r, RowOK(r, j),
         r.state = "running"
  PROVE  ReapRow(r, j, w) \in Row /\ Fails(r, j, ReapRow(r, j, w))
<1> DEFINE n == ReapRow(r, j, w)
<1>1. /\ r \in Row /\ r.attempt \in Nat
      /\ Append(r.errors, r.attempt) \in Seq(Nat)
  BY AppendProperties DEF RowOK, Row
<1>2. /\ n.lockedBy = NoWorker /\ n.leaseAt = "null"
      /\ n.errors = Append(r.errors, r.attempt)
      /\ n.attempt = r.attempt /\ n.gen = r.gen
      /\ n.state = IF r.attempt >= AttemptLimit(j, w)
                   THEN "discarded" ELSE "retryable"
  BY <1>1 DEF ReapRow, Unlocked, Row
<1>3. n \in Row
  BY <1>1 DEF ReapRow, Unlocked, Row, States, Live, Waiting, Terminal
<1>4. Fails(r, j, n)
  BY <1>1, <1>2, LimitType DEF Fails
<1>5. QED
  BY <1>3, <1>4

\* The statements that record a failed attempt.
LEMMA FailingRows ==
  ASSUME NEW j \in Jobs, NEW w \in Workers, NEW r, RowOK(r, j),
         r.state = "running"
  PROVE  /\ \A s \in {"cancelled", "discarded"} :
              RowStep(r, j, TerminalRow(r, s))
         /\ r.attempt < AttemptLimit(j, w) => RowStep(r, j, RetryRow(r))
         /\ RowStep(r, j, ReapRow(r, j, w))
<1>1. /\ r \in Row /\ r.attempt \in Nat /\ r.attempt = Len(r.errors) + 1
      /\ Append(r.errors, r.attempt) \in Seq(Nat)
  BY AppendProperties DEF RowOK, Row
<1>2. ASSUME NEW s \in {"cancelled", "discarded"}
      PROVE  RowStep(r, j, TerminalRow(r, s))
  <2>1. TerminalRow(r, s) \in Row
    BY <1>1 DEF TerminalRow, Unlocked, Row, States, Terminal
  <2>2. Fails(r, j, TerminalRow(r, s))
    BY <1>1 DEF Fails, TerminalRow, Unlocked, Row
  <2>3. QED
    BY <2>1, <2>2 DEF RowStep
<1>3. ASSUME r.attempt < AttemptLimit(j, w)
      PROVE  RowStep(r, j, RetryRow(r))
  <2>1. RetryRow(r) \in Row
    BY <1>1 DEF RetryRow, Unlocked, Row, States, Live, Waiting
  <2>2. Fails(r, j, RetryRow(r))
    BY <1>1, <1>3 DEF Fails, RetryRow, Unlocked, Row
  <2>3. QED
    BY <2>1, <2>2 DEF RowStep
<1>4. RowStep(r, j, ReapRow(r, j, w))
  BY ReapFails DEF RowStep
<1>5. QED
  BY <1>2, <1>3, <1>4

\* The statements that give an attempt back.
LEMMA HandingBackRows ==
  ASSUME NEW j \in Jobs, NEW r, RowOK(r, j), r.state = "running"
  PROVE  RowStep(r, j, SnoozeRow(r)) /\ RowStep(r, j, ReleaseRow(r))
<1>1. r \in Row /\ r.attempt - 1 \in Nat
  BY DEF RowOK, Row
<1>2. SnoozeRow(r) \in Row /\ ReleaseRow(r) \in Row
  BY <1>1 DEF SnoozeRow, ReleaseRow, Unlocked, Row, States, Live, Waiting
<1>3. HandsBack(r, SnoozeRow(r)) /\ HandsBack(r, ReleaseRow(r))
  BY <1>1 DEF HandsBack, SnoozeRow, ReleaseRow, Unlocked, Row
<1>4. QED
  BY <1>2, <1>3 DEF RowStep

-----------------------------------------------------------------------------
(* A step of the queue is a step of every row.                             *)

TableOK ==
  /\ rows \in [Jobs -> Row]
  /\ RowsOK
  /\ held \subseteq Claims
  /\ up \subseteq Workers
  /\ handedBack \in [Workers -> SUBSET Jobs]

\* Every step changes each row in one of the ways of RowStep, or not at all.
LEMMA StepIsRowStep ==
  ASSUME TableOK, [Next]_vars
  PROVE  /\ DOMAIN rows' = Jobs
         /\ \A j \in Jobs : RowStep(rows[j], j, rows'[j])
<1> USE DEF TableOK, RowsOK
<1>1. ASSUME NEW j \in Jobs, Enqueue(j) \/ BecomeDue(j) \/ LeaseLapse(j)
                               \/ RetentionPasses(j)
      PROVE  /\ DOMAIN rows' = Jobs
             /\ \A k \in Jobs : RowStep(rows[k], k, rows'[k])
  BY <1>1 DEF Enqueue, Insert, BecomeDue, RowComesDue, LeaseLapse, RowLapses,
     RetentionPasses, RowAges, RowStep, ClockPasses
<1>2. ASSUME NEW w \in Workers, NEW S \in SUBSET Jobs,
             Claim(w, S) \/ ClaimLost(w, S)
      PROVE  /\ DOMAIN rows' = Jobs
             /\ \A k \in Jobs : RowStep(rows[k], k, rows'[k])
  BY <1>2 DEF Claim, ClaimLost, TakeRows, RowStep
<1>3. ASSUME NEW w \in Workers, NEW S \in SUBSET Jobs, Heartbeat(w, S)
      PROVE  /\ DOMAIN rows' = Jobs
             /\ \A k \in Jobs : RowStep(rows[k], k, rows'[k])
  BY <1>3 DEF Heartbeat, RenewRows, LockedBy, RowStep
<1>4. ASSUME NEW w \in Workers, NEW S \in SUBSET Jobs, ReleaseRows(w, S)
      PROVE  /\ DOMAIN rows' = Jobs
             /\ \A k \in Jobs : RowStep(rows[k], k, rows'[k])
  <2>1. ASSUME NEW k \in Jobs, LockedBy(rows[k], w)
        PROVE  RowStep(rows[k], k, ReleaseRow(rows[k]))
    BY <2>1, HandingBackRows DEF LockedBy
  <2>2. QED
    BY <1>4, <2>1 DEF ReleaseRows, RowStep
<1>5. ASSUME NEW w \in Workers, Schedule(w) \/ Purge(w) \/ Crash(w)
      PROVE  /\ DOMAIN rows' = Jobs
             /\ \A k \in Jobs : RowStep(rows[k], k, rows'[k])
  BY <1>5 DEF Schedule, ScheduleRows, Purge, PurgeRows, Crash, RowStep, table
<1>6. ASSUME NEW w \in Workers, Reap(w)
      PROVE  /\ DOMAIN rows' = Jobs
             /\ \A k \in Jobs : RowStep(rows[k], k, rows'[k])
  <2>1. ASSUME NEW k \in Jobs, Reapable(rows[k])
        PROVE  RowStep(rows[k], k, ReapRow(rows[k], k, w))
    BY <2>1, FailingRows DEF Reapable
  <2>2. QED
    BY <1>6, <2>1 DEF Reap, ReapRows, RowStep
<1>7. ASSUME NEW e \in held, Finish(e)
      PROVE  /\ DOMAIN rows' = Jobs
             /\ \A k \in Jobs : RowStep(rows[k], k, rows'[k])
  <2> DEFINE r == rows[e.job]
  <2>1. /\ e.job \in Jobs /\ e.worker \in Workers /\ e.attempt \in Nat
        /\ RowOK(r, e.job)
    BY DEF Claims
  <2>2. ClaimGuard(r, e) => r.state = "running" /\ r.attempt = e.attempt
    BY DEF ClaimGuard, LockedBy
  <2>3. ASSUME NEW n, Record(e, n), ClaimGuard(r, e) => RowStep(r, e.job, n)
        PROVE  /\ DOMAIN rows' = Jobs
               /\ \A k \in Jobs : RowStep(rows[k], k, rows'[k])
    BY <2>1, <2>3 DEF Record, RowStep
  <2>4. CASE Succeed(e)
    BY <2>2, <2>3, <2>4 DEF Succeed, WriteSucceed, RowStep
  <2>5. CASE Snooze(e)
    BY <2>1, <2>2, <2>3, <2>5, HandingBackRows DEF Snooze, WriteSnooze
  <2>6. CASE Cancel(e)
    BY <2>1, <2>2, <2>3, <2>6, FailingRows DEF Cancel, WriteCancel
  <2>7. CASE Discard(e)
    BY <2>1, <2>2, <2>3, <2>7, FailingRows DEF Discard, WriteDiscard
  <2>8. CASE Retry(e)
    BY <2>1, <2>2, <2>3, <2>8, FailingRows DEF Retry, WriteRetry
  <2>9. CASE WriteFails(e)
    BY <2>9 DEF WriteFails, Done, Abandon, table, RowStep
  <2>10. QED
    BY <1>7, <2>4, <2>5, <2>6, <2>7, <2>8, <2>9 DEF Finish
<1>8. ASSUME NEW e \in held, NEW C \in SUBSET held, HandBack(e, C)
      PROVE  /\ DOMAIN rows' = Jobs
             /\ \A k \in Jobs : RowStep(rows[k], k, rows'[k])
  <2>1. e.job \in Jobs /\ e.worker \in Workers
    BY DEF Claims
  <2>2. QED
    BY <1>4, <1>8, <2>1 DEF HandBack
<1>9. ASSUME NEW e \in held, NEW C \in SUBSET held, Abandon(e, C)
      PROVE  /\ DOMAIN rows' = Jobs
             /\ \A k \in Jobs : RowStep(rows[k], k, rows'[k])
  BY <1>9 DEF Abandon, table, RowStep
<1>10. CASE UNCHANGED vars
  BY <1>10 DEF vars, RowStep
<1>11. CASE Next
  BY <1>1, <1>2, <1>3, <1>4, <1>5, <1>6, <1>7, <1>8, <1>9, <1>11 DEF Next,
     Release
<1>12. QED
  BY <1>10, <1>11

-----------------------------------------------------------------------------
(* The row invariant.                                                      *)

\* An empty table is sound.
LEMMA InitTableOK == Init => TableOK
<1> SUFFICES ASSUME Init PROVE TableOK
  OBVIOUS
<1>1. NoRow \in Row
  BY DEF NoRow, Row, States
<1>2. ASSUME NEW j \in Jobs PROVE RowOK(NoRow, j)
  <2>1. PICK w \in Workers : TRUE
    OBVIOUS
  <2>2. QED
    BY <1>1, <2>1, LimitType DEF RowOK, NoRow, Waiting
<1>3. QED
  BY <1>1, <1>2 DEF Init, InitTable, TableOK, RowsOK

\* Every step leaves a sound table.
LEMMA StepTableOK == TableOK /\ [Next]_vars => TableOK'
<1> SUFFICES ASSUME TableOK, [Next]_vars PROVE TableOK'
  OBVIOUS
<1> USE DEF TableOK
<1>1. \A j \in Jobs : RowOK(rows'[j], j)
  BY StepIsRowStep, RowStepOK DEF RowsOK
<1>2. RowsOK' /\ rows' \in [Jobs -> Row]
  <2>1. rows' = [j \in Jobs |-> rows'[j]]
    <3>1. CASE UNCHANGED vars
      BY <3>1 DEF vars
    <3>2. CASE Next
      BY <3>2 DEF Next, Enqueue, Insert, BecomeDue, RowComesDue, LeaseLapse,
         RowLapses, RetentionPasses, RowAges, Claim, ClaimLost, TakeRows,
         Heartbeat, RenewRows, Release, ReleaseRows, Schedule, ScheduleRows,
         Reap, ReapRows, Purge, PurgeRows, Crash, Finish, Succeed,
         WriteSucceed, Snooze, WriteSnooze, Cancel, WriteCancel, Discard,
         WriteDiscard, Retry, WriteRetry, Record, WriteFails, Done, Abandon,
         table, HandBack
    <3>3. QED
      BY <3>1, <3>2
  <2>2. QED
    BY <1>1, <2>1 DEF RowsOK, RowOK
<1>3. held' \subseteq Claims
  <2>1. ASSUME NEW w \in Workers, NEW S \in SUBSET Jobs, Claim(w, S)
        PROVE  held' \subseteq Claims
    BY <2>1 DEF Claim, NewClaim, Claims, Row
  <2>2. CASE UNCHANGED vars
    BY <2>2 DEF vars
  <2>3. QED
    BY <2>1, <2>2 DEF Next, Enqueue, BecomeDue, LeaseLapse, RetentionPasses,
       ClaimLost, Heartbeat, Release, Schedule, Reap, Purge, Crash, Finish,
       Succeed, Snooze, Cancel, Discard, Retry, WriteFails, Done, Abandon,
       HandBack
<1>4. up' \subseteq Workers
  BY DEF Next, vars, Enqueue, BecomeDue, LeaseLapse, RetentionPasses, Claim,
     ClaimLost, Heartbeat, Release, Schedule, Reap, Purge, Crash, Finish,
     Succeed, Snooze, Cancel, Discard, Retry, WriteFails, Done, Abandon,
     HandBack
<1>5. handedBack' \in [Workers -> SUBSET Jobs]
  <2>1. ASSUME NEW w \in Workers, NEW S \in SUBSET Jobs, ReleaseRows(w, S)
        PROVE  handedBack' \in [Workers -> SUBSET Jobs]
    BY <2>1 DEF ReleaseRows
  <2>2. ASSUME NEW e \in held, NEW C \in SUBSET held, HandBack(e, C)
        PROVE  handedBack' \in [Workers -> SUBSET Jobs]
    <3>1. e.job \in Jobs /\ e.worker \in Workers
      BY DEF Claims
    <3>2. QED
      BY <2>1, <2>2, <3>1 DEF HandBack
  <2>3. CASE UNCHANGED vars
    BY <2>3 DEF vars
  <2>4. QED
    BY <2>1, <2>2, <2>3 DEF Next, Enqueue, Insert, BecomeDue, RowComesDue,
       LeaseLapse, RowLapses, RetentionPasses, RowAges, Claim, ClaimLost,
       TakeRows, Heartbeat, RenewRows, Release, Schedule, ScheduleRows, Reap, ReapRows,
       Purge, PurgeRows, Crash, Finish, Succeed, WriteSucceed, Snooze,
       WriteSnooze, Cancel, WriteCancel, Discard, WriteDiscard, Retry,
       WriteRetry, Record, WriteFails, Done, Abandon, table
<1>6. QED
  BY <1>2, <1>3, <1>4, <1>5

\* So the table is always sound.
LEMMA TableOKInvariant == Spec => []TableOK
  BY InitTableOK, StepTableOK, PTL DEF Spec

(***************************************************************************)
(* Type correctness.                                                       *)
(***************************************************************************)
THEOREM TypeCorrect == Spec => []TypeOK
<1>1. TableOK => TypeOK
  BY DEF TableOK, TypeOK
<1>2. QED
  BY <1>1, TableOKInvariant, PTL

(***************************************************************************)
(* Exactly the running rows are locked and leased: no statement of         *)
(* store.go or maintenance.go leaves a lock behind or forgets to take one. *)
(***************************************************************************)
THEOREM LeaseCorrect == Spec => []LeaseIffRunning
<1>1. TableOK => LeaseIffRunning
  BY DEF TableOK, RowsOK, RowOK, LeaseIffRunning
<1>2. QED
  BY <1>1, TableOKInvariant, PTL

(***************************************************************************)
(* Every attempt a job has paid for is in its error history, in order, and *)
(* no claim leaves two entries, through retries, snoozes, releases, reaps  *)
(* and lost answers.                                                       *)
(***************************************************************************)
THEOREM ErrorHistoryCorrect == Spec => []ErrorHistory
<1>1. TableOK => ErrorHistory
  <2> SUFFICES ASSUME TableOK, NEW j \in Jobs, rows[j].state # "purged"
               PROVE  LET r == rows[j] IN
                 /\ \A n \in 1 .. Paid(r) : \E i \in 1 .. Len(r.errors) : r.errors[i] = n
                 /\ \A i, k \in 1 .. Len(r.errors) : i < k => r.errors[i] <= r.errors[k]
                 /\ Len(r.errors) + (r.attempt - Paid(r)) <= r.gen
    BY DEF ErrorHistory
  <2> DEFINE r == rows[j]
  <2>1. /\ r \in Row /\ r.attempt <= r.gen
        /\ \A i \in 1 .. Len(r.errors) : r.errors[i] = i
    BY DEF TableOK, RowsOK, RowOK
  <2>2. r.attempt \in Nat /\ r.gen \in Nat /\ Len(r.errors) \in Nat
    BY <2>1 DEF Row
  <2>3. Paid(r) = Len(r.errors)
    BY <2>1, <2>2 DEF TableOK, RowsOK, RowOK, Paid, Row, States, Live, Terminal
  <2>4. QED
    BY <2>1, <2>2, <2>3
<1>2. QED
  BY <1>1, TableOKInvariant, PTL

(***************************************************************************)
(* No job starts more attempts than its row and the most generous process  *)
(* of the fleet allow, even while processes disagree about the ceiling.    *)
(***************************************************************************)
THEOREM AttemptBudgetCorrect == Spec => []AttemptBudget
<1>1. TableOK => AttemptBudget
  BY DEF TableOK, RowsOK, RowOK, AttemptBudget
<1>2. QED
  BY <1>1, TableOKInvariant, PTL

-----------------------------------------------------------------------------
(* Fencing.                                                                *)

\* The row still runs under the claim e.
Current(e) == ClaimGuard(rows[e.job], e) /\ e.gen = rows[e.job].gen

\* The attempt of the claim e is in the error history.
PaidFor(e) == e.attempt <= Len(rows[e.job].errors)

GivenBack(e) == e.job \in handedBack[e.worker]

\* FencedByAttempt, made inductive: a claim that is neither current nor given
\* back has been paid for, so that no later claim can have its number.
Fence == \A e \in held : GivenBack(e) \/ Current(e) \/ PaidFor(e)

\* Under the invariant the guard lets only the current claim write.
LEMMA GuardIsExact ==
  ASSUME TableOK, Fence, NEW e \in held, ~GivenBack(e),
         ClaimGuard(rows[e.job], e)
  PROVE  Current(e) /\ e.attempt = Len(rows[e.job].errors) + 1
<1>1. /\ e.job \in Jobs /\ e.attempt \in Nat /\ RowOK(rows[e.job], e.job)
      /\ rows[e.job] \in Row
  BY DEF TableOK, RowsOK, Claims
<1>2. e.attempt = Len(rows[e.job].errors) + 1
  BY <1>1 DEF ClaimGuard, LockedBy, RowOK
<1>3. ~PaidFor(e)
  BY <1>1, <1>2 DEF PaidFor, Row
<1>4. QED
  BY <1>2, <1>3 DEF Fence

\* A history never shrinks.
LEMMA HistoryKept ==
  ASSUME TableOK, [Next]_vars, NEW j \in Jobs
  PROVE  /\ Len(rows[j].errors) \in Nat
         /\ Len(rows'[j].errors) \in Nat
         /\ Len(rows[j].errors) <= Len(rows'[j].errors)
<1> DEFINE r == rows[j]
           n == rows'[j]
<1>1. r \in Row /\ n \in Row /\ RowStep(r, j, n) /\ RowOK(r, j)
  BY StepIsRowStep, StepTableOK DEF TableOK, RowsOK
<1>2. r.errors \in Seq(Nat) /\ n.errors \in Seq(Nat) /\ r.attempt \in Nat
  BY <1>1 DEF Row
<1>3. Len(r.errors) \in Nat /\ Len(n.errors) \in Nat
  BY <1>2
<1>4. CASE Fails(r, j, n)
  BY <1>2, <1>4, AppendProperties DEF Fails
<1>5. CASE ~Fails(r, j, n)
  <2>1. n.errors = r.errors
    BY <1>1, <1>5 DEF RowStep, HandsBack, ClockPasses, InsertRow, ClaimRow,
       HeartbeatRow, SucceedRow, Unlocked, ScheduleRow, PurgeRow, Row
  <2>2. QED
    BY <1>3, <2>1
<1>6. QED
  BY <1>3, <1>4, <1>5

\* A claim stays handed back, or current, or gets into the error history.
LEMMA StepFence == TableOK /\ Fence /\ [Next]_vars => Fence'
<1> SUFFICES ASSUME TableOK, Fence, [Next]_vars,
                    NEW e \in held', ~GivenBack(e)'
             PROVE  Current(e)' \/ PaidFor(e)'
  BY DEF Fence
<1>1. TableOK'
  BY StepTableOK
<1>2. /\ e.job \in Jobs /\ e.worker \in Workers /\ e.attempt \in Nat
      /\ rows[e.job] \in Row /\ rows'[e.job] \in Row
      /\ RowOK(rows[e.job], e.job)
  BY <1>1 DEF TableOK, RowsOK, Claims
<1>3. ASSUME PaidFor(e) PROVE PaidFor(e)'
  BY <1>2, <1>3, HistoryKept DEF PaidFor
<1>4. ASSUME NEW n, Fails(rows[e.job], e.job, n), rows'[e.job] = n, Current(e)
      PROVE  PaidFor(e)'
  <2>1. e.attempt = Len(rows[e.job].errors) + 1
    BY <1>2, <1>4 DEF Current, ClaimGuard, LockedBy, RowOK
  <2>2. Len(rows'[e.job].errors) = Len(rows[e.job].errors) + 1
    BY <1>2, <1>4, AppendProperties DEF Fails, Row
  <2>3. QED
    BY <1>2, <2>1, <2>2 DEF PaidFor
<1>5. ASSUME Current(e), /\ rows'[e.job].state = "running"
                         /\ rows'[e.job].lockedBy = rows[e.job].lockedBy
                         /\ rows'[e.job].attempt = rows[e.job].attempt
                         /\ rows'[e.job].gen = rows[e.job].gen
      PROVE  Current(e)'
  BY <1>5 DEF Current, ClaimGuard, LockedBy
<1> DEFINE Goal == Current(e)' \/ PaidFor(e)'
<1>6. ASSUME e \in held, ~Current(e) PROVE Goal
  <2>1. handedBack[e.worker] \subseteq handedBack'[e.worker]
    BY <1>2 DEF TableOK, Next, vars, Enqueue, Insert, BecomeDue, RowComesDue,
       LeaseLapse, RowLapses, RetentionPasses, RowAges, Claim, ClaimLost,
       TakeRows, Heartbeat, RenewRows, Release, ReleaseRows, Schedule, ScheduleRows,
       Reap, ReapRows, Purge, PurgeRows, Crash, Finish, Succeed, WriteSucceed,
       Snooze, WriteSnooze, Cancel, WriteCancel, Discard, WriteDiscard, Retry,
       WriteRetry, Record, WriteFails, Done, Abandon, table, HandBack
  <2>2. PaidFor(e)
    BY <1>6, <2>1 DEF Fence, GivenBack
  <2>3. QED
    BY <1>3, <2>2
<1>7. ASSUME e \in held, Current(e) PROVE Goal
  <2>1. rows[e.job].state = "running" /\ rows[e.job].lockedBy = e.worker
    BY <1>7 DEF Current, ClaimGuard, LockedBy
  <2>2. ASSUME NEW j \in Jobs, Enqueue(j) \/ BecomeDue(j) \/ LeaseLapse(j)
                                 \/ RetentionPasses(j)
        PROVE  Goal
    <3>1. CASE Enqueue(j)
      BY <1>2, <1>5, <1>7, <2>1, <3>1 DEF TableOK, Enqueue, Insert
    <3>2. CASE BecomeDue(j) \/ LeaseLapse(j) \/ RetentionPasses(j)
      <4>1. \/ rows'[e.job] = rows[e.job]
            \/ rows'[e.job] = [rows[e.job] EXCEPT !.scheduledAt = "due"]
            \/ rows'[e.job] = [rows[e.job] EXCEPT !.leaseAt = "lapsed"]
            \/ rows'[e.job] = [rows[e.job] EXCEPT !.finalizedAt = "aged"]
        BY <1>2, <3>2 DEF TableOK, BecomeDue, RowComesDue, LeaseLapse,
           RowLapses, RetentionPasses, RowAges
      <4>2. QED
        BY <1>2, <1>5, <1>7, <2>1, <4>1 DEF Row
    <3>3. QED
      BY <2>2, <3>1, <3>2
  <2>3. ASSUME NEW w \in Workers, NEW S \in SUBSET Jobs,
               Claim(w, S) \/ ClaimLost(w, S)
        PROVE  Goal
    BY <1>2, <1>5, <1>7, <2>1, <2>3 DEF TableOK, Claim, ClaimLost, TakeRows,
       Claimable
  <2>4. ASSUME NEW w \in Workers, NEW S \in SUBSET Jobs, Heartbeat(w, S)
        PROVE  Goal
    <3>1. rows'[e.job] \in {rows[e.job], HeartbeatRow(rows[e.job])}
      BY <1>2, <2>4 DEF TableOK, Heartbeat, RenewRows
    <3>2. QED
      BY <1>2, <1>5, <1>7, <2>1, <3>1 DEF HeartbeatRow, Row
  <2>5. ASSUME NEW w \in Workers, NEW S \in SUBSET Jobs, ReleaseRows(w, S)
        PROVE  Goal
    <3>1. e.job \notin S \/ w # e.worker
      BY <1>2, <2>1, <2>5 DEF ReleaseRows, GivenBack, LockedBy, TableOK
    <3>2. rows'[e.job] = rows[e.job]
      BY <1>2, <2>1, <2>5, <3>1 DEF ReleaseRows, LockedBy
    <3>3. QED
      BY <1>5, <1>7, <2>1, <3>2
  <2>6. ASSUME NEW w \in Workers, Schedule(w) \/ Purge(w) \/ Crash(w)
        PROVE  Goal
    BY <1>2, <1>5, <1>7, <2>1, <2>6 DEF TableOK, Schedule, ScheduleRows,
       Schedulable, Purge, PurgeRows, Purgeable, Terminal, Crash, table
  <2>7. ASSUME NEW w \in Workers, Reap(w) PROVE Goal
    <3>1. CASE Reapable(rows[e.job])
      <4>1. Fails(rows[e.job], e.job, ReapRow(rows[e.job], e.job, w))
        BY <1>2, <2>1, ReapFails
      <4>2. QED
        BY <1>2, <1>4, <1>7, <2>7, <3>1, <4>1 DEF Reap, ReapRows
    <3>2. CASE ~Reapable(rows[e.job])
      BY <1>2, <1>5, <1>7, <2>1, <2>7, <3>2 DEF Reap, ReapRows
    <3>3. QED
      BY <3>1, <3>2
  <2>8. ASSUME NEW f \in held, Finish(f) PROVE Goal
    <3>1. /\ f # e
          /\ f \in Claims /\ e \in Claims
      BY <1>7, <2>8 DEF TableOK, Finish, Succeed, WriteSucceed, Snooze,
         WriteSnooze, Cancel, WriteCancel, Discard, WriteDiscard, Retry,
         WriteRetry, Record, WriteFails, Done, Abandon, table
    <3>2. ASSUME f.job = e.job, ClaimGuard(rows[f.job], f) PROVE FALSE
      <4>1. f.worker = e.worker /\ f.attempt = e.attempt
        BY <1>7, <3>2 DEF Current, ClaimGuard, LockedBy
      <4>2. handedBack' = handedBack
        BY <2>8 DEF Finish, Succeed, WriteSucceed, Snooze, WriteSnooze,
           Cancel, WriteCancel, Discard, WriteDiscard, Retry, WriteRetry,
           Record, WriteFails, Done, Abandon, table
      <4>3. ~GivenBack(f)
        BY <3>2, <4>1, <4>2 DEF GivenBack
      <4>4. f.gen = e.gen
        BY <1>7, <3>2, <4>3, GuardIsExact DEF Current
      <4>5. QED
        BY <3>1, <3>2, <4>1, <4>4 DEF Claims
    <3>3. rows'[e.job] = rows[e.job]
      BY <1>2, <2>8, <3>1, <3>2 DEF TableOK, Claims, Finish, Succeed,
         WriteSucceed, Snooze, WriteSnooze, Cancel, WriteCancel, Discard,
         WriteDiscard, Retry, WriteRetry, Record, WriteFails, Done, Abandon,
         table
    <3>4. QED
      BY <1>5, <1>7, <2>1, <3>3
  <2>9. ASSUME NEW f \in held, NEW C \in SUBSET held, HandBack(f, C)
        PROVE  Goal
    <3>1. f.job \in Jobs /\ f.worker \in Workers
      BY DEF TableOK, Claims
    <3>2. QED
      BY <2>5, <2>9, <3>1 DEF HandBack
  <2>10. ASSUME NEW f \in held, NEW C \in SUBSET held, Abandon(f, C)
         PROVE  Goal
    BY <1>5, <1>7, <2>1, <2>10 DEF Abandon, table
  <2>11. CASE UNCHANGED vars
    BY <1>5, <1>7, <2>1, <2>11 DEF vars
  <2>12. QED
    BY <2>2, <2>3, <2>4, <2>5, <2>6, <2>7, <2>8, <2>9, <2>10, <2>11
       DEF Next, Release
<1>8. ASSUME e \notin held PROVE Goal
  <2>1. PICK w \in Workers, S \in SUBSET Jobs : Claim(w, S)
    BY <1>8 DEF Next, vars, Enqueue, BecomeDue, LeaseLapse, RetentionPasses,
       ClaimLost, Heartbeat, Release, Schedule, Reap, Purge, Crash, Finish,
       Succeed, Snooze, Cancel, Discard, Retry, WriteFails, Done, Abandon,
       HandBack
  <2>2. PICK j \in S : e = NewClaim(w, j)
    BY <1>8, <2>1 DEF Claim
  <2>3. /\ e.job = j /\ e.worker = w /\ e.attempt = rows[j].attempt + 1
        /\ e.gen = rows[j].gen + 1
    BY <2>2 DEF NewClaim
  <2>4. rows'[j] = ClaimRow(rows[j], w)
    BY <2>1, <2>2 DEF Claim, TakeRows
  <2>5. QED
    BY <1>2, <2>3, <2>4 DEF Current, ClaimGuard, LockedBy, ClaimRow, Row
<1>9. QED
  BY <1>6, <1>7, <1>8

(***************************************************************************)
(* The claim guard of store.go refuses every zombie: outside a process's   *)
(* own releases, a completion write that matches the row is the write of   *)
(* the claim the row runs under.                                           *)
(***************************************************************************)
THEOREM FencingCorrect == Spec => []FencedByAttempt
<1>1. Init => Fence
  BY DEF Init, InitTable, Fence
<1>2. TableOK /\ Fence => FencedByAttempt
  BY GuardIsExact DEF FencedByAttempt, GivenBack, Current
<1>3. QED
  BY <1>1, <1>2, StepFence, TableOKInvariant, PTL DEF Spec

-----------------------------------------------------------------------------
(* The unique key.                                                         *)

\* A row becomes live only by being inserted.
LEMMA LiveAgain ==
  ASSUME NEW j \in Jobs, NEW r, NEW n, RowOK(r, j), RowStep(r, j, n),
         n.state \in Live
  PROVE  r.state \in Live \/ r.state = "none"
<1>1. r \in Row
  BY DEF RowOK
<1>2. CASE ClockPasses(r, n)
  BY <1>1, <1>2 DEF ClockPasses, Row
<1>3. CASE n = PurgeRow(r)
  BY <1>1, <1>3 DEF PurgeRow, Row, Live, Waiting
<1>4. QED
  BY <1>2, <1>3 DEF RowStep, Claimable, Schedulable, Fails, HandsBack, Live,
     Waiting

\* And a row is inserted only by Enqueue.
LEMMA OnlyEnqueueInserts ==
  ASSUME TableOK, Next, NEW j \in Jobs, rows[j].state = "none", ~Enqueue(j)
  PROVE  rows'[j].state = "none"
<1>1. rows \in [Jobs -> Row] /\ held \subseteq Claims
  BY DEF TableOK
<1>2. rows[j] \in Row
  BY <1>1
<1>3. ASSUME NEW k \in Jobs, Enqueue(k)
      PROVE  rows'[j].state = "none"
  BY <1>1, <1>3 DEF Enqueue, Insert
<1>4. ASSUME NEW k \in Jobs, BecomeDue(k) \/ LeaseLapse(k) \/ RetentionPasses(k)
      PROVE  rows'[j].state = "none"
  <2>1. \/ rows'[j] = rows[j]
        \/ rows'[j] = [rows[j] EXCEPT !.scheduledAt = "due"]
        \/ rows'[j] = [rows[j] EXCEPT !.leaseAt = "lapsed"]
        \/ rows'[j] = [rows[j] EXCEPT !.finalizedAt = "aged"]
    BY <1>1, <1>4 DEF BecomeDue, RowComesDue, LeaseLapse, RowLapses,
       RetentionPasses, RowAges
  <2>2. QED
    BY <1>2, <2>1 DEF Row
<1>5. ASSUME NEW w \in Workers, NEW S \in SUBSET Jobs,
             Claim(w, S) \/ ClaimLost(w, S) \/ Heartbeat(w, S) \/ ReleaseRows(w, S)
      PROVE  rows'[j].state = "none"
  BY <1>5 DEF Claim, ClaimLost, TakeRows, Claimable, Heartbeat, RenewRows,
     ReleaseRows, LockedBy
<1>6. ASSUME NEW w \in Workers, Schedule(w) \/ Reap(w) \/ Purge(w) \/ Crash(w)
      PROVE  rows'[j].state = "none"
  BY <1>6 DEF Schedule, ScheduleRows, Schedulable, Reap, ReapRows, Reapable,
     Purge, PurgeRows, Purgeable, Terminal, Crash, table
<1>7. ASSUME NEW e \in held, Finish(e)
      PROVE  rows'[j].state = "none"
  BY <1>1, <1>7 DEF Finish, Succeed, WriteSucceed, Snooze, WriteSnooze,
     Cancel, WriteCancel, Discard, WriteDiscard, Retry, WriteRetry, Record,
     WriteFails, Done, Abandon, table, ClaimGuard, LockedBy
<1>8. ASSUME NEW e \in held, NEW C \in SUBSET held, HandBack(e, C) \/ Abandon(e, C)
      PROVE  rows'[j].state = "none"
  <2>1. e.job \in Jobs /\ e.worker \in Workers
    BY <1>1 DEF Claims
  <2>2. QED
    BY <1>5, <1>8, <2>1 DEF HandBack, Abandon, table
<1>9. QED
  BY <1>3, <1>4, <1>5, <1>6, <1>7, <1>8 DEF Next, Release

(***************************************************************************)
(* The partial unique index does what ON CONFLICT DO NOTHING needs of it:  *)
(* no statement makes a second job of a key live, however jobs move.       *)
(***************************************************************************)
THEOREM UniqueKeyCorrect == Spec => []OneLiveJobPerKey
<1>1. Init => OneLiveJobPerKey
  BY DEF Init, InitTable, NoRow, OneLiveJobPerKey, Live, Waiting
<1>2. TableOK /\ OneLiveJobPerKey /\ [Next]_vars => OneLiveJobPerKey'
  <2> SUFFICES ASSUME TableOK, OneLiveJobPerKey, [Next]_vars,
                      NEW j \in Jobs, NEW k \in Jobs,
                      rows'[j].state \in Live, rows'[k].state \in Live,
                      UniqueKey[j] = UniqueKey[k], j # k
               PROVE  FALSE
    BY DEF OneLiveJobPerKey
  <2>1. \A i \in Jobs : rows'[i].state \in Live =>
          rows[i].state \in Live \/ rows[i].state = "none"
    BY StepIsRowStep, LiveAgain DEF TableOK, RowsOK
  <2>2. \A i \in Jobs : rows'[i].state \in Live => rows[i].state \in Live \/ Enqueue(i)
    BY <2>1, OnlyEnqueueInserts DEF vars, Live, Waiting
  <2>3. ASSUME NEW i \in Jobs, NEW l \in Jobs, i # l, Enqueue(i),
               UniqueKey[i] = UniqueKey[l], rows'[l].state \in Live
        PROVE  FALSE
    <3>1. rows'[l] = rows[l]
      BY <2>3 DEF Enqueue, Insert, TableOK
    <3>2. QED
      BY <2>3, <3>1 DEF Enqueue, Insert
  <2>4. QED
    BY <2>2, <2>3 DEF OneLiveJobPerKey
<1>3. QED
  BY <1>1, <1>2, TableOKInvariant, PTL DEF Spec

-----------------------------------------------------------------------------
(* The queue implements JobLifecycle.                                      *)

\* A step of a row is a step of its job's lifecycle.
LEMMA RowStepLifecycle ==
  ASSUME NEW j \in Jobs, NEW r, NEW n, RowOK(r, j), RowStep(r, j, n)
  PROVE  LET p == PhaseOf(r)  q == PhaseOf(n)
             s == Len(r.errors)  t == Len(n.errors)
         IN  \/ p = q /\ t = s
             \/ p = "none" /\ q = "pending" /\ t = s
             \/ p = "pending" /\ q = "active" /\ t = s
             \/ p = "active" /\ q = "pending" /\ t = s
             \/ p = "active" /\ q = "done" /\ t = s
             \/ p = "active" /\ q = "pending" /\ t = s + 1 /\ t < MaxAttempts[j]
             \/ p = "active" /\ q = "done" /\ t = s + 1 /\ t <= MaxAttempts[j]
             \/ p = "done" /\ q = "gone" /\ t = s
<1>1. r \in Row /\ n \in Row
  BY RowStepOK DEF RowOK
<1> USE DEF PhaseOf, Waiting, Terminal
<1>2. CASE n = r
  BY <1>2
<1>3. CASE r.state = "none" /\ n = InsertRow(r)
  BY <1>1, <1>3 DEF InsertRow, Row
<1>4. CASE \E w \in Workers : Claimable(r) /\ n = ClaimRow(r, w)
  BY <1>1, <1>4 DEF Claimable, ClaimRow, Row
<1>5. CASE r.state = "running" /\ n = HeartbeatRow(r)
  BY <1>1, <1>5 DEF HeartbeatRow, Row
<1>6. CASE r.state = "running" /\ n = SucceedRow(r)
  BY <1>1, <1>6 DEF SucceedRow, Unlocked, Row
<1>7. CASE n \in Row /\ Fails(r, j, n)
  <2>1. /\ r.attempt \in Nat /\ r.errors \in Seq(Nat)
        /\ r.attempt = Len(r.errors) + 1 /\ MaxAttempts[j] \in Nat
    BY <1>1, <1>7 DEF RowOK, Fails, Row
  <2>2. Len(n.errors) = Len(r.errors) + 1
    BY <1>7, <2>1, AppendProperties DEF Fails
  <2>3. r.attempt <= MaxAttempts[j]
    <3>1. PICK w \in Workers : r.attempt <= AttemptLimit(j, w)
      BY DEF RowOK
    <3>2. QED
      BY <2>1, <3>1, LimitType
  <2>4. n.state = "retryable" => r.attempt < MaxAttempts[j]
    BY <1>7, <2>1, LimitType DEF Fails
  <2>5. PhaseOf(r) = "active"
    BY <1>7 DEF Fails
  <2>6. CASE n.state = "retryable"
    BY <2>1, <2>2, <2>4, <2>5, <2>6
  <2>7. CASE n.state \in {"cancelled", "discarded"}
    BY <2>1, <2>2, <2>3, <2>5, <2>7
  <2>8. QED
    BY <1>7, <2>6, <2>7 DEF Fails
<1>8. CASE n \in Row /\ HandsBack(r, n)
  BY <1>8 DEF HandsBack
<1>9. CASE Schedulable(r) /\ n = ScheduleRow(r)
  BY <1>1, <1>9 DEF Schedulable, ScheduleRow, Row
<1>10. CASE Purgeable(r) /\ n = PurgeRow(r)
  BY <1>1, <1>10 DEF Purgeable, PurgeRow, Row
<1>11. CASE ClockPasses(r, n)
  <2>1. n.state = r.state /\ n.errors = r.errors
    BY <1>1, <1>11 DEF ClockPasses, Row
  <2>2. QED
    BY <2>1
<1>12. QED
  BY <1>2, <1>3, <1>4, <1>5, <1>6, <1>7, <1>8, <1>9, <1>10, <1>11 DEF RowStep

\* A row maps to a phase of the lifecycle.
LEMMA PhaseType ==
  ASSUME NEW r \in Row
  PROVE  PhaseOf(r) \in Lifecycle!Phases /\ Len(r.errors) \in Nat
  BY DEF PhaseOf, Row, States, Live, Waiting, Terminal, Lifecycle!Phases

(***************************************************************************)
(* The queue keeps every job's promise: one claim at a time, every failed  *)
(* attempt paid for once within the budget, nothing paid for a snooze or a *)
(* release, and a finished job is never taken up again.                    *)
(***************************************************************************)
THEOREM LifecycleRefinement == Spec => ImplementsLifecycle
<1>1. Init => Lifecycle!Init
  <2>1. PhaseOf(NoRow) = "none"
    BY DEF NoRow, PhaseOf, Waiting, Terminal
  <2>2. Len(NoRow.errors) = 0
    BY DEF NoRow
  <2>3. Init => \A j \in Jobs : rows[j] = NoRow
    BY DEF Init, InitTable
  <2>4. QED
    BY <2>1, <2>2, <2>3 DEF Lifecycle!Init
<1>2. TableOK /\ [Next]_vars => [Lifecycle!Next]_(Lifecycle!vars)
  <2> SUFFICES ASSUME TableOK, [Next]_vars PROVE Lifecycle!Next
    OBVIOUS
  <2>1. TableOK'
    BY StepTableOK
  <2>2. \A j \in Jobs : rows[j] \in Row /\ rows'[j] \in Row
    BY <2>1 DEF TableOK
  <2>3. \A j \in Jobs : Lifecycle!JobStep(j)
    <3> SUFFICES ASSUME NEW j \in Jobs PROVE Lifecycle!JobStep(j)
      OBVIOUS
    <3>1. RowOK(rows[j], j) /\ RowStep(rows[j], j, rows'[j])
      BY StepIsRowStep DEF TableOK, RowsOK
    <3>2. QED
      BY <3>1, RowStepLifecycle DEF Lifecycle!JobStep, Lifecycle!Submit,
         Lifecycle!Start, Lifecycle!GiveBack, Lifecycle!Complete,
         Lifecycle!Fail, Lifecycle!GiveUp, Lifecycle!Forget, Lifecycle!Rest,
         Lifecycle!Moves, Lifecycle!Pays, Lifecycle!PaysNone
  <2>4. QED
    BY <2>2, <2>3, PhaseType DEF Lifecycle!Next
<1>3. QED
  BY <1>1, <1>2, TableOKInvariant, PTL DEF Spec, ImplementsLifecycle,
     Lifecycle!Spec

=============================================================================
