----------------------------- MODULE PoolProofs -----------------------------
(***************************************************************************)
(* Proofs about Pool, for every set of jobs and processes, every number of *)
(* goroutines and every batch size: whatever the heartbeat renews has an   *)
(* owner, and the pools implement Queue, so that what is proved of Queue   *)
(* holds of them.  While heartbeats are on time, also that a job has one   *)
(* handler across the fleet, unless it was overtaken in the tail of a      *)
(* batch.                                                                  *)
(*                                                                         *)
(* The invariant is told process by process.  LoopOK, EntriesOK and        *)
(* Bounded are about values, the claim loop l, the runs R, the map I of    *)
(* one process and the table T, so that what a thread does to them is a    *)
(* lemma without primes.                                                   *)
(***************************************************************************)
EXTENDS PoolTail, TLAPS, FiniteSetTheorems, SequenceTheorems

USE JobStoreAssumption, JobTableAssumption, PoolAssumption

Loops == [pc    : {"idle", "claiming", "track", "send", "handback", "done"},
          batch : SUBSET Claims,
          hand  : SUBSET Claims]

Runs == [claim : Claims, pc : {"received", "handling", "written"},
         cancelled : BOOLEAN]

\* One row: a running one has an attempt to give back.
RowOK(r) == r \in Row /\ (r.state = "running" => r.attempt >= 1)

TableOK ==
  /\ rows \in [Jobs -> Row]
  /\ \A j \in Jobs : RowOK(rows[j])
  /\ handedBack \in [Workers -> SUBSET Jobs]

Typed ==
  /\ phase \in [Workers -> Phases]
  /\ loop \in [Workers -> Loops]
  /\ inflight \in [Workers -> [Jobs -> Entries]]
  /\ runs \in [Workers -> SUBSET Runs]
  /\ beat \in [Workers -> Snapshots]
  /\ release \in [Workers -> Snapshots]

\* Where the claims of a process are: each in one place, and its own.
LoopOK(l, R, w) ==
  /\ l.pc \in {"idle", "claiming", "done"} => l.batch = {} /\ l.hand = {}
  /\ l.pc = "track" => l.hand = {}
  /\ l.pc \in {"send", "handback"} => \E e \in l.hand : l.hand = {e}
  /\ \A e \in l.batch : e.worker = w /\ e \notin l.hand
  /\ \A e \in l.hand : e.worker = w
  /\ \A r \in R : /\ r.claim.worker = w
                  /\ r.claim \notin l.batch /\ r.claim \notin l.hand
  /\ \A q, r \in R : q.claim = r.claim => q = r

\* EntryHasOwner, made inductive: the hand counts only until it is sent.
EntriesOK(l, R, I) ==
  \A j \in Jobs : I[j].tracked => \/ l.pc = "send" /\ \E e \in l.hand : e.job = j
                                  \/ \E r \in R : r.claim.job = j

\* No process knows a claim the table has not seen, so a new claim is new.
Bounded(l, R, T) ==
  /\ \A e \in l.batch \cup l.hand : e.gen <= T[e.job].gen
  /\ \A r \in R : r.claim.gen <= T[r.claim.job].gen

\* What is left of a process that ended, and when a claim goes back.
PhaseOK(w) ==
  /\ Gone(w) => loop[w] = Stopped /\ runs[w] = {} /\ beat[w] = NoSnapshot
  /\ loop[w].pc = "handback" => phase[w] = "cancelled"

Shape(l, R, I, T, w) == LoopOK(l, R, w) /\ EntriesOK(l, R, I) /\ Bounded(l, R, T)

Local(w) == Shape(loop[w], runs[w], inflight[w], rows, w) /\ PhaseOK(w)

Running == {w \in Workers : phase[w] = "running"}

\* Once a process has left, or is about to, MinUp others run.
Enough == (\E w \in Workers : phase[w] # "running") => Cardinality(Running) >= MinUp

Inv ==
  /\ TableOK
  /\ Typed
  /\ \A w \in Workers : Local(w)
  /\ Enough

-----------------------------------------------------------------------------

\* The claims of one process, as values.
HeldOf(l, R) == l.batch \cup l.hand \cup {r.claim : r \in {s \in R : s.pc # "written"}}

\* The row runs under the claim e and its lease is live.
Current(e, r) == ClaimGuard(r, e) /\ r.gen = e.gen /\ r.leaseAt = "live"

\* What an outcome leaves behind until its run is untracked: a row that no
\* process can claim yet, or one that still names the process.
Settled(r, w) ==
  \/ r.state \in Terminal \cup {"purged"}
  \/ r.state \in {"retryable", "scheduled"} /\ r.scheduledAt = "future"
  \/ LockedBy(r, w)

\* What a process whose heartbeats are on time has of a job: every claim it
\* works under is current, what it has registered or runs is in the map, and a
\* run that has written its outcome stands in the way of no claim.
HealthyAs(l, R, I, T, w, j) ==
  /\ \A e \in HeldOf(l, R) : e.job = j => Current(e, T[j])
  /\ \A e \in l.hand : e.job = j => I[j].tracked
  /\ \A r \in R : r.claim.job = j /\ r.pc # "written" => I[j].tracked
  /\ \A q \in R : q.claim.job = j /\ q.pc = "written" =>
       /\ Settled(T[j], w)
       /\ \A e \in HeldOf(l, R) : e.job # j

Healthy(w, j) == HealthyAs(loop[w], runs[w], inflight[w], rows, w, j)

TimelyInv ==
  Timely => \A j \in Jobs \ overtaken : \A w \in Workers :
              Beating(w) => Healthy(w, j)

\* The step does not let the lease of the job run out in a tail.
Spared(j) == ~(InTail(j) /\ Lapses(j))

-----------------------------------------------------------------------------
(* The table: every statement keeps the rows well formed and no statement  *)
(* turns the count of claims back.                                         *)

Statement ==
  \/ UNCHANGED table
  \/ \E w \in Workers : \E S \in SUBSET Jobs :
       TakeRows(w, S) \/ RenewRows(w, S) \/ ReleaseRows(w, S)
  \/ \E e \in Claims : Write(e)
  \/ \E w \in Workers : ScheduleRows \/ ReapRows(w) \/ PurgeRows
  \/ \E j \in Jobs : Insert(j) \/ RowAges(j) \/ RowComesDue(j) \/ RowLapses(j)

Follows(r, n) == RowOK(n) /\ r.gen <= n.gen

\* What statements make of a running row is a sound row, and no older one.
LEMMA RunningRows ==
  ASSUME NEW r, RowOK(r), r.state = "running", NEW j \in Jobs, NEW w \in Workers
  PROVE  /\ Follows(r, HeartbeatRow(r)) /\ Follows(r, ReleaseRow(r))
         /\ Follows(r, SucceedRow(r)) /\ Follows(r, SnoozeRow(r))
         /\ Follows(r, RetryRow(r)) /\ Follows(r, ReapRow(r, j, w))
         /\ \A s \in {"cancelled", "discarded"} : Follows(r, TerminalRow(r, s))
<1> USE DEF Row
<1>1. /\ r \in Row /\ r.attempt \in Nat /\ r.attempt - 1 \in Nat /\ r.gen \in Nat
      /\ Append(r.errors, r.attempt) \in Seq(Nat)
  BY AppendProperties DEF RowOK
<1>2. {"available", "scheduled", "retryable", "succeeded", "cancelled", "discarded"}
        \subseteq States
  BY DEF States, Live, Waiting, Terminal
<1>3. HeartbeatRow(r) \in Row /\ HeartbeatRow(r).gen = r.gen
      /\ HeartbeatRow(r).attempt = r.attempt
  BY <1>1 DEF HeartbeatRow
<1>4. /\ ReleaseRow(r) \in Row /\ ReleaseRow(r).gen = r.gen
      /\ ReleaseRow(r).state # "running"
  BY <1>1, <1>2 DEF ReleaseRow, Unlocked
<1>5. /\ SucceedRow(r) \in Row /\ SucceedRow(r).gen = r.gen
      /\ SucceedRow(r).state # "running"
  BY <1>1, <1>2 DEF SucceedRow, Unlocked
<1>6. /\ SnoozeRow(r) \in Row /\ SnoozeRow(r).gen = r.gen
      /\ SnoozeRow(r).state # "running"
  BY <1>1, <1>2 DEF SnoozeRow, Unlocked
<1>7. /\ RetryRow(r) \in Row /\ RetryRow(r).gen = r.gen
      /\ RetryRow(r).state # "running"
  BY <1>1, <1>2 DEF RetryRow, Unlocked
<1>8. /\ ReapRow(r, j, w) \in Row /\ ReapRow(r, j, w).gen = r.gen
      /\ ReapRow(r, j, w).state # "running"
  BY <1>1, <1>2 DEF ReapRow, Unlocked
<1>9. ASSUME NEW s \in {"cancelled", "discarded"}
      PROVE  /\ TerminalRow(r, s) \in Row /\ TerminalRow(r, s).gen = r.gen
             /\ TerminalRow(r, s).state # "running"
  BY <1>1, <1>2 DEF TerminalRow, Unlocked
<1> HIDE DEF Row
<1>10. r.gen <= r.gen
  BY <1>1
<1>11. r.attempt >= 1
  BY DEF RowOK
<1>12. QED
  BY <1>3, <1>4, <1>5, <1>6, <1>7, <1>8, <1>9, <1>10, <1>11 DEF Follows, RowOK

\* And what they make of the others.
LEMMA OtherRows ==
  ASSUME NEW r, RowOK(r), NEW w \in Workers
  PROVE  /\ Follows(r, r)
         /\ Follows(r, InsertRow(r)) /\ Follows(r, ClaimRow(r, w))
         /\ Follows(r, ScheduleRow(r)) /\ Follows(r, PurgeRow(r))
         /\ Follows(r, [r EXCEPT !.scheduledAt = "due"])
         /\ Follows(r, [r EXCEPT !.leaseAt = "lapsed"])
         /\ Follows(r, [r EXCEPT !.finalizedAt = "aged"])
<1> USE DEF Row
<1>1. /\ r \in Row /\ r.attempt \in Nat /\ r.gen \in Nat
      /\ r.attempt + 1 \in Nat /\ r.gen + 1 \in Nat
  BY DEF RowOK
<1>2. {"available", "running", "purged"} \subseteq States
  BY DEF States, Live, Waiting
<1>3. /\ InsertRow(r) \in Row /\ InsertRow(r).gen = r.gen
      /\ InsertRow(r).state # "running"
  BY <1>1, <1>2 DEF InsertRow
<1>4. ClaimRow(r, w) \in Row
  BY <1>1, <1>2 DEF ClaimRow
<1>5. ClaimRow(r, w).gen = r.gen + 1 /\ ClaimRow(r, w).attempt = r.attempt + 1
  BY <1>1 DEF ClaimRow
<1>6. /\ ScheduleRow(r) \in Row /\ ScheduleRow(r).gen = r.gen
      /\ ScheduleRow(r).state # "running"
  BY <1>1, <1>2 DEF ScheduleRow
<1>7. /\ PurgeRow(r) \in Row /\ PurgeRow(r).gen = r.gen
      /\ PurgeRow(r).state # "running"
  BY <1>1, <1>2 DEF PurgeRow
<1>8. ASSUME NEW n, n \in {[r EXCEPT !.scheduledAt = "due"],
                           [r EXCEPT !.leaseAt = "lapsed"],
                           [r EXCEPT !.finalizedAt = "aged"]}
      PROVE  n \in Row /\ n.gen = r.gen /\ n.state = r.state /\ n.attempt = r.attempt
  BY <1>1, <1>8
<1> HIDE DEF Row
<1>9. r.gen <= r.gen /\ r.gen <= r.gen + 1 /\ r.attempt + 1 >= 1
  BY <1>1
<1>10. Follows(r, ClaimRow(r, w))
  BY <1>4, <1>5, <1>9 DEF Follows, RowOK
<1>11. ASSUME NEW n, n \in {[r EXCEPT !.scheduledAt = "due"],
                           [r EXCEPT !.leaseAt = "lapsed"],
                           [r EXCEPT !.finalizedAt = "aged"]}
      PROVE  Follows(r, n)
  BY <1>8, <1>9, <1>11 DEF Follows, RowOK
<1>12. QED
  BY <1>1, <1>3, <1>6, <1>7, <1>9, <1>10, <1>11 DEF Follows, RowOK

\* Every statement leaves a sound table, and no row older.
LEMMA StatementKeeps ==
  ASSUME TableOK, Statement
  PROVE  TableOK' /\ \A j \in Jobs : rows[j].gen <= rows'[j].gen
<1> USE DEF TableOK
<1>1. PICK u \in Workers : TRUE
  OBVIOUS
<1>2. ASSUME NEW j \in Jobs PROVE Follows(rows[j], rows[j])
  BY <1>1, OtherRows
<1>3. ASSUME DOMAIN rows' = Jobs, rows' = [j \in Jobs |-> rows'[j]],
             \A j \in Jobs : Follows(rows[j], rows'[j]),
             handedBack' \in [Workers -> SUBSET Jobs]
      PROVE  TableOK' /\ \A j \in Jobs : rows[j].gen <= rows'[j].gen
  <2>1. \A j \in Jobs : rows'[j] \in Row
    BY <1>3 DEF Follows, RowOK
  <2>2. rows' \in [Jobs -> Row]
    BY <1>3, <2>1
  <2>3. QED
    BY <1>3, <2>2 DEF Follows
<1>4. CASE UNCHANGED table
  BY <1>2, <1>4 DEF table, Follows
<1>5. ASSUME NEW w \in Workers, NEW S \in SUBSET Jobs,
             TakeRows(w, S) \/ RenewRows(w, S) \/ ReleaseRows(w, S)
      PROVE  TableOK' /\ \A j \in Jobs : rows[j].gen <= rows'[j].gen
  <2>1. CASE TakeRows(w, S)
    <3>1. ASSUME NEW j \in Jobs PROVE Follows(rows[j], rows'[j])
      BY <1>2, <2>1, OtherRows DEF TakeRows
    <3>2. QED
      BY <1>3, <2>1, <3>1 DEF TakeRows
  <2>2. CASE RenewRows(w, S)
    <3>1. ASSUME NEW j \in Jobs PROVE Follows(rows[j], rows'[j])
      BY <1>2, <2>2, RunningRows DEF RenewRows, LockedBy
    <3>2. QED
      BY <1>3, <2>2, <3>1 DEF RenewRows
  <2>3. CASE ReleaseRows(w, S)
    <3>1. ASSUME NEW j \in Jobs PROVE Follows(rows[j], rows'[j])
      BY <1>2, <2>3, RunningRows DEF ReleaseRows, LockedBy
    <3>2. QED
      BY <1>3, <2>3, <3>1 DEF ReleaseRows
  <2>4. QED
    BY <1>5, <2>1, <2>2, <2>3
<1>6. ASSUME NEW e \in Claims, Write(e)
      PROVE  TableOK' /\ \A j \in Jobs : rows[j].gen <= rows'[j].gen
  <2>1. e.job \in Jobs /\ e.worker \in Workers
    BY DEF Claims
  <2>2. ASSUME NEW n, Record(e, n),
               rows[e.job].state = "running" => Follows(rows[e.job], n)
        PROVE  TableOK' /\ \A j \in Jobs : rows[j].gen <= rows'[j].gen
    <3>1. ASSUME NEW j \in Jobs PROVE Follows(rows[j], rows'[j])
      BY <1>2, <2>1, <2>2 DEF Record, ClaimGuard, LockedBy
    <3>2. QED
      BY <1>3, <2>2, <3>1 DEF Record
  <2>3. QED
    BY <1>4, <1>6, <2>1, <2>2, RunningRows DEF Write, WriteSucceed, WriteSnooze,
       WriteCancel, WriteDiscard, WriteRetry
<1>7. ASSUME NEW w \in Workers, ScheduleRows \/ ReapRows(w) \/ PurgeRows
      PROVE  TableOK' /\ \A j \in Jobs : rows[j].gen <= rows'[j].gen
  <2>1. ASSUME NEW j \in Jobs PROVE Follows(rows[j], rows'[j])
    <3>1. CASE ScheduleRows
      BY <1>2, <3>1, OtherRows DEF ScheduleRows
    <3>2. CASE ReapRows(w)
      BY <1>2, <3>2, RunningRows DEF ReapRows, Reapable
    <3>3. CASE PurgeRows
      BY <1>2, <3>3, OtherRows DEF PurgeRows
    <3>4. QED
      BY <1>7, <3>1, <3>2, <3>3
  <2>2. QED
    BY <1>3, <1>7, <2>1 DEF ScheduleRows, ReapRows, PurgeRows
<1>8. ASSUME NEW j \in Jobs, Insert(j) \/ RowAges(j) \/ RowComesDue(j) \/ RowLapses(j)
      PROVE  TableOK' /\ \A k \in Jobs : rows[k].gen <= rows'[k].gen
  <2>1. ASSUME NEW k \in Jobs PROVE Follows(rows[k], rows'[k])
    <3>1. CASE Insert(j)
      BY <1>1, <1>2, <3>1, OtherRows DEF Insert
    <3>2. CASE RowAges(j)
      BY <1>1, <1>2, <3>2, OtherRows DEF RowAges
    <3>3. CASE RowComesDue(j)
      BY <1>1, <1>2, <3>3, OtherRows DEF RowComesDue
    <3>4. CASE RowLapses(j)
      BY <1>1, <1>2, <3>4, OtherRows DEF RowLapses
    <3>5. QED
      BY <1>8, <3>1, <3>2, <3>3, <3>4
  <2>2. QED
    BY <1>3, <1>8, <2>1 DEF Insert, RowAges, RowComesDue, RowLapses
<1>9. QED
  BY <1>4, <1>5, <1>6, <1>7, <1>8 DEF Statement

-----------------------------------------------------------------------------
(* What the threads do to the claims of one process.                       *)

\* Threads stay in shape when rows get newer.
LEMMA LaterTable ==
  ASSUME NEW l \in Loops, NEW R \in SUBSET Runs, NEW I, NEW w,
         NEW T \in [Jobs -> Row], NEW T2 \in [Jobs -> Row],
         \A j \in Jobs : T[j].gen <= T2[j].gen,
         Shape(l, R, I, T, w)
  PROVE  Shape(l, R, I, T2, w)
<1>1. ASSUME NEW e \in Claims, e.gen <= T[e.job].gen
      PROVE  e.gen <= T2[e.job].gen
  <2>1. e.job \in Jobs /\ e.gen \in Nat
    BY DEF Claims
  <2>2. T[e.job].gen \in Nat /\ T2[e.job].gen \in Nat
    BY <2>1 DEF Row
  <2>3. T[e.job].gen <= T2[e.job].gen
    BY <2>1
  <2>4. QED
    BY <1>1, <2>1, <2>2, <2>3
<1>2. l.batch \cup l.hand \subseteq Claims /\ \A r \in R : r.claim \in Claims
  BY DEF Loops, Runs
<1>3. QED
  BY <1>1, <1>2 DEF Shape, Bounded

\* A loop without claims.
LEMMA Emptied ==
  ASSUME NEW l \in Loops, NEW R \in SUBSET Runs, NEW I, NEW T, NEW w,
         Shape(l, R, I, T, w), l.pc # "send",
         NEW pc \in {"idle", "claiming", "done"}
  PROVE  Shape(LoopAt(pc, {}, {}), R, I, T, w)
  BY DEF Shape, LoopOK, EntriesOK, Bounded, LoopAt

\* A batch of new claims shares nothing with the goroutines.
LEMMA BatchComes ==
  ASSUME NEW l \in Loops, NEW R \in SUBSET Runs, NEW I, NEW T, NEW w,
         Shape(l, R, I, T, w), l.pc # "send",
         NEW B \in SUBSET Claims,
         \A e \in B : e.worker = w /\ e.gen <= T[e.job].gen,
         \A r \in R : r.claim \notin B
  PROVE  Shape(LoopAt("track", B, {}), R, I, T, w)
  BY DEF Shape, LoopOK, EntriesOK, Bounded, LoopAt

\* The loop tracks a claim of its batch and takes it in hand.
LEMMA NextTracked ==
  ASSUME NEW l \in Loops, NEW R \in SUBSET Runs, NEW I, NEW I2, NEW T, NEW w,
         Shape(l, R, I, T, w), l.pc = "track",
         NEW e \in l.batch, \A j \in Jobs : j # e.job => I2[j] = I[j]
  PROVE  Shape(LoopAt("send", l.batch \ {e}, {e}), R, I2, T, w)
<1> DEFINE l2 == LoopAt("send", l.batch \ {e}, {e})
<1>1. l2.pc = "send" /\ l2.batch = l.batch \ {e} /\ l2.hand = {e}
  BY DEF LoopAt
<1> HIDE DEF l2
<1>2. LoopOK(l2, R, w)
  BY <1>1 DEF Shape, LoopOK
<1>3. EntriesOK(l2, R, I2)
  BY <1>1 DEF Shape, EntriesOK
<1>4. Bounded(l2, R, T)
  BY <1>1 DEF Shape, Bounded
<1>5. QED
  BY <1>2, <1>3, <1>4 DEF Shape, l2

\* The loop after a hand-off.
Onward(l) == IF l.batch = {} THEN Idle ELSE LoopAt("track", l.batch, {})

Received(H, c) == {Run(e, "received", c) : e \in H}

\* The claim in hand becomes a run of the goroutine that receives it.
LEMMA HandSent ==
  ASSUME NEW l \in Loops, NEW R \in SUBSET Runs, NEW I, NEW T, NEW w,
         Shape(l, R, I, T, w), l.pc = "send", NEW c \in BOOLEAN,
         NEW l2, l2 = Onward(l), NEW R2, R2 = R \cup Received(l.hand, c)
  PROVE  R2 \in SUBSET Runs /\ Shape(l2, R2, I, T, w)
<1>1. PICK e \in l.hand : l.hand = {e}
  BY DEF Shape, LoopOK
<1> DEFINE x == Run(e, "received", c)
<1>2. e \in Claims
  BY DEF Loops
<1>3. x \in Runs /\ x.claim = e
  BY <1>2 DEF Run, Runs
<1>4. R2 = R \cup {x}
  BY <1>1 DEF Received
<1> HIDE DEF x
<1>5. /\ l2.pc \in {"idle", "track"} /\ l2.batch = l.batch /\ l2.hand = {}
      /\ l2.pc = "idle" => l.batch = {}
  BY DEF Onward, LoopAt, Idle
<1>6. \A r \in R : r.claim # e
  BY <1>1 DEF Shape, LoopOK
<1>7. LoopOK(l2, R \cup {x}, w)
  <2>1. e.worker = w /\ e \notin l.batch
    BY <1>1 DEF Shape, LoopOK
  <2>2. \A q, r \in R \cup {x} : q.claim = r.claim => q = r
    BY <1>3, <1>6 DEF Shape, LoopOK
  <2>3. \A r \in R \cup {x} : /\ r.claim.worker = w
                              /\ r.claim \notin l2.batch /\ r.claim \notin l2.hand
    BY <1>3, <1>5, <2>1 DEF Shape, LoopOK
  <2>4. QED
    BY <1>5, <2>2, <2>3 DEF Shape, LoopOK
<1>8. EntriesOK(l2, R \cup {x}, I)
  BY <1>1, <1>3 DEF Shape, EntriesOK
<1>9. Bounded(l2, R \cup {x}, T)
  BY <1>1, <1>3, <1>5 DEF Shape, Bounded
<1>10. QED
  BY <1>3, <1>4, <1>7, <1>8, <1>9 DEF Shape

\* The claim in hand is untracked before it is handed back.
LEMMA HandWithdrawn ==
  ASSUME NEW l \in Loops, NEW R \in SUBSET Runs, NEW I, NEW I2, NEW T, NEW w,
         Shape(l, R, I, T, w), l.pc = "send",
         \A j \in Jobs : I2[j] = IF \E e \in l.hand : e.job = j THEN Absent ELSE I[j]
  PROVE  Shape([l EXCEPT !.pc = "handback"], R, I2, T, w)
<1> DEFINE l2 == [l EXCEPT !.pc = "handback"]
<1>1. l2.pc = "handback" /\ l2.batch = l.batch /\ l2.hand = l.hand
  BY DEF Loops
<1> HIDE DEF l2
<1>2. LoopOK(l2, R, w)
  BY <1>1 DEF Shape, LoopOK
<1>3. EntriesOK(l2, R, I2)
  <2>1. Absent.tracked = FALSE
    BY DEF Absent
  <2>2. QED
    BY <2>1 DEF Shape, EntriesOK
<1>4. Bounded(l2, R, T)
  BY <1>1 DEF Shape, Bounded
<1>5. QED
  BY <1>2, <1>3, <1>4 DEF Shape, l2

\* The same runs, further on or cancelled.
Relabels(R, R2) ==
  /\ \A x \in R2 : \E r \in R : x.claim = r.claim
  /\ \A r \in R : \E x \in R2 : x.claim = r.claim
  /\ \A x, y \in R2 : x.claim = y.claim => x = y

\* Runs may move on, and their entries with them.
LEMMA RunsRelabelled ==
  ASSUME NEW l \in Loops, NEW R \in SUBSET Runs, NEW R2 \in SUBSET Runs,
         NEW I, NEW I2, NEW T, NEW w,
         Shape(l, R, I, T, w), Relabels(R, R2),
         \A j \in Jobs : I2[j] = I[j] \/ \E r \in R : r.claim.job = j
  PROVE  Shape(l, R2, I2, T, w)
<1>1. LoopOK(l, R2, w)
  <2>1. \A r \in R2 : /\ r.claim.worker = w
                      /\ r.claim \notin l.batch /\ r.claim \notin l.hand
    BY DEF Shape, LoopOK, Relabels
  <2>2. QED
    BY <2>1 DEF Shape, LoopOK, Relabels
<1>2. EntriesOK(l, R2, I2)
  BY DEF Shape, EntriesOK, Relabels
<1>3. Bounded(l, R2, T)
  BY DEF Shape, Bounded, Relabels
<1>4. QED
  BY <1>1, <1>2, <1>3 DEF Shape

\* A run leaves with its entry.
LEMMA RunUntracked ==
  ASSUME NEW l \in Loops, NEW R \in SUBSET Runs, NEW I, NEW I2, NEW T, NEW w,
         Shape(l, R, I, T, w), NEW r \in R,
         \A j \in Jobs : I2[j] = IF j = r.claim.job THEN Absent ELSE I[j]
  PROVE  Shape(l, R \ {r}, I2, T, w)
<1>1. LoopOK(l, R \ {r}, w)
  BY DEF Shape, LoopOK
<1>2. EntriesOK(l, R \ {r}, I2)
  <2>1. Absent.tracked = FALSE
    BY DEF Absent
  <2>2. QED
    BY <2>1 DEF Shape, EntriesOK
<1>3. Bounded(l, R \ {r}, T)
  BY DEF Shape, Bounded
<1>4. QED
  BY <1>1, <1>2, <1>3 DEF Shape

\* A process without claims is in shape.
LEMMA Nothing ==
  ASSUME NEW T, NEW w
  PROVE  \A pc \in {"idle", "done"} :
           Shape(LoopAt(pc, {}, {}), {}, [j \in Jobs |-> Absent], T, w)
  BY DEF Shape, LoopOK, EntriesOK, Bounded, LoopAt, Absent

\* Ways to relabel.
LEMMA PcSet ==
  ASSUME NEW R \in SUBSET Runs, NEW r \in R, \A x, y \in R : x.claim = y.claim => x = y,
         NEW pc \in {"received", "handling", "written"}
  PROVE  /\ (R \ {r}) \cup {[r EXCEPT !.pc = pc]} \in SUBSET Runs
         /\ Relabels(R, (R \ {r}) \cup {[r EXCEPT !.pc = pc]})
<1> DEFINE x == [r EXCEPT !.pc = pc]
<1>1. x \in Runs /\ x.claim = r.claim
  BY DEF Runs
<1> HIDE DEF x
<1>2. QED
  BY <1>1 DEF Relabels, x

CancelRuns(R, C) ==
  {IF r.claim \in C THEN [r EXCEPT !.cancelled = TRUE] ELSE r : r \in R}

CancelAll(R) == {[r EXCEPT !.cancelled = TRUE] : r \in R}

\* Cancelling runs only relabels them.
LEMMA CancelledOnly ==
  ASSUME NEW R \in SUBSET Runs, \A x, y \in R : x.claim = y.claim => x = y,
         NEW C, NEW R2, R2 = CancelRuns(R, C) \/ R2 = CancelAll(R)
  PROVE  R2 \in SUBSET Runs /\ Relabels(R, R2)
<1> DEFINE f(r) == [r EXCEPT !.cancelled = TRUE]
<1>1. \A r \in R : f(r) \in Runs /\ f(r).claim = r.claim
  BY DEF Runs
<1> HIDE DEF f
<1>2. CASE R2 = CancelRuns(R, C)
  <2>1. R2 = {IF r.claim \in C THEN f(r) ELSE r : r \in R}
    BY <1>2 DEF CancelRuns, f
  <2>2. QED
    BY <1>1, <2>1 DEF Relabels
<1>3. CASE R2 = CancelAll(R)
  <2>1. R2 = {f(r) : r \in R}
    BY <1>3 DEF CancelAll, f
  <2>2. QED
    BY <1>1, <2>1 DEF Relabels
<1>4. QED
  BY <1>2, <1>3

-----------------------------------------------------------------------------
(* Every step keeps the invariant: the process that acts is looked at, the *)
(* others see at most a later table.                                       *)

Elsewhere(w) ==
  \A v \in Workers \ {w} :
    /\ phase'[v] = phase[v] /\ loop'[v] = loop[v] /\ inflight'[v] = inflight[v]
    /\ runs'[v] = runs[v] /\ beat'[v] = beat[v]

Keeps(w) == Typed' /\ Local(w)' /\ Elsewhere(w)

\* No statement disturbs the threads of a process that did not issue it.
LEMMA ShapeLater ==
  ASSUME Inv, Statement
  PROVE  \A v \in Workers : Shape(loop[v], runs[v], inflight[v], rows', v)
<1>1. TableOK' /\ \A j \in Jobs : rows[j].gen <= rows'[j].gen
  BY StatementKeeps DEF Inv
<1>2. rows \in [Jobs -> Row] /\ rows' \in [Jobs -> Row]
  BY <1>1 DEF Inv, TableOK
<1>3. \A v \in Workers : loop[v] \in Loops /\ runs[v] \in SUBSET Runs
  BY DEF Inv, Typed
<1>4. QED
  BY <1>1, <1>2, <1>3, LaterTable DEF Inv, Local

\* The states of the claim loop.
LEMMA LoopTypes ==
  ASSUME NEW B \in SUBSET Claims, NEW H \in SUBSET Claims,
         NEW pc \in {"idle", "claiming", "track", "send", "handback", "done"}
  PROVE  LoopAt(pc, B, H) \in Loops
  BY DEF LoopAt, Loops

NewBatch(w, S) == {NewClaim(w, j) : j \in S}

\* Claims that a statement makes are new to every goroutine.
LEMMA NewClaimNew ==
  ASSUME Inv, NEW w \in Workers, NEW S \in SUBSET Jobs, TakeRows(w, S),
         NEW B, B = NewBatch(w, S)
  PROVE  /\ B \in SUBSET Claims
         /\ \A e \in B : e.worker = w /\ e.gen <= rows'[e.job].gen
         /\ \A v \in Workers : \A r \in runs[v] : r.claim \notin B
<1>1. ASSUME NEW j \in S
      PROVE  /\ NewClaim(w, j) \in Claims /\ NewClaim(w, j).worker = w
             /\ NewClaim(w, j).gen = rows[j].gen + 1 /\ NewClaim(w, j).job = j
             /\ rows[j].gen \in Nat /\ rows'[j].gen = rows[j].gen + 1
  <2>1. rows[j] \in Row /\ rows[j].attempt \in Nat /\ rows[j].gen \in Nat
    BY DEF Inv, TableOK, Row
  <2>2. rows'[j] = ClaimRow(rows[j], w)
    BY DEF TakeRows
  <2>3. rows'[j].gen = rows[j].gen + 1
    BY <2>1, <2>2 DEF ClaimRow, Row
  <2>4. QED
    BY <2>1, <2>3 DEF NewClaim, Claims
<1>2. B \in SUBSET Claims /\ \A e \in B : e.worker = w /\ e.gen <= rows'[e.job].gen
  <2>1. ASSUME NEW e \in B
        PROVE  e \in Claims /\ e.worker = w /\ e.gen <= rows'[e.job].gen
    <3>1. PICK j \in S : e = NewClaim(w, j)
      BY DEF NewBatch
    <3>2. QED
      BY <1>1, <3>1
  <2>2. QED
    BY <2>1
<1>3. ASSUME NEW v \in Workers, NEW r \in runs[v], r.claim \in B
      PROVE  FALSE
  <2>1. PICK j \in S : r.claim = NewClaim(w, j)
    BY <1>3 DEF NewBatch
  <2>2. r.claim.gen <= rows[r.claim.job].gen
    BY DEF Inv, Local, Shape, Bounded
  <2>3. QED
    BY <1>1, <2>1, <2>2
<1>4. QED
  BY <1>2, <1>3

\* The claim loop leaves its process in shape.
LEMMA ClaimLoopKeeps ==
  ASSUME Inv, NEW w \in Workers, ClaimLoop(w)
  PROVE  Statement /\ Keeps(w)
<1>1. /\ Typed /\ TableOK /\ PhaseOK(w) /\ Shape(loop[w], runs[w], inflight[w], rows, w)
      /\ loop[w] \in Loops /\ runs[w] \in SUBSET Runs
  BY DEF Inv, Local, Typed
<1>2. ASSUME Statement PROVE Shape(loop[w], runs[w], inflight[w], rows', w)
  BY <1>2, ShapeLater
\* A loop that drops its claims, or has none.
<1>3. ASSUME Statement, NEW pc \in {"idle", "claiming", "done"}, loop[w].pc # "send",
             ~Gone(w), loop' = [loop EXCEPT ![w] = LoopAt(pc, {}, {})],
             UNCHANGED <<phase, inflight, runs, beat, release>>
      PROVE  Statement /\ Keeps(w)
  <2>1. loop'[w] = LoopAt(pc, {}, {}) /\ LoopAt(pc, {}, {}) \in Loops
    BY <1>1, <1>3, LoopTypes DEF Typed
  <2>2. Shape(loop'[w], runs[w], inflight[w], rows', w)
    BY <1>1, <1>2, <1>3, <2>1, Emptied
  <2>3. Typed' /\ Elsewhere(w)
    BY <1>1, <1>3, <2>1 DEF Typed, Elsewhere
  <2>4. loop'[w].pc # "handback"
    BY <2>1 DEF LoopAt
  <2>5. QED
    BY <1>3, <2>2, <2>3, <2>4 DEF Keeps, Local, PhaseOK, Gone
<1>4. loop[w].pc # "done" => ~Gone(w)
  BY <1>1 DEF PhaseOK, Stopped, LoopAt
<1>5. ASSUME NEW pc \in {"idle", "claiming", "track", "send", "handback", "done"}
      PROVE  LoopAt(pc, {}, {}).pc = pc
  BY DEF LoopAt
<1>6. CASE ClaimBegin(w)
  <2>1. Statement /\ loop[w].pc # "send" /\ ~Gone(w)
    BY <1>5, <1>6 DEF ClaimBegin, Statement, Gone, Idle
  <2>2. QED
    BY <1>3, <1>6, <2>1 DEF ClaimBegin
<1>7. CASE ClaimNothing(w)
  <2>1. Statement /\ loop[w].pc # "send" /\ ~Gone(w)
    BY <1>4, <1>7 DEF ClaimNothing, Statement
  <2>2. QED
    BY <1>3, <1>7, <2>1 DEF ClaimNothing, Idle
<1>8. ASSUME NEW S \in SUBSET Jobs, ClaimLost(w, S)
      PROVE  Statement /\ Keeps(w)
  <2>1. Statement /\ loop[w].pc # "send" /\ ~Gone(w)
    BY <1>4, <1>8 DEF ClaimLost, Statement
  <2>2. QED
    BY <1>3, <1>8, <2>1 DEF ClaimLost, Idle
<1>9. CASE HandBack(w)
  <2>1. {e.job : e \in loop[w].hand} \in SUBSET Jobs
    BY <1>1 DEF Loops, Claims
  <2>2. Statement /\ loop[w].pc # "send" /\ ~Gone(w)
    BY <1>4, <1>9, <2>1 DEF HandBack, Statement
  <2>3. QED
    BY <1>3, <1>9, <2>2 DEF HandBack, Stopped
<1>10. CASE LoopEnds(w)
  <2>1. Statement /\ loop[w].pc # "send" /\ ~Gone(w)
    BY <1>5, <1>10 DEF LoopEnds, Statement, Idle
  <2>2. QED
    BY <1>3, <1>10, <2>1 DEF LoopEnds, Stopped
<1>11. ASSUME NEW S \in SUBSET Jobs, ClaimCommit(w, S)
       PROVE  Statement /\ Keeps(w)
  <2> DEFINE B == NewBatch(w, S)
  <2>1. /\ B \in SUBSET Claims
        /\ \A e \in B : e.worker = w /\ e.gen <= rows'[e.job].gen
        /\ \A r \in runs[w] : r.claim \notin B
    BY <1>11, NewClaimNew DEF ClaimCommit
  <2>2. /\ loop' = [loop EXCEPT ![w] = LoopAt("track", B, {})] /\ loop[w].pc = "claiming"
        /\ UNCHANGED <<phase, inflight, runs, beat, release>> /\ Statement
    BY <1>11 DEF ClaimCommit, NewBatch, Statement
  <2> HIDE DEF B
  <2>3. loop'[w] = LoopAt("track", B, {}) /\ LoopAt("track", B, {}) \in Loops
    BY <1>1, <2>1, <2>2, LoopTypes DEF Typed
  <2>4. Shape(loop'[w], runs[w], inflight[w], rows', w)
    BY <1>1, <1>2, <2>1, <2>2, <2>3, BatchComes
  <2>5. Typed' /\ Elsewhere(w)
    BY <1>1, <2>2, <2>3 DEF Typed, Elsewhere
  <2>6. loop'[w].pc # "handback"
    BY <2>3 DEF LoopAt
  <2>7. QED
    BY <1>4, <2>2, <2>4, <2>5, <2>6 DEF Keeps, Local, PhaseOK, Gone
<1>12. ASSUME NEW e \in loop[w].batch, TrackNext(w, e)
       PROVE  Statement /\ Keeps(w)
  <2>1. /\ loop'[w] = LoopAt("send", loop[w].batch \ {e}, {e}) /\ loop[w].pc = "track"
        /\ loop' = [loop EXCEPT ![w] = loop'[w]]
        /\ inflight' = [inflight EXCEPT ![w][e.job] = Entry({})]
        /\ UNCHANGED <<phase, runs, beat, release>> /\ Statement
    BY <1>1, <1>12 DEF TrackNext, Statement, Typed
  <2>2. e \in Claims /\ e.job \in Jobs /\ loop[w].batch \ {e} \in SUBSET Claims
    BY <1>1 DEF Loops, Claims
  <2>3. loop'[w] \in Loops
    BY <2>1, <2>2, LoopTypes
  <2>4. /\ inflight' \in [Workers -> [Jobs -> Entries]]
        /\ \A j \in Jobs : j # e.job => inflight'[w][j] = inflight[w][j]
    BY <1>1, <2>1, <2>2 DEF Typed, Entries, Entry
  <2>5. Shape(loop'[w], runs[w], inflight'[w], rows', w)
    <3>1. Shape(LoopAt("send", loop[w].batch \ {e}, {e}), runs[w], inflight'[w], rows', w)
      BY <1>1, <1>2, <1>12, <2>1, <2>4, NextTracked
    <3>2. QED
      BY <2>1, <3>1
  <2>6. Typed' /\ Elsewhere(w)
    BY <1>1, <2>1, <2>3, <2>4 DEF Typed, Elsewhere
  <2>7. loop'[w].pc # "handback"
    BY <2>1 DEF LoopAt
  <2>8. QED
    BY <1>4, <2>1, <2>5, <2>6, <2>7 DEF Keeps, Local, PhaseOK, Gone
<1>13. CASE Send(w)
  <2>0. PICK c \in BOOLEAN : c = (phase[w] = "cancelled")
    OBVIOUS
  <2> DEFINE R2 == runs[w] \cup Received(loop[w].hand, c)
             l2 == Onward(loop[w])
  <2>1. /\ loop' = [loop EXCEPT ![w] = l2] /\ loop[w].pc = "send"
        /\ runs' = [runs EXCEPT ![w] = R2]
        /\ UNCHANGED <<phase, inflight, beat, release>> /\ Statement
    BY <1>1, <1>13, <2>0 DEF Send, Received, Onward, Statement
  <2>2. R2 \in SUBSET Runs /\ Shape(l2, R2, inflight[w], rows', w)
    <3>1. /\ R2 = runs[w] \cup Received(loop[w].hand, c)
          /\ l2 = Onward(loop[w])
      OBVIOUS
    <3>2. Shape(loop[w], runs[w], inflight[w], rows', w) /\ loop[w].pc = "send"
      BY <1>2, <2>1
    <3> HIDE DEF R2, l2
    <3>3. QED
      BY <1>1, <3>1, <3>2, HandSent
  <2>3. l2 \in Loops
    BY <1>1, LoopTypes DEF Onward, Idle, Loops
  <2>4. l2.pc # "handback"
    BY DEF Onward, LoopAt, Idle
  <2> HIDE DEF R2, l2
  <2>5. loop'[w] = l2 /\ runs'[w] = R2
    BY <1>1, <2>1 DEF Typed
  <2>6. Typed' /\ Elsewhere(w)
    BY <1>1, <2>1, <2>2, <2>3 DEF Typed, Elsewhere
  <2>7. QED
    BY <1>4, <2>1, <2>2, <2>4, <2>5, <2>6 DEF Keeps, Local, PhaseOK, Gone
<1>14. CASE SendCancelled(w)
  <2> DEFINE l2 == [loop[w] EXCEPT !.pc = "handback"]
             I2 == [j \in Jobs |-> IF \E e \in loop[w].hand : e.job = j
                                   THEN Absent ELSE inflight[w][j]]
  <2>1. /\ loop' = [loop EXCEPT ![w] = l2] /\ loop[w].pc = "send"
        /\ inflight' = [inflight EXCEPT ![w] = I2] /\ phase[w] = "cancelled"
        /\ UNCHANGED <<phase, runs, beat, release>> /\ Statement
    BY <1>1, <1>14 DEF SendCancelled, Statement
  <2>2. Shape(l2, runs[w], I2, rows', w)
    BY <1>1, <1>2, <2>1, HandWithdrawn
  <2>3. l2 \in Loops /\ I2 \in [Jobs -> Entries]
    <3>1. Absent \in Entries
      BY DEF Absent, Entries
    <3>2. inflight[w] \in [Jobs -> Entries]
      BY <1>1 DEF Typed
    <3>3. QED
      BY <1>1, <3>1, <3>2 DEF Loops
  <2> HIDE DEF l2, I2
  <2>4. loop'[w] = l2 /\ inflight'[w] = I2
    BY <1>1, <2>1 DEF Typed
  <2>5. Typed' /\ Elsewhere(w)
    BY <1>1, <2>1, <2>3 DEF Typed, Elsewhere
  <2>6. QED
    BY <1>4, <2>1, <2>2, <2>4, <2>5 DEF Keeps, Local, PhaseOK, Gone
<1>15. QED
  BY <1>6, <1>7, <1>8, <1>9, <1>10, <1>11, <1>12, <1>13, <1>14 DEF ClaimLoop

\* What the heartbeat and the drain copy from the map.
LEMMA SnapshotType ==
  ASSUME Typed, NEW w \in Workers
  PROVE  Snapshot(w) \in Snapshots
<1>1. \A j \in Jobs : inflight[w][j].cancel \in SUBSET Claims
  BY DEF Typed, Entries
<1>2. UNION {inflight[w][j].cancel : j \in Jobs} \in SUBSET Claims
  BY <1>1
<1>3. {j \in Jobs : inflight[w][j].tracked} \in SUBSET Jobs
  OBVIOUS
<1>4. QED
  BY <1>2, <1>3 DEF Snapshot, Snapshots

\* The goroutines leave their process in shape.
LEMMA GoroutineKeeps ==
  ASSUME Inv, NEW w \in Workers, Goroutine(w)
  PROVE  Statement /\ Keeps(w)
<1>1. /\ Typed /\ TableOK /\ PhaseOK(w) /\ Shape(loop[w], runs[w], inflight[w], rows, w)
      /\ loop[w] \in Loops /\ runs[w] \in SUBSET Runs
      /\ \A x, y \in runs[w] : x.claim = y.claim => x = y
  BY DEF Inv, Local, Typed, Shape, LoopOK
<1>2. ASSUME Statement PROVE Shape(loop[w], runs[w], inflight[w], rows', w)
  BY <1>2, ShapeLater
<1>3. PICK r \in runs[w] : Start(w, r) \/ Finish(w, r) \/ Untrack(w, r)
  BY DEF Goroutine
<1>4. r \in Runs /\ r.claim \in Claims /\ r.claim.job \in Jobs /\ ~Gone(w)
  BY <1>1, <1>3 DEF Runs, Claims, PhaseOK
<1> DEFINE R2(pc) == (runs[w] \ {r}) \cup {[r EXCEPT !.pc = pc]}
<1>5. ASSUME NEW pc \in {"received", "handling", "written"}
      PROVE  R2(pc) \in SUBSET Runs /\ Relabels(runs[w], R2(pc))
  BY <1>1, PcSet
<1>6. CASE Start(w, r)
  <2>1. /\ runs' = [runs EXCEPT ![w] = R2("handling")]
        /\ inflight' = [inflight EXCEPT ![w][r.claim.job] = Entry({r.claim})]
        /\ UNCHANGED <<phase, loop, beat, release>> /\ Statement
    BY <1>6 DEF Start, SetRun, Statement
  <2>2. /\ inflight' \in [Workers -> [Jobs -> Entries]]
        /\ \A j \in Jobs : j # r.claim.job => inflight'[w][j] = inflight[w][j]
    BY <1>1, <1>4, <2>1 DEF Typed, Entries, Entry
  <2>3. runs'[w] = R2("handling")
    BY <1>1, <2>1 DEF Typed
  <2> HIDE DEF R2
  <2>4. Shape(loop[w], R2("handling"), inflight'[w], rows', w)
    BY <1>1, <1>2, <1>3, <1>5, <2>1, <2>2, RunsRelabelled
  <2>5. Typed' /\ Elsewhere(w)
    BY <1>1, <1>5, <2>1, <2>2 DEF Typed, Elsewhere
  <2>6. QED
    BY <1>1, <1>4, <2>1, <2>3, <2>4, <2>5 DEF Keeps, Local, PhaseOK, Gone
<1>7. CASE Finish(w, r)
  <2>1. /\ runs' = [runs EXCEPT ![w] = R2("written")]
        /\ UNCHANGED <<phase, loop, inflight, beat, release>> /\ Statement
    BY <1>4, <1>7 DEF Finish, SetRun, Statement
  <2>2. runs'[w] = R2("written")
    BY <1>1, <2>1 DEF Typed
  <2> HIDE DEF R2
  <2>3. Shape(loop[w], R2("written"), inflight[w], rows', w)
    BY <1>1, <1>2, <1>5, <2>1, RunsRelabelled
  <2>4. Typed' /\ Elsewhere(w)
    BY <1>1, <1>5, <2>1 DEF Typed, Elsewhere
  <2>5. QED
    BY <1>1, <1>4, <2>1, <2>2, <2>3, <2>4 DEF Keeps, Local, PhaseOK, Gone
<1>8. CASE Untrack(w, r)
  <2>1. /\ runs' = [runs EXCEPT ![w] = runs[w] \ {r}]
        /\ inflight' = [inflight EXCEPT ![w][r.claim.job] = Absent]
        /\ UNCHANGED <<phase, loop, beat, release>> /\ Statement
    BY <1>8 DEF Untrack, Statement
  <2>2. /\ inflight' \in [Workers -> [Jobs -> Entries]]
        /\ \A j \in Jobs : inflight'[w][j] = IF j = r.claim.job THEN Absent
                                             ELSE inflight[w][j]
    BY <1>1, <1>4, <2>1 DEF Typed, Entries, Absent
  <2>3. runs'[w] = runs[w] \ {r}
    BY <1>1, <2>1 DEF Typed
  <2>4. Shape(loop[w], runs[w] \ {r}, inflight'[w], rows', w)
    BY <1>1, <1>2, <1>3, <2>1, <2>2, RunUntracked
  <2>5. Typed' /\ Elsewhere(w)
    BY <1>1, <2>1, <2>2 DEF Typed, Elsewhere
  <2>6. QED
    BY <1>1, <1>4, <2>1, <2>3, <2>4, <2>5 DEF Keeps, Local, PhaseOK, Gone
<1>9. QED
  BY <1>3, <1>6, <1>7, <1>8

\* The heartbeat leaves its process in shape.
LEMMA HeartbeatKeeps ==
  ASSUME Inv, NEW w \in Workers, HeartbeatLoop(w)
  PROVE  Statement /\ Keeps(w)
<1>1. /\ Typed /\ TableOK /\ PhaseOK(w) /\ Shape(loop[w], runs[w], inflight[w], rows, w)
      /\ loop[w] \in Loops /\ runs[w] \in SUBSET Runs
      /\ \A x, y \in runs[w] : x.claim = y.claim => x = y
  BY DEF Inv, Local, Typed, Shape, LoopOK
<1>2. ASSUME Statement PROVE Shape(loop[w], runs[w], inflight[w], rows', w)
  BY <1>2, ShapeLater
<1>3. NoSnapshot \in Snapshots /\ beat[w].ids \in SUBSET Jobs
  BY <1>1 DEF NoSnapshot, Snapshots, Typed
<1>4. beat[w] # NoSnapshot => ~Gone(w)
  BY <1>1 DEF PhaseOK
<1>5. CASE BeatBegin(w)
  <2>1. /\ beat' = [beat EXCEPT ![w] = Snapshot(w)] /\ ~Gone(w)
        /\ UNCHANGED <<phase, loop, inflight, runs, release>> /\ Statement
    BY <1>5 DEF BeatBegin, Gone, Statement
  <2>2. Typed' /\ Elsewhere(w)
    BY <1>1, <2>1, SnapshotType DEF Typed, Elsewhere
  <2>3. QED
    BY <1>1, <1>2, <2>1, <2>2 DEF Keeps, Local, PhaseOK, Gone
<1>6. CASE Beat(w)
  <2>1. PICK R2 : R2 = IF Shortfall(w) THEN CancelRuns(runs[w], beat[w].cancels)
                       ELSE runs[w]
    OBVIOUS
  <2>2. /\ beat' = [beat EXCEPT ![w] = NoSnapshot] /\ ~Gone(w)
        /\ runs' = [runs EXCEPT ![w] = R2]
        /\ UNCHANGED <<phase, loop, inflight, release>> /\ Statement
    <3>1. Cancelled(w, beat[w].cancels) = CancelRuns(runs[w], beat[w].cancels)
      BY DEF Cancelled, CancelRuns
    <3>2. runs' = [runs EXCEPT ![w] = R2]
      <4>1. CASE Shortfall(w)
        BY <1>6, <2>1, <3>1, <4>1 DEF Beat
      <4>2. CASE ~Shortfall(w)
        BY <1>6, <2>1, <4>2 DEF Beat
      <4>3. QED
        BY <4>1, <4>2
    <3>3. QED
      BY <1>3, <1>4, <1>6, <3>2 DEF Beat, Statement
  <2>3. R2 \in SUBSET Runs /\ Relabels(runs[w], R2)
    <3>1. CASE R2 = runs[w]
      BY <1>1, <3>1 DEF Relabels
    <3>2. CASE R2 = CancelRuns(runs[w], beat[w].cancels)
      <4>1. \A C : /\ CancelRuns(runs[w], C) \in SUBSET Runs
                   /\ Relabels(runs[w], CancelRuns(runs[w], C))
        BY <1>1, CancelledOnly
      <4>2. QED
        BY <3>2, <4>1
    <3>3. QED
      BY <2>1, <3>1, <3>2
  <2>4. Shape(loop[w], R2, inflight[w], rows', w)
    BY <1>1, <1>2, <2>2, <2>3, RunsRelabelled
  <2>5. runs'[w] = R2
    BY <1>1, <2>2 DEF Typed
  <2>6. Typed' /\ Elsewhere(w)
    BY <1>1, <1>3, <2>2, <2>3 DEF Typed, Elsewhere
  <2>7. QED
    BY <1>1, <2>2, <2>4, <2>5, <2>6 DEF Keeps, Local, PhaseOK, Gone
<1>7. CASE BeatFails(w)
  <2>1. /\ beat' = [beat EXCEPT ![w] = NoSnapshot] /\ ~Gone(w)
        /\ UNCHANGED <<phase, loop, inflight, runs, release>> /\ Statement
    BY <1>3, <1>4, <1>7 DEF BeatFails, Statement
  <2>2. Typed' /\ Elsewhere(w)
    BY <1>1, <1>3, <2>1 DEF Typed, Elsewhere
  <2>3. QED
    BY <1>1, <1>2, <2>1, <2>2 DEF Keeps, Local, PhaseOK, Gone
<1>8. QED
  BY <1>5, <1>6, <1>7 DEF HeartbeatLoop

\* The changes of phase that the rest of a process does not notice.
LEMMA DrainKeeps ==
  ASSUME Inv, NEW w \in Workers, Drain(w) \/ Crash(w)
  PROVE  Statement /\ Keeps(w)
<1>1. /\ Typed /\ TableOK /\ PhaseOK(w) /\ Shape(loop[w], runs[w], inflight[w], rows, w)
      /\ loop[w] \in Loops /\ runs[w] \in SUBSET Runs
      /\ \A x, y \in runs[w] : x.claim = y.claim => x = y
  BY DEF Inv, Local, Typed, Shape, LoopOK
<1>2. ASSUME Statement PROVE Shape(loop[w], runs[w], inflight[w], rows', w)
  BY <1>2, ShapeLater
<1>3. NoSnapshot \in Snapshots /\ release[w].ids \in SUBSET Jobs
  BY <1>1 DEF NoSnapshot, Snapshots, Typed
<1>4. ASSUME NEW p \in {"running", "draining", "releasing", "stopped"},
             NEW q \in {"draining", "releasing", "stopped", "cancelled"},
             SetPhase(w, p, q), UNCHANGED <<loop, inflight, beat>>, Statement,
             NEW R2 \in SUBSET Runs, Relabels(runs[w], R2),
             runs' = [runs EXCEPT ![w] = R2],
             release' \in [Workers -> Snapshots]
      PROVE  Statement /\ Keeps(w)
  <2>1. phase' \in [Workers -> Phases] /\ phase'[w] = q /\ runs'[w] = R2
    BY <1>1, <1>4 DEF SetPhase, Typed, Phases
  <2>2. Typed' /\ Elsewhere(w)
    BY <1>1, <1>4, <2>1 DEF Typed, SetPhase, Elsewhere
  <2>3. Shape(loop[w], R2, inflight[w], rows', w)
    BY <1>1, <1>2, <1>4, RunsRelabelled
  <2>4. loop[w].pc # "handback"
    BY <1>1, <1>4 DEF PhaseOK, SetPhase
  <2>5. QED
    BY <1>1, <1>4, <2>1, <2>2, <2>3, <2>4 DEF Keeps, Local, PhaseOK, Gone
<1>5. Relabels(runs[w], runs[w]) /\ runs = [runs EXCEPT ![w] = runs[w]]
  BY <1>1 DEF Relabels, Typed
<1>6. CASE StopBegin(w) \/ StopReturns(w)
  <2>1. /\ SetPhase(w, "running", "draining") \/ SetPhase(w, "draining", "stopped")
        /\ UNCHANGED <<loop, inflight, beat, runs, release>> /\ Statement
    BY <1>6 DEF StopBegin, StopReturns, Statement
  <2>2. release' \in [Workers -> Snapshots] /\ runs' = [runs EXCEPT ![w] = runs[w]]
    BY <1>1, <1>5, <2>1 DEF Typed
  <2>3. QED
    BY <1>1, <1>4, <1>5, <2>1, <2>2
<1>7. CASE ReleaseBegin(w)
  <2>1. /\ SetPhase(w, "draining", "releasing")
        /\ release' = [release EXCEPT ![w] = Snapshot(w)]
        /\ UNCHANGED <<loop, inflight, beat, runs>> /\ Statement
    BY <1>7 DEF ReleaseBegin, Statement
  <2>2. release' \in [Workers -> Snapshots] /\ runs' = [runs EXCEPT ![w] = runs[w]]
    BY <1>1, <1>5, <2>1, SnapshotType DEF Typed
  <2>3. QED
    BY <1>1, <1>4, <1>5, <2>1, <2>2
<1>8. CASE Release(w) \/ ReleaseFails(w)
  <2> DEFINE R2 == CancelRuns(runs[w], release[w].cancels)
  <2>1. Statement /\ ReleaseEnds(w)
    BY <1>3, <1>8 DEF Release, ReleaseFails, Statement
  <2>2. /\ SetPhase(w, "releasing", "stopped") /\ runs' = [runs EXCEPT ![w] = R2]
        /\ release' = [release EXCEPT ![w] = NoSnapshot]
        /\ UNCHANGED <<loop, inflight, beat>>
    BY <2>1 DEF ReleaseEnds, Cancelled, CancelRuns
  <2>3. R2 \in SUBSET Runs /\ Relabels(runs[w], R2)
    BY <1>1, CancelledOnly
  <2> HIDE DEF R2
  <2>4. release' \in [Workers -> Snapshots]
    BY <1>1, <1>3, <2>2 DEF Typed
  <2>5. QED
    BY <1>4, <2>1, <2>2, <2>3, <2>4
<1>9. CASE CancelRunContext(w)
  <2> DEFINE R2 == CancelAll(runs[w])
  <2>1. /\ SetPhase(w, "stopped", "cancelled") /\ runs' = [runs EXCEPT ![w] = R2]
        /\ UNCHANGED <<loop, inflight, beat, release>> /\ Statement
    BY <1>9 DEF CancelRunContext, CancelAll, Statement
  <2>2. R2 \in SUBSET Runs /\ Relabels(runs[w], R2)
    BY <1>1, CancelledOnly
  <2> HIDE DEF R2
  <2>3. release' \in [Workers -> Snapshots]
    BY <1>1, <2>1 DEF Typed
  <2>4. QED
    BY <1>4, <2>1, <2>2, <2>3
<1>10. CASE Exit(w) \/ Crash(w)
  <2>1. PICK how \in {"exited", "dead"} : Ends(w, how)
    BY <1>10 DEF Exit, Crash
  <2>2. Stopped \in Loops /\ Absent \in Entries
    BY DEF Stopped, Loops, LoopAt, Absent, Entries
  <2>3. Typed' /\ Elsewhere(w) /\ Statement
    BY <1>1, <1>3, <2>1, <2>2 DEF Typed, Ends, Elsewhere, Statement, Phases
  <2>4. /\ loop'[w] = Stopped /\ runs'[w] = {} /\ beat'[w] = NoSnapshot
        /\ inflight'[w] = [j \in Jobs |-> Absent]
    BY <1>1, <2>1 DEF Typed, Ends
  <2>5. Shape(Stopped, {}, [j \in Jobs |-> Absent], rows', w)
    BY Nothing DEF Stopped
  <2>6. Stopped.pc # "handback"
    BY DEF Stopped, LoopAt
  <2>7. QED
    BY <2>3, <2>4, <2>5, <2>6 DEF Keeps, Local, PhaseOK
<1>11. QED
  BY <1>6, <1>7, <1>8, <1>9, <1>10 DEF Drain

\* Maintenance and the clock touch the table only.
LEMMA TableMoves ==
  ASSUME Inv, NEW w \in Workers,
         Maintain(w) \/ (\E j \in Jobs : Environment(j)) \/ UNCHANGED vars
  PROVE  Statement /\ Keeps(w)
<1>1. Statement /\ UNCHANGED <<phase, loop, inflight, runs, beat, release>>
  BY DEF Maintain, Environment, vars, Statement, table
<1>2. Shape(loop[w], runs[w], inflight[w], rows', w)
  BY <1>1, ShapeLater
<1>3. QED
  BY <1>1, <1>2 DEF Keeps, Inv, Typed, Local, PhaseOK, Gone, Elsewhere

\* Who leaves first makes sure that others stay.
LEMMA EnoughKept ==
  ASSUME Inv, [Next]_vars
  PROVE  Enough'
<1> DEFINE Others(w) == {v \in Workers \ {w} : phase[v] = "running"}
<1>1. phase \in [Workers -> Phases]
  BY DEF Inv, Typed
<1>2. CASE phase' = phase
  BY <1>2 DEF Inv, Enough, Running
<1>3. ASSUME NEW w \in Workers, NEW q, q # "running", phase' = [phase EXCEPT ![w] = q]
      PROVE  Running' = Others(w)
  BY <1>1, <1>3 DEF Running
<1>4. ASSUME NEW w \in Workers, NEW q, q # "running", phase' = [phase EXCEPT ![w] = q],
             phase[w] # "running"
      PROVE  Enough'
  <2>1. Running' = Running
    BY <1>1, <1>3, <1>4 DEF Running
  <2>2. QED
    BY <1>4, <2>1 DEF Inv, Enough
<1>5. ASSUME NEW w \in Workers, NEW q, q # "running", phase' = [phase EXCEPT ![w] = q],
             Spare(w)
      PROVE  Enough'
  BY <1>3, <1>5 DEF Spare, Enough
<1>6. ASSUME NEW w \in Workers, ClaimLoop(w) \/ Goroutine(w) \/ HeartbeatLoop(w) \/ Maintain(w)
      PROVE  phase' = phase
  BY <1>6 DEF ClaimLoop, ClaimBegin, ClaimNothing, Send, SendCancelled, HandBack,
     LoopEnds, ClaimCommit, ClaimLost, TrackNext, Goroutine, Start, Finish, Untrack,
     HeartbeatLoop, BeatBegin, Beat, BeatFails, Maintain
<1>7. ASSUME NEW w \in Workers, Drain(w)
      PROVE  Enough'
  <2>1. CASE StopBegin(w)
    BY <1>5, <2>1 DEF StopBegin, SetPhase
  <2>2. CASE StopReturns(w) \/ ReleaseBegin(w) \/ Release(w) \/ ReleaseFails(w)
             \/ CancelRunContext(w) \/ Exit(w)
    <3>1. \E q \in {"stopped", "releasing", "cancelled", "exited"} :
            phase' = [phase EXCEPT ![w] = q] /\ phase[w] # "running"
      BY <2>2 DEF StopReturns, ReleaseBegin, Release, ReleaseFails, ReleaseEnds,
         CancelRunContext, Exit, Ends, SetPhase
    <3>2. QED
      BY <1>4, <3>1
  <2>3. QED
    BY <1>7, <2>1, <2>2 DEF Drain
<1>8. ASSUME NEW w \in Workers, Crash(w)
      PROVE  Enough'
  BY <1>5, <1>8 DEF Crash, Ends
<1>9. ASSUME NEW j \in Jobs, Environment(j)
      PROVE  phase' = phase
  BY <1>9 DEF Environment
<1>10. QED
  BY <1>2, <1>6, <1>7, <1>8, <1>9 DEF Next, vars

\* It holds before anything is claimed.
LEMMA InitInv == Init => Inv
<1> SUFFICES ASSUME Init PROVE Inv
  OBVIOUS
<1>1. NoRow \in Row /\ NoRow.state # "running"
  BY DEF NoRow, Row, States
<1>2. TableOK
  BY <1>1 DEF Init, InitTable, TableOK, RowOK
<1>3. Idle \in Loops /\ Absent \in Entries /\ NoSnapshot \in Snapshots
  BY DEF Idle, LoopAt, Loops, Absent, Entries, NoSnapshot, Snapshots
<1>4. Typed
  BY <1>3 DEF Init, Typed, Phases
<1>5. Idle.pc # "handback"
  BY DEF Idle, LoopAt
<1>6. ASSUME NEW w \in Workers PROVE Local(w)
  <2>1. /\ loop[w] = Idle /\ runs[w] = {} /\ inflight[w] = [j \in Jobs |-> Absent]
        /\ phase[w] = "running"
    BY DEF Init
  <2>2. Shape(Idle, {}, [j \in Jobs |-> Absent], rows, w)
    BY Nothing DEF Idle
  <2>3. QED
    BY <1>5, <2>1, <2>2 DEF Local, PhaseOK, Gone
<1>7. Enough
  BY DEF Init, Enough
<1>8. QED
  BY <1>2, <1>4, <1>6, <1>7 DEF Inv

\* Every step keeps it.
LEMMA StepInv ==
  ASSUME Inv, [Next]_vars
  PROVE  Inv'
<1>1. PICK u \in Workers : TRUE
  OBVIOUS
<1>2. PICK w \in Workers : Statement /\ Keeps(w)
  BY <1>1, ClaimLoopKeeps, GoroutineKeeps, HeartbeatKeeps, DrainKeeps, TableMoves DEF Next
<1>3. TableOK'
  BY <1>2, StatementKeeps DEF Inv
<1>4. ASSUME NEW v \in Workers PROVE Local(v)'
  <2>1. CASE v = w
    BY <1>2, <2>1 DEF Keeps
  <2>2. CASE v # w
    <3>1. Shape(loop[v], runs[v], inflight[v], rows', v)
      BY <1>2, ShapeLater
    <3>2. /\ phase'[v] = phase[v] /\ loop'[v] = loop[v] /\ inflight'[v] = inflight[v]
          /\ runs'[v] = runs[v] /\ beat'[v] = beat[v]
      BY <1>2, <2>2 DEF Keeps, Elsewhere
    <3>3. PhaseOK(v)
      BY DEF Inv, Local
    <3>4. QED
      BY <3>1, <3>2, <3>3 DEF Local, PhaseOK, Gone
  <2>3. QED
    BY <2>1, <2>2
<1>5. QED
  BY <1>2, <1>3, <1>4, EnoughKept DEF Inv, Keeps

\* So it holds in every state.
LEMMA Invariance == Spec => []Inv
<1>1. Inv /\ [Next]_vars => Inv'
  BY StepInv
<1>2. QED
  BY <1>1, InitInv, PTL DEF Spec

(***************************************************************************)
(* No immortal lease: whatever the heartbeat of a pool renews is the job   *)
(* in the claim loop's hand or has a run that has not ended, whatever the  *)
(* order in which the loop, the goroutines and the drain touch the map.    *)
(***************************************************************************)
THEOREM EntriesOwned == Spec => []EntryHasOwner
<1>1. Inv => EntryHasOwner
  BY DEF Inv, Local, Shape, EntriesOK, EntryHasOwner
<1>2. QED
  BY <1>1, Invariance, PTL

-----------------------------------------------------------------------------
(* The pools implement Queue.                                              *)

\* Queue's statements are the pool's.
LEMMA SameRows ==
  /\ \A r : /\ Q!Claimable(r) = Claimable(r) /\ Q!Schedulable(r) = Schedulable(r)
            /\ Q!Reapable(r) = Reapable(r) /\ Q!Purgeable(r) = Purgeable(r)
            /\ Q!SucceedRow(r) = SucceedRow(r) /\ Q!SnoozeRow(r) = SnoozeRow(r)
            /\ Q!RetryRow(r) = RetryRow(r) /\ Q!ReleaseRow(r) = ReleaseRow(r)
            /\ Q!HeartbeatRow(r) = HeartbeatRow(r) /\ Q!InsertRow(r) = InsertRow(r)
            /\ Q!ScheduleRow(r) = ScheduleRow(r) /\ Q!PurgeRow(r) = PurgeRow(r)
  /\ \A r, w : Q!LockedBy(r, w) = LockedBy(r, w) /\ Q!ClaimRow(r, w) = ClaimRow(r, w)
  /\ \A r, e : Q!ClaimGuard(r, e) = ClaimGuard(r, e)
  /\ \A r, s : Q!TerminalRow(r, s) = TerminalRow(r, s)
  /\ \A j, w : Q!AttemptLimit(j, w) = AttemptLimit(j, w)
  /\ \A r, j, w : Q!ReapRow(r, j, w) = ReapRow(r, j, w)
  BY DEF Q!Claimable, Claimable, Q!Schedulable, Schedulable, Q!Reapable, Reapable,
     Q!Purgeable, Purgeable, Q!Terminal, Terminal, Q!Unlocked, Unlocked,
     Q!SucceedRow, SucceedRow, Q!SnoozeRow, SnoozeRow, Q!RetryRow, RetryRow,
     Q!ReleaseRow, ReleaseRow, Q!HeartbeatRow, HeartbeatRow, Q!InsertRow, InsertRow,
     Q!ScheduleRow, ScheduleRow, Q!PurgeRow, PurgeRow, Q!LockedBy, LockedBy,
     Q!ClaimRow, ClaimRow, Q!ClaimGuard, ClaimGuard, Q!TerminalRow, TerminalRow,
     Q!AttemptLimit, AttemptLimit, Q!ReapRow, ReapRow

\* Queue's cardinality is the one used here.
LEMMA SameCardinality == \A S : Q!Cardinality(S) = Cardinality(S)
  BY DEF Q!Cardinality, Cardinality

\* The pool's statements are Queue's.
LEMMA SameStatements ==
  /\ \A w, S : /\ TakeRows(w, S) => Q!TakeRows(w, S)
               /\ RenewRows(w, S) => Q!RenewRows(w, S)
               /\ ReleaseRows(w, S) => Q!ReleaseRows(w, S)
  /\ ScheduleRows => Q!ScheduleRows
  /\ \A w : ReapRows(w) => Q!ReapRows(w)
  /\ PurgeRows => Q!PurgeRows
  /\ \A j : /\ Insert(j) => Q!Insert(j)
            /\ RowAges(j) => Q!RowAges(j)
            /\ RowComesDue(j) => Q!RowComesDue(j)
            /\ RowLapses(j) => Q!RowLapses(j)
  /\ \A e : /\ WriteSucceed(e) => Q!WriteSucceed(e)
            /\ WriteSnooze(e) => Q!WriteSnooze(e)
            /\ WriteCancel(e) => Q!WriteCancel(e)
            /\ WriteDiscard(e) => Q!WriteDiscard(e)
            /\ WriteRetry(e) => Q!WriteRetry(e)
<1>1. ASSUME NEW w, NEW S PROVE TakeRows(w, S) => Q!TakeRows(w, S)
  BY SameRows, SameCardinality DEF TakeRows, Q!TakeRows
<1>2. ASSUME NEW w, NEW S PROVE RenewRows(w, S) => Q!RenewRows(w, S)
  BY SameRows DEF RenewRows, Q!RenewRows
<1>3. ASSUME NEW w, NEW S PROVE ReleaseRows(w, S) => Q!ReleaseRows(w, S)
  BY SameRows DEF ReleaseRows, Q!ReleaseRows
<1>4. ScheduleRows => Q!ScheduleRows
  BY SameRows DEF ScheduleRows, Q!ScheduleRows
<1>5. ASSUME NEW w PROVE ReapRows(w) => Q!ReapRows(w)
  BY SameRows DEF ReapRows, Q!ReapRows
<1>6. PurgeRows => Q!PurgeRows
  BY SameRows DEF PurgeRows, Q!PurgeRows
<1>7. ASSUME NEW j
      PROVE  /\ Insert(j) => Q!Insert(j)
             /\ RowAges(j) => Q!RowAges(j)
             /\ RowComesDue(j) => Q!RowComesDue(j)
             /\ RowLapses(j) => Q!RowLapses(j)
  BY SameRows DEF Insert, Q!Insert, Live, Q!Live, Waiting, Q!Waiting, RowAges, Q!RowAges,
     RowComesDue, Q!RowComesDue, RowLapses, Q!RowLapses
<1>8. ASSUME NEW e, NEW n PROVE Record(e, n) => Q!Record(e, n)
  BY SameRows DEF Record, Q!Record
<1>9. ASSUME NEW e
      PROVE  /\ WriteSucceed(e) => Q!WriteSucceed(e)
             /\ WriteSnooze(e) => Q!WriteSnooze(e)
             /\ WriteCancel(e) => Q!WriteCancel(e)
             /\ WriteDiscard(e) => Q!WriteDiscard(e)
             /\ WriteRetry(e) => Q!WriteRetry(e)
  BY <1>8, SameRows DEF WriteSucceed, Q!WriteSucceed, WriteSnooze, Q!WriteSnooze,
     WriteCancel, Q!WriteCancel, WriteDiscard, Q!WriteDiscard, WriteRetry, Q!WriteRetry
<1>10. QED
  BY <1>1, <1>2, <1>3, <1>4, <1>5, <1>6, <1>7, <1>9

\* A claim is held by the batch, the hand or a run that has not written.
LEMMA HeldMember ==
  ASSUME NEW l, NEW R, NEW e
  PROVE  e \in HeldOf(l, R) <=> \/ e \in l.batch \/ e \in l.hand
                                \/ \E r \in R : r.pc # "written" /\ r.claim = e
  BY DEF HeldOf

\* What a process holds, before a step and after it.
LEMMA HeldIs ==
  /\ \A w \in Workers : Held(w) = HeldOf(loop[w], runs[w])
  /\ \A w \in Workers : Held(w)' = HeldOf(loop'[w], runs'[w])
  BY DEF Held, HeldOf

\* A process holds only claims of its own.
LEMMA HeldOwn ==
  ASSUME Inv, NEW w \in Workers, NEW e \in Held(w)
  PROVE  e.worker = w /\ e \in Claims
<1>1. e \in loop[w].batch \/ e \in loop[w].hand \/ \E r \in runs[w] : r.claim = e
  BY HeldIs, HeldMember
<1>2. /\ loop[w].batch \subseteq Claims /\ loop[w].hand \subseteq Claims
      /\ \A r \in runs[w] : r.claim \in Claims
  BY DEF Inv, Typed, Loops, Runs
<1>3. QED
  BY <1>1, <1>2 DEF Inv, Local, Shape, LoopOK

\* What a step of one process does to the claims of all.
LEMMA AllHeldStep ==
  ASSUME Inv, NEW w \in Workers, Elsewhere(w)
  PROVE  /\ Held(w)' = Held(w) => AllHeld' = AllHeld
         /\ \A B : Held(w)' = Held(w) \cup B => AllHeld' = AllHeld \cup B
         /\ \A C : Held(w)' = Held(w) \ C /\ (\A e \in C : e.worker = w)
              => AllHeld' = AllHeld \ C
<1>1. \A v \in Workers \ {w} : Held(v)' = Held(v)
  BY HeldIs DEF Elsewhere
<1>2. \A e : e \in AllHeld <=> \E v \in Workers : e \in Held(v)
  BY DEF AllHeld
<1>3. \A e : e \in AllHeld' <=> \E v \in Workers : e \in Held(v)'
  BY DEF AllHeld
<1>4. \A v \in Workers : \A e \in Held(v) : e.worker = v
  BY HeldOwn
<1>5. ASSUME Held(w)' = Held(w)
      PROVE  AllHeld' = AllHeld
  <2>1. \A v \in Workers : Held(v)' = Held(v)
    BY <1>1, <1>5
  <2>2. \A e : e \in AllHeld' <=> e \in AllHeld
    BY <1>2, <1>3, <2>1
  <2>3. QED
    BY <2>2
<1>6. ASSUME NEW B, Held(w)' = Held(w) \cup B
      PROVE  AllHeld' = AllHeld \cup B
  BY <1>1, <1>2, <1>3, <1>6
<1>7. ASSUME NEW C, Held(w)' = Held(w) \ C, \A e \in C : e.worker = w
      PROVE  AllHeld' = AllHeld \ C
  BY <1>1, <1>2, <1>3, <1>4, <1>7
<1>8. QED
  BY <1>5, <1>6, <1>7

\* A process that goes from phase to phase, short of its end, stays up.
LEMMA UpStays ==
  ASSUME Typed, NEW w \in Workers, NEW q, q \notin {"exited", "dead"}, ~Gone(w),
         phase' = phase \/ phase' = [phase EXCEPT ![w] = q]
  PROVE  Up' = Up
  BY DEF Up, Gone, Typed

\* A step that the table and Queue's claims do not notice.
LEMMA Unnoticed ==
  ASSUME Inv, NEW w \in Workers, Keeps(w), UNCHANGED table, Up' = Up,
         Held(w)' = Held(w)
  PROVE  UNCHANGED Q!vars
  BY AllHeldStep DEF Keeps, Q!vars, table

\* After the hand-off the batch is what it was, and the hand empty.
LEMMA OnwardKeeps ==
  ASSUME NEW l
  PROVE  Onward(l).batch = l.batch /\ Onward(l).hand = {}
  BY DEF Onward, LoopAt, Idle

\* Every step of the claim loop is a claim, a release, a loss or nothing to
\* Queue.
LEMMA ClaimLoopImplements ==
  ASSUME Inv, NEW w \in Workers, ClaimLoop(w)
  PROVE  [Q!Next]_(Q!vars)
<1>1. Keeps(w) /\ Elsewhere(w)
  BY ClaimLoopKeeps DEF Keeps
<1>2. /\ Typed /\ Shape(loop[w], runs[w], inflight[w], rows, w) /\ PhaseOK(w)
      /\ loop[w] \in Loops /\ runs[w] \in SUBSET Runs
  BY DEF Inv, Local, Typed
<1>3. phase' = phase /\ Up' = Up
  BY DEF ClaimLoop, ClaimBegin, ClaimNothing, Send, SendCancelled, HandBack,
     LoopEnds, ClaimCommit, ClaimLost, TrackNext, Up, Gone
<1>4. loop[w].pc # "done" => w \in Up
  BY <1>2 DEF PhaseOK, Stopped, LoopAt, Up
<1>5. /\ Held(w) = HeldOf(loop[w], runs[w]) /\ Held(w)' = HeldOf(loop'[w], runs'[w])
      /\ Held(w) \subseteq AllHeld
  BY HeldIs DEF AllHeld
<1>6. ASSUME NEW pc \in {"idle", "claiming", "done"}
      PROVE  /\ LoopAt(pc, {}, {}).batch = {} /\ LoopAt(pc, {}, {}).hand = {}
             /\ LoopAt(pc, {}, {}).pc = pc
  BY DEF LoopAt
\* A loop without claims moves on.
<1>7. ASSUME NEW pc \in {"idle", "claiming", "done"}, loop[w].pc \in {"idle", "claiming"},
             loop' = [loop EXCEPT ![w] = LoopAt(pc, {}, {})], runs' = runs
      PROVE  Held(w)' = Held(w)
  <2>1. loop[w].batch = {} /\ loop[w].hand = {} /\ loop'[w] = LoopAt(pc, {}, {})
    BY <1>2, <1>7 DEF Shape, LoopOK, Typed
  <2>2. QED
    BY <1>5, <1>6, <1>7, <2>1 DEF HeldOf
<1>8. CASE ClaimBegin(w) \/ ClaimNothing(w) \/ LoopEnds(w)
  <2>1. Held(w)' = Held(w)
    BY <1>6, <1>7, <1>8 DEF ClaimBegin, ClaimNothing, LoopEnds, Idle, Stopped
  <2>2. UNCHANGED table
    BY <1>8 DEF ClaimBegin, ClaimNothing, LoopEnds
  <2>3. QED
    BY <1>1, <1>3, <2>1, <2>2, Unnoticed
<1>9. ASSUME NEW S \in SUBSET Jobs, ClaimLost(w, S)
      PROVE  [Q!Next]_(Q!vars)
  <2>1. Held(w)' = Held(w)
    BY <1>7, <1>9 DEF ClaimLost, Idle
  <2>2. AllHeld' = AllHeld
    BY <1>1, <2>1, AllHeldStep
  <2>3. Q!TakeRows(w, S) /\ w \in Up
    BY <1>4, <1>9, SameStatements DEF ClaimLost
  <2>4. Q!ClaimLost(w, S)
    BY <1>3, <2>2, <2>3 DEF Q!ClaimLost
  <2>5. QED
    BY <2>4 DEF Q!Next
<1>10. ASSUME NEW S \in SUBSET Jobs, ClaimCommit(w, S)
       PROVE  [Q!Next]_(Q!vars)
  <2>1. /\ loop'[w] = LoopAt("track", NewBatch(w, S), {}) /\ runs'[w] = runs[w]
        /\ loop[w].pc = "claiming"
    BY <1>2, <1>10 DEF ClaimCommit, NewBatch, Typed
  <2>2. loop[w].batch = {} /\ loop[w].hand = {}
    BY <1>2, <2>1 DEF Shape, LoopOK
  <2>3. loop'[w].batch = NewBatch(w, S) /\ loop'[w].hand = {}
    BY <2>1 DEF LoopAt
  <2>4. Held(w)' = Held(w) \cup NewBatch(w, S)
    BY <1>5, <2>1, <2>2, <2>3 DEF HeldOf
  <2>5. AllHeld' = AllHeld \cup NewBatch(w, S)
    BY <1>1, <2>4, AllHeldStep
  <2>6. NewBatch(w, S) = {Q!NewClaim(w, j) : j \in S}
    BY DEF NewBatch, NewClaim, Q!NewClaim
  <2>7. Q!TakeRows(w, S) /\ w \in Up
    BY <1>4, <1>10, <2>1, SameStatements DEF ClaimCommit
  <2>8. Q!Claim(w, S)
    BY <1>3, <2>5, <2>6, <2>7 DEF Q!Claim
  <2>9. QED
    BY <2>8 DEF Q!Next
<1>11. ASSUME NEW e \in loop[w].batch, TrackNext(w, e)
       PROVE  [Q!Next]_(Q!vars)
  <2>1. /\ loop'[w] = LoopAt("send", loop[w].batch \ {e}, {e}) /\ runs'[w] = runs[w]
        /\ loop[w].pc = "track" /\ UNCHANGED table
    BY <1>2, <1>11 DEF TrackNext, Typed
  <2>2. loop'[w].batch = loop[w].batch \ {e} /\ loop'[w].hand = {e}
    BY <2>1 DEF LoopAt
  <2>3. loop[w].hand = {}
    BY <1>2, <2>1 DEF Shape, LoopOK
  <2>4. Held(w)' = Held(w)
    BY <1>5, <2>1, <2>2, <2>3 DEF HeldOf
  <2>5. QED
    BY <1>1, <1>3, <2>1, <2>4, Unnoticed
<1>12. CASE Send(w)
  <2>1. PICK c \in BOOLEAN : c = (phase[w] = "cancelled")
    OBVIOUS
  <2>2. /\ loop'[w] = Onward(loop[w]) /\ runs'[w] = runs[w] \cup Received(loop[w].hand, c)
        /\ loop[w].pc = "send" /\ UNCHANGED table
    BY <1>2, <1>12, <2>1 DEF Send, Received, Onward, Typed
  <2>3. loop'[w].batch = loop[w].batch /\ loop'[w].hand = {}
    BY <2>2, OnwardKeeps
  <2>4. \A x : x \in Received(loop[w].hand, c) <=>
               \E e \in loop[w].hand : x = Run(e, "received", c)
    BY DEF Received
  <2>5. \A e : Run(e, "received", c).claim = e /\ Run(e, "received", c).pc # "written"
    BY DEF Run
  <2>6. \A e : e \in Held(w)' <=> e \in Held(w)
    BY <1>5, <2>2, <2>3, <2>4, <2>5, HeldMember
  <2>7. Held(w)' = Held(w)
    BY <2>6
  <2>8. QED
    BY <1>1, <1>3, <2>2, <2>7, Unnoticed
<1>13. CASE SendCancelled(w)
  <2>1. /\ loop'[w].batch = loop[w].batch /\ loop'[w].hand = loop[w].hand
        /\ runs'[w] = runs[w] /\ UNCHANGED table
    BY <1>2, <1>13 DEF SendCancelled, Typed, Loops
  <2>2. Held(w)' = Held(w)
    BY <1>5, <2>1 DEF HeldOf
  <2>3. QED
    BY <1>1, <1>3, <2>1, <2>2, Unnoticed
<1>14. CASE HandBack(w)
  <2>1. /\ loop[w].pc = "handback" /\ loop'[w] = Stopped /\ runs'[w] = runs[w]
        /\ ReleaseRows(w, {e.job : e \in loop[w].hand}) \/ UNCHANGED table
    BY <1>2, <1>14 DEF HandBack, Typed
  <2>2. PICK e \in loop[w].hand : loop[w].hand = {e}
    BY <1>2, <2>1 DEF Shape, LoopOK
  <2> DEFINE C == loop[w].batch \cup {e}
  <2>3. /\ \A d \in C : d.worker = w
        /\ \A r \in runs[w] : r.claim \notin C
    BY <1>2, <2>2 DEF Shape, LoopOK
  <2>4. C \subseteq Held(w) /\ e \in Held(w) /\ e.worker = w
    BY <1>5, <2>2, <2>3 DEF HeldOf
  <2>5. loop'[w].batch = {} /\ loop'[w].hand = {}
    BY <2>1 DEF Stopped, LoopAt
  <2>6. \A d : d \in Held(w)' <=> d \in Held(w) /\ d \notin C
    BY <1>5, <2>1, <2>2, <2>3, <2>5, HeldMember
  <2>7. C \cup {e} = C
    OBVIOUS
  <2> HIDE DEF C
  <2>8. AllHeld' = AllHeld \ C
    <3>1. Held(w)' = Held(w) \ C
      BY <2>6
    <3>2. QED
      BY <1>1, <2>3, <3>1, AllHeldStep
  <2>9. e \in AllHeld /\ C \subseteq Q!HeldBy(e.worker) /\ C \subseteq AllHeld
    BY <1>5, <2>3, <2>4 DEF Q!HeldBy
  <2>10. CASE ReleaseRows(w, {d.job : d \in loop[w].hand})
    <3>1. {d.job : d \in loop[w].hand} = {e.job}
      BY <2>2
    <3>2. Q!ReleaseRows(e.worker, {e.job}) /\ e.worker \in Up
      BY <1>4, <2>1, <2>4, <2>10, <3>1, SameStatements
    <3>3. Q!HandBack(e, C)
      BY <1>3, <2>7, <2>8, <2>9, <3>2 DEF Q!HandBack
    <3>4. QED
      BY <2>9, <3>3 DEF Q!Next
  <2>11. CASE UNCHANGED table
    <3>1. Q!Abandon(e, C)
      BY <1>3, <2>7, <2>8, <2>9, <2>11 DEF Q!Abandon, table, Q!table
    <3>2. QED
      BY <2>9, <3>1 DEF Q!Next
  <2>12. QED
    BY <2>1, <2>10, <2>11
<1>15. QED
  BY <1>8, <1>9, <1>10, <1>11, <1>12, <1>13, <1>14 DEF ClaimLoop

\* A finished handler writes its outcome for a claim that its process holds.
LEMMA FinishImplements ==
  ASSUME Inv, NEW w \in Workers, NEW r \in runs[w], Finish(w, r)
  PROVE  [Q!Next]_(Q!vars)
<1> DEFINE e == r.claim
           x == [r EXCEPT !.pc = "written"]
<1>1. Elsewhere(w)
  BY GoroutineKeeps DEF Keeps, Goroutine
<1>2. r \in Runs /\ e \in Claims /\ e.worker = w
  BY DEF Inv, Typed, Runs, Local, Shape, LoopOK
<1>3. /\ loop'[w] = loop[w] /\ runs'[w] = (runs[w] \ {r}) \cup {x}
      /\ r.pc # "written" /\ Up' = Up /\ Write(e)
  BY DEF Finish, SetRun, Inv, Typed, Up, Gone
<1>4. x.pc = "written" /\ x.claim = e
  BY <1>2 DEF Runs
<1>5. /\ \A q \in runs[w] : q.claim = e => q = r
      /\ e \notin loop[w].batch /\ e \notin loop[w].hand
  BY DEF Inv, Local, Shape, LoopOK
<1> HIDE DEF x, e
<1>6. /\ Held(w) = HeldOf(loop[w], runs[w]) /\ Held(w)' = HeldOf(loop'[w], runs'[w])
      /\ Held(w) \subseteq AllHeld
  BY HeldIs DEF AllHeld
<1>7. e \in Held(w)
  BY <1>3, <1>6, HeldMember DEF e
<1>8. \A d : d \in Held(w)' <=> d \in Held(w) /\ d # e
  <2>1. \A d : d \in Held(w)' <=> \/ d \in loop[w].batch \/ d \in loop[w].hand
                                  \/ \E q \in runs'[w] : q.pc # "written" /\ q.claim = d
    BY <1>3, <1>6, HeldMember
  <2>2. \A d : d \in Held(w) <=> \/ d \in loop[w].batch \/ d \in loop[w].hand
                                 \/ \E q \in runs[w] : q.pc # "written" /\ q.claim = d
    BY <1>6, HeldMember
  <2>3. \A q : q \in runs'[w] /\ q.pc # "written"
               <=> q \in runs[w] /\ q.pc # "written" /\ q.claim # e
    BY <1>3, <1>4, <1>5 DEF e
  <2>4. QED
    BY <1>5, <2>1, <2>2, <2>3
<1>9. AllHeld' = AllHeld \ {e}
  <2>1. Held(w)' = Held(w) \ {e}
    BY <1>8
  <2>2. QED
    BY <1>1, <1>2, <2>1, AllHeldStep
<1>10. Q!Done(e)
  BY <1>3, <1>6, <1>7, <1>9 DEF Q!Done
<1>11. Q!Finish(e)
  BY <1>3, <1>10, SameStatements DEF Write, Q!Finish, Q!Succeed, Q!Snooze, Q!Cancel,
     Q!Discard, Q!Retry, Q!WriteFails, Q!table, table
<1>12. QED
  BY <1>6, <1>7, <1>11 DEF Q!Next

\* So do the goroutines; their other steps are nothing to Queue.
LEMMA GoroutineImplements ==
  ASSUME Inv, NEW w \in Workers, Goroutine(w)
  PROVE  [Q!Next]_(Q!vars)
<1>1. Keeps(w)
  BY GoroutineKeeps
<1>2. PICK r \in runs[w] : Start(w, r) \/ Finish(w, r) \/ Untrack(w, r)
  BY DEF Goroutine
<1>3. r \in Runs
  BY <1>2 DEF Inv, Typed
<1>4. CASE Start(w, r)
  <2> DEFINE x == [r EXCEPT !.pc = "handling"]
  <2>1. /\ loop'[w] = loop[w] /\ runs'[w] = (runs[w] \ {r}) \cup {x}
        /\ r.pc # "written" /\ Up' = Up /\ UNCHANGED table
    BY <1>4 DEF Start, SetRun, Inv, Typed, Up, Gone
  <2>2. x.pc # "written" /\ x.claim = r.claim
    BY <1>3 DEF Runs
  <2> HIDE DEF x
  <2>3. \A d : d \in Held(w)' <=> d \in Held(w)
    BY <1>2, <2>1, <2>2, HeldIs, HeldMember
  <2>4. Held(w)' = Held(w)
    BY <2>3
  <2>5. QED
    BY <1>1, <2>1, <2>4, Unnoticed
<1>5. CASE Untrack(w, r)
  <2>1. /\ loop'[w] = loop[w] /\ runs'[w] = runs[w] \ {r}
        /\ r.pc = "written" /\ Up' = Up /\ UNCHANGED table
    BY <1>5 DEF Untrack, Inv, Typed, Up, Gone
  <2>2. \A d : d \in Held(w)' <=> d \in Held(w)
    BY <1>2, <2>1, HeldIs, HeldMember
  <2>3. Held(w)' = Held(w)
    BY <2>2
  <2>4. QED
    BY <1>1, <2>1, <2>3, Unnoticed
<1>6. QED
  BY <1>2, <1>4, <1>5, FinishImplements

\* Cancelling a run does not end it.
LEMMA CancelHolds ==
  ASSUME NEW l, NEW R \in SUBSET Runs, NEW C,
         NEW R2, R2 = CancelRuns(R, C) \/ R2 = CancelAll(R)
  PROVE  HeldOf(l, R2) = HeldOf(l, R)
<1> DEFINE f(r) == [r EXCEPT !.cancelled = TRUE]
<1>1. \A r \in R : f(r).pc = r.pc /\ f(r).claim = r.claim
  BY DEF Runs
<1> HIDE DEF f
<1>2. /\ \A x \in R2 : \E r \in R : x.pc = r.pc /\ x.claim = r.claim
      /\ \A r \in R : \E x \in R2 : x.pc = r.pc /\ x.claim = r.claim
  <2>1. CASE R2 = CancelRuns(R, C)
    <3>1. R2 = {IF r.claim \in C THEN f(r) ELSE r : r \in R}
      BY <2>1 DEF CancelRuns, f
    <3>2. QED
      BY <1>1, <3>1
  <2>2. CASE R2 = CancelAll(R)
    <3>1. R2 = {f(r) : r \in R}
      BY <2>2 DEF CancelAll, f
    <3>2. QED
      BY <1>1, <3>1
  <2>3. QED
    BY <2>1, <2>2
<1>3. \A d : d \in HeldOf(l, R2) <=> d \in HeldOf(l, R)
  BY <1>2, HeldMember
<1>4. QED
  BY <1>3

\* A heartbeat renews rows that its process has claimed.
LEMMA HeartbeatImplements ==
  ASSUME Inv, NEW w \in Workers, HeartbeatLoop(w)
  PROVE  [Q!Next]_(Q!vars)
<1>1. Keeps(w) /\ Elsewhere(w)
  BY HeartbeatKeeps DEF Keeps
<1>2. /\ Typed /\ runs[w] \in SUBSET Runs /\ beat[w].ids \in SUBSET Jobs
      /\ beat[w] # NoSnapshot => w \in Up
  BY DEF Inv, Typed, Snapshots, Local, PhaseOK, Up
<1>3. Up' = Up /\ loop' = loop
  BY DEF HeartbeatLoop, BeatBegin, Beat, BeatFails, Up, Gone
<1>4. Held(w)' = Held(w)
  <2>1. CASE runs' = runs
    BY <1>3, <2>1, HeldIs
  <2>2. CASE Beat(w)
    <3>1. Cancelled(w, beat[w].cancels) = CancelRuns(runs[w], beat[w].cancels)
      BY DEF Cancelled, CancelRuns
    <3>2. runs'[w] = runs[w] \/ runs'[w] = CancelRuns(runs[w], beat[w].cancels)
      <4>1. CASE Shortfall(w)
        BY <1>2, <2>2, <3>1, <4>1 DEF Beat, Typed
      <4>2. CASE ~Shortfall(w)
        BY <1>2, <2>2, <4>2 DEF Beat, Typed
      <4>3. QED
        BY <4>1, <4>2
    <3>3. \A l, C : HeldOf(l, CancelRuns(runs[w], C)) = HeldOf(l, runs[w])
      BY <1>2, CancelHolds
    <3>4. QED
      BY <1>3, <3>2, <3>3, HeldIs
  <2>3. QED
    BY <2>1, <2>2 DEF HeartbeatLoop, BeatBegin, BeatFails
<1>5. AllHeld' = AllHeld
  BY <1>1, <1>4, AllHeldStep
<1>6. CASE UNCHANGED table
  BY <1>1, <1>3, <1>4, <1>6, Unnoticed
<1>7. CASE RenewRows(w, beat[w].ids) /\ w \in Up
  <2>1. PICK S \in SUBSET Jobs : S = beat[w].ids
    BY <1>2
  <2>2. Q!RenewRows(w, S)
    BY <1>7, <2>1, SameStatements
  <2>3. Q!Heartbeat(w, S)
    BY <1>3, <1>5, <1>7, <2>2 DEF Q!Heartbeat
  <2>4. QED
    BY <2>3 DEF Q!Next
<1>8. QED
  BY <1>2, <1>6, <1>7 DEF HeartbeatLoop, BeatBegin, Beat, BeatFails

\* Who ends leaves MinUp processes behind.
LEMMA EndImplements ==
  ASSUME Inv, NEW w \in Workers, Exit(w) \/ Crash(w)
  PROVE  Q!Crash(w)
<1>1. Elsewhere(w)
  BY DrainKeeps DEF Keeps, Drain
<1>2. Typed /\ Enough
  BY DEF Inv
<1>3. PICK how \in {"exited", "dead"} : Ends(w, how)
  BY DEF Exit, Crash
<1>4. w \in Up /\ Up' = Up \ {w}
  BY <1>2, <1>3 DEF Up, Gone, Exit, Crash, Ends, Typed
<1>5. UNCHANGED table /\ loop'[w] = Stopped /\ runs'[w] = {}
  BY <1>2, <1>3 DEF Ends, Typed
<1>6. Held(w)' = {}
  <2>1. loop'[w].batch = {} /\ loop'[w].hand = {}
    BY <1>5 DEF Stopped, LoopAt
  <2>2. QED
    BY <1>5, <2>1, HeldIs DEF HeldOf
<1>7. AllHeld' = AllHeld \ Q!HeldBy(w)
  <2> DEFINE C == Q!HeldBy(w)
  <2>1. \A e : e \in C <=> e \in AllHeld /\ e.worker = w
    BY DEF Q!HeldBy
  <2> HIDE DEF C
  <2>2. Held(w) \subseteq C
    BY <2>1, HeldOwn DEF AllHeld
  <2>3. Held(w)' = Held(w) \ C
    BY <1>6, <2>2
  <2>4. AllHeld' = AllHeld \ C
    BY <1>1, <2>1, <2>3, AllHeldStep
  <2>5. QED
    BY <2>4 DEF C
<1>8. Cardinality(Up) > MinUp
  <2> DEFINE O == {v \in Workers \ {w} : phase[v] = "running"}
  <2>1. Cardinality(O) >= MinUp
    <3>1. CASE Crash(w)
      BY <3>1 DEF Crash, Spare
    <3>2. CASE Exit(w)
      <4>1. phase[w] # "running" /\ O = Running
        BY <3>2 DEF Exit, Running
      <4>2. QED
        BY <1>2, <4>1 DEF Enough
    <3>3. QED
      BY <3>1, <3>2
  <2>2. O \in SUBSET (Up \ {w}) /\ Up \in SUBSET Workers
    BY DEF Up, Gone
  <2>3. IsFiniteSet(Up)
    BY <2>2, FS_Subset
  <2>4. IsFiniteSet(Up \ {w}) /\ Cardinality(Up \ {w}) = Cardinality(Up) - 1
    BY <1>4, <2>3, FS_RemoveElement
  <2>5. IsFiniteSet(O) /\ Cardinality(O) <= Cardinality(Up \ {w})
    BY <2>2, <2>4, FS_Subset
  <2>6. Cardinality(O) \in Nat /\ Cardinality(Up) \in Nat
    BY <2>3, <2>5, FS_CardinalityType
  <2>7. QED
    BY <2>1, <2>4, <2>5, <2>6
<1>9. QED
  BY <1>4, <1>5, <1>7, <1>8, SameCardinality DEF Q!Crash, Q!table, table

\* A drain hands back, ends or is cut short as Queue's processes may.
LEMMA DrainImplements ==
  ASSUME Inv, NEW w \in Workers, Drain(w) \/ Crash(w)
  PROVE  [Q!Next]_(Q!vars)
<1>1. Keeps(w) /\ Elsewhere(w)
  BY DrainKeeps DEF Keeps
<1>2. Typed /\ runs[w] \in SUBSET Runs /\ release[w].ids \in SUBSET Jobs
  BY DEF Inv, Typed, Snapshots
<1>3. CASE Exit(w) \/ Crash(w)
  BY <1>3, EndImplements DEF Q!Next
<1>4. ASSUME NEW p \in {"running", "draining", "releasing", "stopped"},
             NEW q \in {"draining", "releasing", "stopped", "cancelled"},
             SetPhase(w, p, q)
      PROVE  Up' = Up /\ w \in Up
  BY <1>2, <1>4 DEF SetPhase, Up, Gone, Typed
<1>5. ASSUME loop' = loop, NEW C,
             \/ runs'[w] = runs[w] \/ runs'[w] = CancelRuns(runs[w], C)
             \/ runs'[w] = CancelAll(runs[w])
      PROVE  Held(w)' = Held(w)
  <2>1. \A l : /\ HeldOf(l, CancelRuns(runs[w], C)) = HeldOf(l, runs[w])
               /\ HeldOf(l, CancelAll(runs[w])) = HeldOf(l, runs[w])
    BY <1>2, CancelHolds
  <2>2. QED
    BY <1>5, <2>1, HeldIs
<1>6. CASE StopBegin(w) \/ StopReturns(w) \/ ReleaseBegin(w)
  <2>1. UNCHANGED table /\ loop' = loop /\ runs' = runs
    BY <1>6 DEF StopBegin, StopReturns, ReleaseBegin
  <2>2. Up' = Up
    BY <1>4, <1>6 DEF StopBegin, StopReturns, ReleaseBegin
  <2>3. QED
    BY <1>1, <1>5, <2>1, <2>2, Unnoticed
<1>7. CASE CancelRunContext(w)
  <2>1. UNCHANGED table /\ loop' = loop /\ runs'[w] = CancelAll(runs[w])
    BY <1>2, <1>7 DEF CancelRunContext, CancelAll, Typed
  <2>2. Up' = Up
    BY <1>4, <1>7 DEF CancelRunContext
  <2>3. QED
    BY <1>1, <1>5, <2>1, <2>2, Unnoticed
<1>8. CASE Release(w) \/ ReleaseFails(w)
  <2>1. ReleaseEnds(w)
    BY <1>8 DEF Release, ReleaseFails
  <2>2. loop' = loop /\ runs'[w] = CancelRuns(runs[w], release[w].cancels)
    BY <1>2, <2>1 DEF ReleaseEnds, Cancelled, CancelRuns, Typed
  <2>3. Up' = Up /\ w \in Up
    BY <1>4, <2>1 DEF ReleaseEnds
  <2>4. Held(w)' = Held(w)
    BY <1>5, <2>2
  <2>5. AllHeld' = AllHeld
    BY <1>1, <2>4, AllHeldStep
  <2>6. CASE UNCHANGED table
    BY <1>1, <2>3, <2>4, <2>6, Unnoticed
  <2>7. CASE ReleaseRows(w, release[w].ids)
    <3>1. PICK S \in SUBSET Jobs : S = release[w].ids
      BY <1>2
    <3>2. Q!ReleaseRows(w, S)
      BY <2>7, <3>1, SameStatements
    <3>3. Q!Release(w, S)
      BY <2>3, <2>5, <3>2 DEF Q!Release
    <3>4. QED
      BY <3>3 DEF Q!Next
  <2>8. QED
    BY <1>8, <2>6, <2>7 DEF Release, ReleaseFails
<1>9. QED
  BY <1>3, <1>6, <1>7, <1>8 DEF Drain

\* Maintenance and the clock are Queue's own.
LEMMA TableImplements ==
  ASSUME Inv, UNCHANGED <<phase, loop, inflight, runs, beat, release>>
  PROVE  /\ \A w \in Workers : Maintain(w) => Q!Next
         /\ \A j \in Jobs : Environment(j) => Q!Next
<1>1. AllHeld' = AllHeld /\ Up' = Up
  <2>1. \A w \in Workers : Held(w)' = Held(w)
    BY HeldIs
  <2>2. \A e : e \in AllHeld' <=> e \in AllHeld
    BY <2>1 DEF AllHeld
  <2>3. QED
    BY <2>2 DEF Up, Gone
<1>2. ASSUME NEW w \in Workers, Maintain(w)
      PROVE  Q!Next
  <2>1. w \in Up /\ (Q!ScheduleRows \/ Q!ReapRows(w) \/ Q!PurgeRows)
    BY <1>2, SameStatements DEF Maintain, Up, Gone
  <2>2. Q!Schedule(w) \/ Q!Reap(w) \/ Q!Purge(w)
    BY <1>1, <2>1 DEF Q!Schedule, Q!Reap, Q!Purge
  <2>3. QED
    BY <2>2 DEF Q!Next
<1>3. ASSUME NEW j \in Jobs, Environment(j)
      PROVE  Q!Next
  <2>1. Q!Insert(j) \/ Q!RowAges(j) \/ Q!RowComesDue(j) \/ Q!RowLapses(j)
    <3>1. Insert(j) \/ RowAges(j) \/ RowComesDue(j) \/ RowLapses(j)
      BY <1>3, Zenon DEF Environment
    <3>2. QED
      BY <3>1, SameStatements
  <2>2. Q!Enqueue(j) \/ Q!RetentionPasses(j) \/ Q!BecomeDue(j) \/ Q!LeaseLapse(j)
    BY <1>1, <2>1 DEF Q!Enqueue, Q!RetentionPasses, Q!BecomeDue, Q!LeaseLapse
  <2>3. QED
    BY <2>2 DEF Q!Next
<1>4. QED
  BY <1>2, <1>3

(***************************************************************************)
(* The claim loop, the goroutines, the heartbeat and the drain of every    *)
(* process together implement Queue: the table sees claims that are taken  *)
(* once, written at most once, handed back or forgotten.                   *)
(***************************************************************************)
THEOREM QueueRefinement == Spec => ImplementsQueue
<1>1. Init => Q!Init
  <2> SUFFICES ASSUME Init PROVE Q!Init
    OBVIOUS
  <2>1. \A w \in Workers : loop[w] = Idle /\ runs[w] = {} /\ phase[w] = "running"
    BY DEF Init
  <2>2. Idle.batch = {} /\ Idle.hand = {}
    BY DEF Idle, LoopAt
  <2>3. \A w \in Workers : Held(w) = {}
    BY <2>1, <2>2, HeldIs DEF HeldOf
  <2>4. AllHeld = {} /\ Up = Workers
    BY <2>1, <2>3 DEF AllHeld, Up, Gone
  <2>5. Q!InitTable
    BY DEF Init, InitTable, Q!InitTable, NoRow, Q!NoRow
  <2>6. QED
    BY <2>4, <2>5 DEF Q!Init
<1>2. Inv /\ [Next]_vars => [Q!Next]_(Q!vars)
  <2> SUFFICES ASSUME Inv, [Next]_vars PROVE [Q!Next]_(Q!vars)
    OBVIOUS
  <2>1. CASE UNCHANGED vars
    <3>1. \A w \in Workers : Held(w)' = Held(w)
      BY <2>1, HeldIs DEF vars
    <3>2. \A e : e \in AllHeld' <=> e \in AllHeld
      BY <3>1 DEF AllHeld
    <3>3. AllHeld' = AllHeld
      BY <3>2
    <3>4. Up' = Up
      BY <2>1 DEF vars, Up, Gone
    <3>5. QED
      BY <2>1, <3>3, <3>4 DEF vars, Q!vars
  <2>2. ASSUME NEW w \in Workers, Maintain(w) PROVE Q!Next
    BY <2>2, TableImplements DEF Maintain
  <2>3. ASSUME NEW j \in Jobs, Environment(j) PROVE Q!Next
    BY <2>3, TableImplements DEF Environment
  <2>4. QED
    BY <2>1, <2>2, <2>3, ClaimLoopImplements, GoroutineImplements,
       HeartbeatImplements, DrainImplements DEF Next
<1>3. QED
  BY <1>1, <1>2, Invariance, PTL DEF Spec, ImplementsQueue, Q!Spec

-----------------------------------------------------------------------------
(* While time is kind.                                                     *)

\* The statements that respect the claims of a process that heartbeats: all
\* but its own releases and outcomes.
Polite(w) ==
  \/ UNCHANGED table
  \/ \E v \in Workers : \E S \in SUBSET Jobs : TakeRows(v, S) \/ RenewRows(v, S)
  \/ \E v \in Workers \ {w} : \E S \in SUBSET Jobs : ReleaseRows(v, S)
  \/ \E e \in Claims : e.worker # w /\ Write(e)
  \/ \E v \in Workers : ScheduleRows \/ ReapRows(v) \/ PurgeRows
  \/ \E j \in Jobs : \/ Insert(j) \/ RowAges(j)
                     \/ ~Unwinding(j) /\ RowComesDue(j)
                     \/ ~Renewed(j) /\ RowLapses(j)

\* A completion write touches one row, and that only under its guard.
LEMMA WriteElsewhere ==
  ASSUME TableOK, NEW e \in Claims, Write(e), NEW j \in Jobs,
         j # e.job \/ ~ClaimGuard(rows[j], e)
  PROVE  rows'[j] = rows[j]
<1>1. e.job \in Jobs /\ rows \in [Jobs -> Row]
  BY DEF Claims, TableOK
<1>2. ASSUME NEW n, Record(e, n) PROVE rows'[j] = rows[j]
  BY <1>1, <1>2 DEF Record
<1>3. QED
  BY <1>2 DEF Write, WriteSucceed, WriteSnooze, WriteCancel, WriteDiscard, WriteRetry,
     table

\* While its lease does not run out, nobody else ends a current claim.
LEMMA CurrentKept ==
  ASSUME TableOK, NEW w \in Workers, NEW e \in Claims, e.worker = w,
         Current(e, rows[e.job]), Renewed(e.job) \/ ~Lapses(e.job), Polite(w)
  PROVE  Current(e, rows'[e.job])
<1> DEFINE j == e.job
           r == rows[j]
           n == rows'[j]
<1>1. j \in Jobs /\ r \in Row /\ rows \in [Jobs -> Row]
  BY DEF Claims, TableOK
<1>2. /\ r.state = "running" /\ r.lockedBy = w /\ r.attempt = e.attempt
      /\ r.gen = e.gen /\ r.leaseAt = "live"
  BY DEF Current, ClaimGuard, LockedBy
<1>3. CASE n = r
  BY <1>3
<1>4. ASSUME n = HeartbeatRow(r) \/ n = [r EXCEPT !.scheduledAt = "due"]
               \/ n = [r EXCEPT !.finalizedAt = "aged"]
      PROVE  Current(e, n)
  <2>1. /\ n.state = "running" /\ n.lockedBy = w /\ n.attempt = e.attempt
        /\ n.gen = e.gen /\ n.leaseAt = "live"
    BY <1>1, <1>2, <1>4 DEF HeartbeatRow, Row
  <2>2. QED
    BY <2>1 DEF Current, ClaimGuard, LockedBy
<1> HIDE DEF n, r, j
<1>5. CASE UNCHANGED table
  BY <1>3, <1>5 DEF table, n, r, j
<1>6. ASSUME NEW v \in Workers, NEW S \in SUBSET Jobs, TakeRows(v, S) \/ RenewRows(v, S)
      PROVE  Current(e, n)
  <2>1. CASE TakeRows(v, S)
    <3>1. j \notin S
      BY <1>2, <2>1 DEF TakeRows, Claimable, r, j
    <3>2. n = r
      BY <1>1, <2>1, <3>1 DEF TakeRows, n, r, j
    <3>3. QED
      BY <1>3, <3>2 DEF n, r, j
  <2>2. CASE RenewRows(v, S)
    <3>1. n = r \/ n = HeartbeatRow(r)
      BY <1>1, <2>2 DEF RenewRows, n, r, j
    <3>2. QED
      BY <1>3, <1>4, <3>1 DEF n, r, j
  <2>3. QED
    BY <1>6, <2>1, <2>2
<1>7. ASSUME NEW v \in Workers \ {w}, NEW S \in SUBSET Jobs, ReleaseRows(v, S)
      PROVE  Current(e, n)
  <2>1. n = r
    BY <1>1, <1>2, <1>7 DEF ReleaseRows, LockedBy, n, r, j
  <2>2. QED
    BY <1>3, <2>1 DEF n, r, j
<1>8. ASSUME NEW d \in Claims, d.worker # w, Write(d)
      PROVE  Current(e, n)
  <2>1. ~ClaimGuard(r, d)
    BY <1>2, <1>8 DEF ClaimGuard, LockedBy
  <2>2. n = r
    BY <1>1, <1>8, <2>1, WriteElsewhere DEF n, r, j
  <2>3. QED
    BY <1>3, <2>2 DEF n, r, j
<1>9. ASSUME NEW v \in Workers, ScheduleRows \/ ReapRows(v) \/ PurgeRows
      PROVE  Current(e, n)
  <2>1. ~Schedulable(r) /\ ~Reapable(r) /\ ~Purgeable(r)
    BY <1>2 DEF Schedulable, Reapable, Purgeable, Terminal
  <2>2. n = r
    BY <1>1, <1>9, <2>1 DEF ScheduleRows, ReapRows, PurgeRows, n, r, j
  <2>3. QED
    BY <1>3, <2>2 DEF n, r, j
<1>10. ASSUME NEW k \in Jobs, Insert(k) \/ RowAges(k) \/ RowComesDue(k)
       PROVE  Current(e, n)
  <2>1. CASE k # j
    <3>1. n = r
      BY <1>1, <1>10, <2>1 DEF Insert, RowAges, RowComesDue, n, r, j
    <3>2. QED
      BY <1>3, <3>1 DEF n, r, j
  <2>2. CASE k = j
    <3>1. n = [r EXCEPT !.scheduledAt = "due"] \/ n = [r EXCEPT !.finalizedAt = "aged"]
      BY <1>1, <1>2, <1>10, <2>2 DEF Insert, RowAges, RowComesDue, n, r, j
    <3>2. QED
      BY <1>4, <3>1 DEF n, r, j
  <2>3. QED
    BY <2>1, <2>2
<1>11. ASSUME NEW k \in Jobs, ~Renewed(k), RowLapses(k)
       PROVE  Current(e, n)
  <2>1. k # j
    <3> SUFFICES ASSUME k = j PROVE FALSE
      OBVIOUS
    <3>1. n.leaseAt = "lapsed"
      BY <1>1, <1>11 DEF RowLapses, Row, n, j
    <3>2. QED
      BY <1>2, <1>11, <3>1 DEF Lapses, n, r, j
  <2>2. n = r
    BY <1>1, <1>11, <2>1 DEF RowLapses, n, r, j
  <2>3. QED
    BY <1>3, <2>2 DEF n, r, j
<1>12. QED
  BY <1>5, <1>6, <1>7, <1>8, <1>9, <1>10, <1>11 DEF Polite, n, j

\* While a run unwinds, its row stays out of the reach of every claim.
LEMMA SettledKept ==
  ASSUME TableOK, NEW w \in Workers, NEW j \in Jobs,
         Settled(rows[j], w), Unwinding(j), Polite(w)
  PROVE  Settled(rows'[j], w)
<1> DEFINE r == rows[j]
           n == rows'[j]
<1>1. r \in Row /\ rows \in [Jobs -> Row]
  BY DEF TableOK
<1>2. \/ r.state \in Terminal \cup {"purged"}
      \/ r.state \in {"retryable", "scheduled"} /\ r.scheduledAt = "future"
      \/ r.state = "running" /\ r.lockedBy = w
  BY DEF Settled, LockedBy
<1>3. r.state \notin {"none", "available"} /\ ~Schedulable(r)
  BY <1>2 DEF Schedulable, Terminal
<1>4. CASE n = r
  BY <1>4
<1>5. ASSUME n = HeartbeatRow(r) \/ n = [r EXCEPT !.leaseAt = "lapsed"]
               \/ n = [r EXCEPT !.finalizedAt = "aged"]
      PROVE  Settled(n, w)
  <2>1. /\ n.state = r.state /\ n.lockedBy = r.lockedBy
        /\ n.scheduledAt = r.scheduledAt
    BY <1>1, <1>5 DEF HeartbeatRow, Row
  <2>2. QED
    BY <1>2, <2>1 DEF Settled, LockedBy
<1> HIDE DEF n, r
<1>6. CASE UNCHANGED table
  BY <1>4, <1>6 DEF table, n, r
<1>7. ASSUME NEW v \in Workers, NEW S \in SUBSET Jobs, TakeRows(v, S) \/ RenewRows(v, S)
      PROVE  Settled(n, w)
  <2>1. CASE TakeRows(v, S)
    <3>1. j \notin S
      BY <1>3, <2>1 DEF TakeRows, Claimable, r
    <3>2. n = r
      BY <1>1, <2>1, <3>1 DEF TakeRows, n, r
    <3>3. QED
      BY <1>4, <3>2 DEF n, r
  <2>2. CASE RenewRows(v, S)
    <3>1. n = r \/ n = HeartbeatRow(r)
      BY <1>1, <2>2 DEF RenewRows, n, r
    <3>2. QED
      BY <1>4, <1>5, <3>1 DEF n, r
  <2>3. QED
    BY <1>7, <2>1, <2>2
<1>8. ASSUME NEW v \in Workers \ {w}, NEW S \in SUBSET Jobs, ReleaseRows(v, S)
      PROVE  Settled(n, w)
  <2>1. ~LockedBy(r, v)
    BY <1>2 DEF LockedBy, Terminal
  <2>2. n = r
    BY <1>1, <1>8, <2>1 DEF ReleaseRows, n, r
  <2>3. QED
    BY <1>4, <2>2 DEF n, r
<1>9. ASSUME NEW d \in Claims, d.worker # w, Write(d)
      PROVE  Settled(n, w)
  <2>1. ~ClaimGuard(r, d)
    BY <1>2, <1>9 DEF ClaimGuard, LockedBy, Terminal
  <2>2. n = r
    BY <1>9, <2>1, WriteElsewhere DEF n, r
  <2>3. QED
    BY <1>4, <2>2 DEF n, r
<1>10. ASSUME NEW v \in Workers, ScheduleRows \/ ReapRows(v) \/ PurgeRows
       PROVE  Settled(n, w)
  <2>1. n = r \/ n = ReapRow(r, j, v) \/ (Purgeable(r) /\ n = PurgeRow(r))
    BY <1>1, <1>3, <1>10 DEF ScheduleRows, ReapRows, PurgeRows, n, r
  <2>2. ASSUME n = ReapRow(r, j, v)
        PROVE  n.state \in {"discarded", "retryable"} /\ n.scheduledAt = "future"
    BY <1>1, <2>2 DEF ReapRow, Unlocked, Row
  <2>3. ASSUME n = PurgeRow(r) PROVE n.state = "purged"
    BY <1>1, <2>3 DEF PurgeRow, Row
  <2>4. QED
    BY <1>4, <2>1, <2>2, <2>3 DEF Settled, Terminal, n, r
<1>11. ASSUME NEW k \in Jobs, Insert(k) \/ RowAges(k) \/ RowLapses(k)
       PROVE  Settled(n, w)
  <2>1. CASE k # j
    <3>1. n = r
      BY <1>1, <1>11, <2>1 DEF Insert, RowAges, RowLapses, n, r
    <3>2. QED
      BY <1>4, <3>1 DEF n, r
  <2>2. CASE k = j
    <3>1. n = [r EXCEPT !.leaseAt = "lapsed"] \/ n = [r EXCEPT !.finalizedAt = "aged"]
      BY <1>1, <1>3, <1>11, <2>2 DEF Insert, RowAges, RowLapses, n, r
    <3>2. QED
      BY <1>5, <3>1 DEF n, r
  <2>3. QED
    BY <2>1, <2>2
<1>12. ASSUME NEW k \in Jobs, ~Unwinding(k), RowComesDue(k)
       PROVE  Settled(n, w)
  <2>1. k # j
    BY <1>12
  <2>2. n = r
    BY <1>1, <1>12, <2>1 DEF RowComesDue, n, r
  <2>3. QED
    BY <1>4, <2>2 DEF n, r
<1>13. QED
  BY <1>6, <1>7, <1>8, <1>9, <1>10, <1>11, <1>12 DEF Polite, n

\* The lease of a claim does not run out unless it lies in a tail.
LEMMA HeldRenewed ==
  ASSUME Inv, NEW w \in Workers, Beating(w), NEW e \in Held(w), Healthy(w, e.job),
         Spared(e.job)
  PROVE  Renewed(e.job) \/ ~Lapses(e.job)
<1>1. \/ e \in loop[w].batch \/ e \in loop[w].hand
      \/ \E r \in runs[w] : r.pc # "written" /\ r.claim = e
  BY HeldIs, HeldMember
<1>2. \/ inflight[w][e.job].tracked
      \/ e \in loop[w].batch
  BY <1>1 DEF Healthy, HealthyAs
<1>3. e.worker = w /\ ClaimGuard(rows[e.job], e)
  BY HeldOwn, HeldIs DEF Healthy, HealthyAs, Current
<1>4. phase[w] \notin {"cancelled", "exited", "dead"}
  BY DEF Beating
<1>5. CASE inflight[w][e.job].tracked
  BY <1>3, <1>4, <1>5 DEF Renewed, ClaimGuard
<1>6. CASE e \in loop[w].batch
  BY <1>3, <1>6 DEF Spared, InTail
<1>7. QED
  BY <1>2, <1>5, <1>6

\* A polite statement changes nothing a healthy process relies on.
LEMMA PoliteKeeps ==
  ASSUME Inv, NEW w \in Workers, NEW j \in Jobs, Beating(w), Healthy(w, j), Polite(w),
         Spared(j)
  PROVE  HealthyAs(loop[w], runs[w], inflight[w], rows', w, j)
<1>1. Held(w) = HeldOf(loop[w], runs[w]) /\ TableOK
  BY HeldIs DEF Inv
<1>2. ASSUME NEW e \in Held(w), e.job = j PROVE Current(e, rows'[j])
  <2>1. e \in Claims /\ e.worker = w /\ (Renewed(e.job) \/ ~Lapses(e.job))
    BY <1>2, HeldOwn, HeldRenewed
  <2>2. Current(e, rows[e.job])
    BY <1>1, <1>2 DEF Healthy, HealthyAs
  <2>3. QED
    BY <1>1, <1>2, <2>1, <2>2, CurrentKept
<1>3. ASSUME NEW q \in runs[w], q.claim.job = j, q.pc = "written"
      PROVE  Settled(rows'[j], w)
  <2>1. Unwinding(j)
    BY <1>3 DEF Unwinding
  <2>2. Settled(rows[j], w)
    BY <1>3 DEF Healthy, HealthyAs
  <2>3. QED
    BY <1>1, <2>1, <2>2, SettledKept
<1>4. QED
  BY <1>1, <1>2, <1>3 DEF Healthy, HealthyAs

\* A healthy process holds one claim of a job.
LEMMA HeldApart ==
  ASSUME Inv, NEW w \in Workers, NEW d \in Held(w), NEW e \in Held(w), d.job = e.job,
         Healthy(w, e.job)
  PROVE  d = e
<1>1. d \in Claims /\ e \in Claims /\ d.worker = w /\ e.worker = w
  BY HeldOwn
<1>2. Current(d, rows[e.job]) /\ Current(e, rows[e.job])
  BY HeldIs DEF Healthy, HealthyAs
<1>3. d.attempt = e.attempt /\ d.gen = e.gen
  BY <1>2 DEF Current, ClaimGuard
<1>4. QED
  BY <1>1, <1>3 DEF Claims

\* The claim loop: a batch comes, and is registered and handed over job by job.
LEMMA LoopStaysHealthy ==
  ASSUME Inv, NEW w \in Workers, NEW j \in Jobs, Beating(w), Healthy(w, j), Spared(j),
         ClaimLoop(w)
  PROVE  Healthy(w, j)'
<1>1. /\ Typed /\ TableOK /\ Shape(loop[w], runs[w], inflight[w], rows, w) /\ PhaseOK(w)
      /\ loop[w] \in Loops /\ runs[w] \in SUBSET Runs
  BY DEF Inv, Local, Typed
<1>2. phase[w] # "cancelled" /\ loop[w].pc # "handback"
  BY <1>1 DEF Beating, PhaseOK
<1>3. ASSUME Polite(w) PROVE HealthyAs(loop[w], runs[w], inflight[w], rows', w, j)
  BY <1>3, PoliteKeeps
<1>4. ASSUME HealthyAs(loop'[w], runs'[w], inflight'[w], rows', w, j) PROVE Healthy(w, j)'
  BY <1>4 DEF Healthy
<1>5. ASSUME NEW pc \in {"idle", "claiming", "done"}
      PROVE  /\ LoopAt(pc, {}, {}).batch = {} /\ LoopAt(pc, {}, {}).hand = {}
             /\ LoopAt(pc, {}, {}).pc = pc
  BY DEF LoopAt
<1>6. ASSUME NEW pc \in {"idle", "claiming", "done"}, loop[w].pc \in {"idle", "claiming"},
             loop' = [loop EXCEPT ![w] = LoopAt(pc, {}, {})], runs' = runs,
             inflight' = inflight, Polite(w)
      PROVE  Healthy(w, j)'
  <2>1. loop[w].batch = {} /\ loop[w].hand = {} /\ loop'[w] = LoopAt(pc, {}, {})
    BY <1>1, <1>6 DEF Shape, LoopOK, Typed
  <2>2. HeldOf(loop'[w], runs[w]) = HeldOf(loop[w], runs[w])
    BY <1>5, <2>1 DEF HeldOf
  <2>3. HealthyAs(loop'[w], runs[w], inflight[w], rows', w, j)
    BY <1>3, <1>5, <1>6, <2>1, <2>2 DEF HealthyAs
  <2>4. QED
    BY <1>4, <1>6, <2>3
<1>7. CASE ClaimBegin(w) \/ ClaimNothing(w) \/ LoopEnds(w)
  <2>1. Polite(w)
    BY <1>7 DEF ClaimBegin, ClaimNothing, LoopEnds, Polite
  <2>2. QED
    BY <1>5, <1>6, <1>7, <2>1 DEF ClaimBegin, ClaimNothing, LoopEnds, Idle, Stopped
<1>8. ASSUME NEW S \in SUBSET Jobs, ClaimLost(w, S)
      PROVE  Healthy(w, j)'
  <2>1. Polite(w)
    BY <1>8 DEF ClaimLost, Polite
  <2>2. QED
    BY <1>6, <1>8, <2>1 DEF ClaimLost, Idle
<1>9. ASSUME NEW S \in SUBSET Jobs, ClaimCommit(w, S)
      PROVE  Healthy(w, j)'
  <2> DEFINE B == NewBatch(w, S)
  <2>1. TakeRows(w, S) /\ Polite(w)
    BY <1>9 DEF ClaimCommit, Polite
  <2>2. /\ loop'[w] = LoopAt("track", B, {}) /\ loop[w].pc = "claiming"
        /\ runs' = runs /\ inflight' = inflight
    BY <1>1, <1>9 DEF ClaimCommit, NewBatch, Typed
  <2>3. ASSUME NEW e \in B, e.job = j
        PROVE  Claimable(rows[j]) /\ Current(e, rows'[j])
    <3>1. e = NewClaim(w, j) /\ j \in S
      BY <2>3 DEF NewBatch, NewClaim
    <3>2. Claimable(rows[j]) /\ rows[j] \in Row /\ rows'[j] = ClaimRow(rows[j], w)
      BY <1>1, <2>1, <3>1 DEF TakeRows, TableOK
    <3>3. /\ rows'[j].state = "running" /\ rows'[j].lockedBy = w
          /\ rows'[j].attempt = rows[j].attempt + 1 /\ rows'[j].gen = rows[j].gen + 1
          /\ rows'[j].leaseAt = "live"
      BY <3>2 DEF ClaimRow, Row
    <3>4. /\ e.worker = w /\ e.attempt = rows[j].attempt + 1 /\ e.gen = rows[j].gen + 1
      BY <3>1 DEF NewClaim
    <3>5. QED
      BY <3>2, <3>3, <3>4 DEF Current, ClaimGuard, LockedBy
  <2>4. ASSUME NEW q \in runs[w], q.claim.job = j, q.pc = "written"
        PROVE  \A e \in B : e.job # j
    <3>1. Settled(rows[j], w)
      BY <2>4 DEF Healthy, HealthyAs
    <3>2. ~Claimable(rows[j])
      BY <3>1 DEF Settled, LockedBy, Claimable, Terminal
    <3>3. QED
      BY <2>3, <3>2
  <2> HIDE DEF B
  <2>5. /\ loop'[w].batch = B /\ loop'[w].hand = {}
        /\ loop[w].batch = {} /\ loop[w].hand = {}
    BY <1>1, <2>2 DEF LoopAt, Shape, LoopOK
  <2>6. \A d : d \in HeldOf(loop'[w], runs[w])
                 <=> d \in B \/ d \in HeldOf(loop[w], runs[w])
    BY <2>5, HeldMember
  <2>7. HealthyAs(loop'[w], runs[w], inflight[w], rows', w, j)
    BY <1>3, <2>1, <2>3, <2>4, <2>5, <2>6 DEF HealthyAs
  <2>8. QED
    BY <1>4, <2>2, <2>7
<1>10. ASSUME NEW e \in loop[w].batch, TrackNext(w, e)
       PROVE  Healthy(w, j)'
  <2>1. /\ loop'[w] = LoopAt("send", loop[w].batch \ {e}, {e}) /\ runs' = runs
        /\ loop[w].pc = "track" /\ Polite(w)
        /\ inflight' = [inflight EXCEPT ![w][e.job] = Entry({})]
    BY <1>1, <1>10 DEF TrackNext, Typed, Polite
  <2>2. HealthyAs(loop[w], runs[w], inflight[w], rows', w, j)
    BY <1>3, <2>1
  <2>3. /\ loop'[w].batch = loop[w].batch \ {e} /\ loop'[w].hand = {e}
        /\ loop[w].hand = {}
    BY <1>1, <2>1 DEF LoopAt, Shape, LoopOK
  <2>4. \A d : d \in HeldOf(loop'[w], runs[w]) <=> d \in HeldOf(loop[w], runs[w])
    BY <2>3, HeldMember
  <2>5. e.job \in Jobs
    BY <1>1 DEF Loops, Claims
  <2>6. /\ inflight[w][j].tracked => inflight'[w][j].tracked
        /\ e.job = j => inflight'[w][j].tracked
    BY <1>1, <2>1, <2>5 DEF Typed, Entry
  <2>7. HealthyAs(loop'[w], runs[w], inflight'[w], rows', w, j)
    BY <2>2, <2>3, <2>4, <2>6 DEF HealthyAs
  <2>8. QED
    BY <1>4, <2>1, <2>7
<1>11. CASE Send(w)
  <2>1. PICK c \in BOOLEAN : c = (phase[w] = "cancelled")
    OBVIOUS
  <2>2. /\ loop'[w] = Onward(loop[w]) /\ runs'[w] = runs[w] \cup Received(loop[w].hand, c)
        /\ loop[w].pc = "send" /\ inflight' = inflight /\ Polite(w)
    BY <1>1, <1>11, <2>1 DEF Send, Received, Onward, Typed, Polite
  <2>3. HealthyAs(loop[w], runs[w], inflight[w], rows', w, j)
    BY <1>3, <2>2
  <2>4. loop'[w].batch = loop[w].batch /\ loop'[w].hand = {}
    BY <2>2, OnwardKeeps
  <2>5. \A x \in Received(loop[w].hand, c) : x.claim \in loop[w].hand /\ x.pc # "written"
    BY DEF Received, Run
  <2>6. \A d : d \in HeldOf(loop'[w], runs'[w]) => d \in HeldOf(loop[w], runs[w])
    BY <2>2, <2>4, <2>5, HeldMember
  <2>7. HealthyAs(loop'[w], runs'[w], inflight[w], rows', w, j)
    BY <2>2, <2>3, <2>4, <2>5, <2>6 DEF HealthyAs
  <2>8. QED
    BY <1>4, <2>2, <2>7
<1>12. ~SendCancelled(w) /\ ~HandBack(w)
  BY <1>2 DEF SendCancelled, HandBack
<1>13. QED
  BY <1>7, <1>8, <1>9, <1>10, <1>11, <1>12 DEF ClaimLoop

\* What a completion write leaves of the row of a current claim.
LEMMA WriteSettles ==
  ASSUME TableOK, NEW e \in Claims, Current(e, rows[e.job]), Write(e)
  PROVE  Settled(rows'[e.job], e.worker)
<1> DEFINE r == rows[e.job]
           n == rows'[e.job]
<1>1. r \in Row /\ e.job \in Jobs /\ rows \in [Jobs -> Row]
  BY DEF Claims, TableOK
<1>2. ClaimGuard(r, e) /\ LockedBy(r, e.worker)
  BY DEF Current, ClaimGuard
<1>3. ASSUME NEW x, Record(e, x) PROVE n = x
  BY <1>1, <1>2, <1>3 DEF Record
<1>4. \/ n = SucceedRow(r) \/ n = SnoozeRow(r) \/ n = TerminalRow(r, "cancelled")
      \/ n = TerminalRow(r, "discarded") \/ n = RetryRow(r) \/ n = r
  BY <1>3 DEF Write, WriteSucceed, WriteSnooze, WriteCancel, WriteDiscard, WriteRetry,
     table
<1> HIDE DEF r, n
<1>5. /\ SucceedRow(r).state = "succeeded"
      /\ SnoozeRow(r).state = "scheduled" /\ SnoozeRow(r).scheduledAt = "future"
      /\ TerminalRow(r, "cancelled").state = "cancelled"
      /\ TerminalRow(r, "discarded").state = "discarded"
      /\ RetryRow(r).state = "retryable" /\ RetryRow(r).scheduledAt = "future"
  BY <1>1 DEF SucceedRow, SnoozeRow, TerminalRow, RetryRow, Unlocked, Row
<1>6. Settled(n, e.worker)
  BY <1>2, <1>4, <1>5 DEF Settled, Terminal
<1>7. QED
  BY <1>6 DEF n

\* A run that writes its outcome settles its row.
LEMMA FinishStaysHealthy ==
  ASSUME Inv, NEW w \in Workers, NEW j \in Jobs, Healthy(w, j), NEW r \in runs[w],
         Finish(w, r)
  PROVE  Healthy(w, j)'
<1> DEFINE e == r.claim
           x == [r EXCEPT !.pc = "written"]
<1>1. r \in Runs /\ e \in Claims /\ e.worker = w /\ e.job \in Jobs
  BY DEF Inv, Typed, Runs, Local, Shape, LoopOK, Claims
<1>2. /\ loop' = loop /\ runs'[w] = (runs[w] \ {r}) \cup {x} /\ inflight' = inflight
      /\ r.pc # "written" /\ Write(e)
  BY DEF Finish, SetRun, Inv, Typed
<1>3. x.pc = "written" /\ x.claim = e
  BY <1>1 DEF Runs
<1>4. /\ \A q \in runs[w] : q.claim = e => q = r
      /\ e \notin loop[w].batch /\ e \notin loop[w].hand /\ TableOK
  BY DEF Inv, Local, Shape, LoopOK
<1>5. e \in Held(w)
  BY <1>2, HeldIs, HeldMember
<1> HIDE DEF x
\* What is still held was held, and not under the claim of the run.
<1>6. ASSUME NEW d \in HeldOf(loop[w], runs'[w])
      PROVE  d \in Held(w) /\ d # e
  <2>1. \/ d \in loop[w].batch \/ d \in loop[w].hand
        \/ \E q \in runs'[w] : q.pc # "written" /\ q.claim = d
    BY HeldMember
  <2>2. \A q \in runs'[w] : q.pc # "written" => q \in runs[w] /\ q # r
    BY <1>2, <1>3
  <2>3. d \in Held(w)
    BY <2>1, <2>2, HeldIs, HeldMember
  <2>4. QED
    BY <1>4, <2>1, <2>2, <2>3
<1>7. \A q \in runs'[w] : q.pc # "written" => q \in runs[w]
  BY <1>2, <1>3
<1>8. CASE e.job = j
  <2>1. Settled(rows'[j], w)
    <3>1. Current(e, rows[e.job])
      BY <1>5, <1>8, HeldIs DEF Healthy, HealthyAs
    <3>2. QED
      BY <1>1, <1>2, <1>4, <1>8, <3>1, WriteSettles
  <2>2. \A d \in HeldOf(loop[w], runs'[w]) : d.job # j
    BY <1>5, <1>6, <1>8, HeldApart
  <2>3. HealthyAs(loop[w], runs'[w], inflight[w], rows', w, j)
    BY <1>7, <2>1, <2>2 DEF Healthy, HealthyAs
  <2>4. QED
    BY <1>2, <2>3 DEF Healthy
<1>9. CASE e.job # j
  <2>1. rows'[j] = rows[j]
    BY <1>1, <1>2, <1>4, <1>9, WriteElsewhere
  <2>2. \A q \in runs'[w] : q.claim.job = j => q \in runs[w]
    BY <1>2, <1>3, <1>9
  <2>3. \A d \in HeldOf(loop[w], runs'[w]) : d \in HeldOf(loop[w], runs[w])
    BY <1>6, HeldIs
  <2>4. HealthyAs(loop[w], runs'[w], inflight[w], rows', w, j)
    BY <2>1, <2>2, <2>3 DEF Healthy, HealthyAs
  <2>5. QED
    BY <1>2, <2>4 DEF Healthy
<1>10. QED
  BY <1>8, <1>9

\* Goroutines work under current claims only.
LEMMA GoroutineStaysHealthy ==
  ASSUME Inv, NEW w \in Workers, NEW j \in Jobs, Beating(w), Healthy(w, j), Spared(j),
         Goroutine(w)
  PROVE  Healthy(w, j)'
<1>1. Typed /\ runs[w] \in SUBSET Runs /\ \A r \in runs[w] : r.claim.job \in Jobs
  BY DEF Inv, Typed, Runs, Claims
<1>2. PICK r \in runs[w] : Start(w, r) \/ Finish(w, r) \/ Untrack(w, r)
  BY DEF Goroutine
<1>3. CASE Start(w, r)
  <2> DEFINE x == [r EXCEPT !.pc = "handling"]
  <2>1. /\ loop' = loop /\ runs'[w] = (runs[w] \ {r}) \cup {x}
        /\ r.pc # "written" /\ Polite(w)
        /\ inflight' = [inflight EXCEPT ![w][r.claim.job] = Entry({r.claim})]
    BY <1>1, <1>3 DEF Start, SetRun, Typed, Polite
  <2>2. x.pc # "written" /\ x.claim = r.claim
    BY <1>1 DEF Runs
  <2> HIDE DEF x
  <2>3. \A d : d \in HeldOf(loop[w], runs'[w]) => d \in HeldOf(loop[w], runs[w])
    BY <1>2, <2>1, <2>2, HeldMember
  <2>4. inflight[w][j].tracked => inflight'[w][j].tracked
    BY <1>1, <1>2, <2>1 DEF Typed, Entry
  <2>5. HealthyAs(loop[w], runs[w], inflight[w], rows', w, j)
    BY <2>1, PoliteKeeps
  <2>6. \A q \in runs'[w] : q \in runs[w] \/ q = x
    BY <2>1
  <2>7. HealthyAs(loop[w], runs'[w], inflight'[w], rows', w, j)
    BY <1>2, <2>1, <2>2, <2>3, <2>4, <2>5, <2>6 DEF HealthyAs
  <2>8. QED
    BY <2>1, <2>7 DEF Healthy
<1>4. CASE Untrack(w, r)
  <2>1. /\ loop' = loop /\ runs'[w] = runs[w] \ {r} /\ r.pc = "written" /\ Polite(w)
        /\ inflight' = [inflight EXCEPT ![w][r.claim.job] = Absent]
    BY <1>1, <1>4 DEF Untrack, Typed, Polite
  <2>2. HealthyAs(loop[w], runs[w], inflight[w], rows', w, j)
    BY <2>1, PoliteKeeps
  <2>3. \A d : d \in HeldOf(loop[w], runs'[w]) => d \in HeldOf(loop[w], runs[w])
    BY <2>1, HeldMember
  <2>4. /\ \A d \in loop[w].hand : d \in HeldOf(loop[w], runs[w])
        /\ \A q \in runs[w] : q.pc # "written" => q.claim \in HeldOf(loop[w], runs[w])
    BY HeldMember
  <2>5. CASE r.claim.job # j
    <3>1. inflight'[w][j] = inflight[w][j]
      BY <1>1, <1>2, <2>1, <2>5 DEF Typed
    <3>2. QED
      BY <2>1, <2>2, <2>3, <3>1 DEF Healthy, HealthyAs
  <2>6. CASE r.claim.job = j
    <3>1. \A d \in HeldOf(loop[w], runs[w]) : d.job # j
      BY <1>2, <2>1, <2>2, <2>6 DEF HealthyAs
    <3>2. HealthyAs(loop[w], runs'[w], inflight'[w], rows', w, j)
      BY <2>1, <2>2, <2>3, <2>4, <3>1 DEF HealthyAs
    <3>3. QED
      BY <2>1, <3>2 DEF Healthy
  <2>7. QED
    BY <2>5, <2>6
<1>5. QED
  BY <1>2, <1>3, <1>4, FinishStaysHealthy

\* Cancelled handlers still hold current claims.
LEMMA CancelStaysHealthy ==
  ASSUME NEW l, NEW R \in SUBSET Runs, NEW I, NEW T, NEW w, NEW j, NEW C,
         HealthyAs(l, R, I, T, w, j)
  PROVE  HealthyAs(l, CancelRuns(R, C), I, T, w, j)
<1> DEFINE f(r) == [r EXCEPT !.cancelled = TRUE]
           R2   == CancelRuns(R, C)
<1>1. \A r \in R : f(r).pc = r.pc /\ f(r).claim = r.claim
  BY DEF Runs
<1> HIDE DEF f
<1>2. R2 = {IF r.claim \in C THEN f(r) ELSE r : r \in R}
  BY DEF CancelRuns, f
<1>3. \A x \in R2 : \E r \in R : x.pc = r.pc /\ x.claim = r.claim
  BY <1>1, <1>2
<1>4. HeldOf(l, R2) = HeldOf(l, R)
  BY CancelHolds
<1> HIDE DEF R2
<1>5. HealthyAs(l, R2, I, T, w, j)
  BY <1>3, <1>4 DEF HealthyAs
<1>6. QED
  BY <1>5 DEF R2

\* A heartbeat on time keeps every claim current.
LEMMA HeartbeatStaysHealthy ==
  ASSUME Inv, NEW w \in Workers, NEW j \in Jobs, Beating(w), Healthy(w, j), Spared(j),
         HeartbeatLoop(w)
  PROVE  Healthy(w, j)'
<1>1. Typed /\ runs[w] \in SUBSET Runs /\ beat[w].ids \in SUBSET Jobs
  BY DEF Inv, Typed, Snapshots
<1>2. loop' = loop /\ inflight' = inflight /\ Polite(w)
  BY <1>1 DEF HeartbeatLoop, BeatBegin, Beat, BeatFails, Polite
<1>3. HealthyAs(loop[w], runs[w], inflight[w], rows', w, j)
  BY <1>2, PoliteKeeps
<1>4. CASE runs'[w] = runs[w]
  BY <1>2, <1>3, <1>4 DEF Healthy
<1>5. CASE Beat(w)
  <2>1. Cancelled(w, beat[w].cancels) = CancelRuns(runs[w], beat[w].cancels)
    BY DEF Cancelled, CancelRuns
  <2>2. CASE ~Shortfall(w)
    BY <1>1, <1>4, <1>5, <2>2 DEF Beat, Typed
  <2>3. CASE Shortfall(w)
    <3>1. runs'[w] = CancelRuns(runs[w], beat[w].cancels)
      BY <1>1, <1>5, <2>1, <2>3 DEF Beat, Typed
    <3>2. \A C : HealthyAs(loop[w], CancelRuns(runs[w], C), inflight[w], rows', w, j)
      BY <1>1, <1>3, CancelStaysHealthy
    <3>3. QED
      BY <1>2, <3>1, <3>2 DEF Healthy
  <2>4. QED
    BY <2>2, <2>3
<1>6. QED
  BY <1>4, <1>5 DEF HeartbeatLoop, BeatBegin, BeatFails

\* What others do, the clock included, is polite.
LEMMA OthersPolite ==
  ASSUME Inv, Timely, NEW w \in Workers
  PROVE  /\ \A v \in Workers \ {w} :
              /\ ClaimLoop(v) => Polite(w)
              /\ Goroutine(v) => Polite(w)
              /\ HeartbeatLoop(v) => Polite(w)
              /\ Drain(v) \/ Crash(v) => Polite(w)
         /\ \A v \in Workers : Maintain(v) => Polite(w)
         /\ \A j \in Jobs : Environment(j) => Polite(w)
<1>1. ASSUME NEW v \in Workers \ {w}, ClaimLoop(v) PROVE Polite(w)
  <2>1. {e.job : e \in loop[v].hand} \in SUBSET Jobs
    BY DEF Inv, Typed, Loops, Claims
  <2>2. CASE HandBack(v)
    BY <2>1, <2>2 DEF HandBack, Polite
  <2>3. QED
    BY <1>1, <2>2 DEF ClaimLoop, ClaimBegin, ClaimNothing, Send, SendCancelled, LoopEnds,
       ClaimCommit, ClaimLost, TrackNext, Polite
<1>2. ASSUME NEW v \in Workers \ {w}, Goroutine(v) PROVE Polite(w)
  <2>1. PICK r \in runs[v] : Start(v, r) \/ Finish(v, r) \/ Untrack(v, r)
    BY <1>2 DEF Goroutine
  <2>2. r.claim \in Claims /\ r.claim.worker = v
    BY <2>1 DEF Inv, Typed, Runs, Local, Shape, LoopOK
  <2>3. UNCHANGED table \/ Write(r.claim)
    BY <2>1 DEF Start, Finish, Untrack
  <2>4. QED
    BY <2>2, <2>3 DEF Polite
<1>3. ASSUME NEW v \in Workers \ {w}, HeartbeatLoop(v) PROVE Polite(w)
  <2>1. beat[v].ids \in SUBSET Jobs
    BY DEF Inv, Typed, Snapshots
  <2>2. QED
    BY <1>3, <2>1 DEF HeartbeatLoop, BeatBegin, Beat, BeatFails, Polite
<1>4. ASSUME NEW v \in Workers \ {w}, Drain(v) \/ Crash(v) PROVE Polite(w)
  <2>1. release[v].ids \in SUBSET Jobs
    BY DEF Inv, Typed, Snapshots
  <2>2. UNCHANGED table \/ ReleaseRows(v, release[v].ids)
    BY <1>4 DEF Drain, StopBegin, StopReturns, ReleaseBegin, Release, ReleaseFails,
       CancelRunContext, Exit, Crash, Ends
  <2>3. QED
    BY <2>1, <2>2 DEF Polite
<1>5. ASSUME NEW v \in Workers, Maintain(v) PROVE Polite(w)
  BY <1>5 DEF Maintain, Polite
<1>6. ASSUME NEW j \in Jobs, Environment(j) PROVE Polite(w)
  <2>1. \/ Insert(j) \/ RowAges(j)
        \/ ~Unwinding(j) /\ RowComesDue(j)
        \/ ~Renewed(j) /\ RowLapses(j)
    BY <1>6, Zenon DEF Environment
  <2>2. QED
    BY <2>1 DEF Polite
<1>7. QED
  BY <1>1, <1>2, <1>3, <1>4, <1>5, <1>6

\* With heartbeats on time, every step leaves every process healthy for every
\* job whose lease does not run out in a tail.
LEMMA StepTimely ==
  ASSUME Inv, TimelyInv, [Next /\ Remember]_historyVars
  PROVE  TimelyInv'
<1> SUFFICES ASSUME Timely, NEW j \in Jobs, j \notin overtaken', NEW w \in Workers,
                    Beating(w)'
             PROVE  Healthy(w, j)'
  BY DEF TimelyInv
<1>1. j \notin overtaken /\ Spared(j) /\ (Next \/ UNCHANGED vars)
  <2>1. CASE Next /\ Remember
    BY <2>1 DEF Remember, Spared
  <2>2. CASE UNCHANGED historyVars
    BY <2>2 DEF historyVars, vars, Spared, Lapses
  <2>3. QED
    BY <2>1, <2>2
<1>2. \A v \in Workers : Beating(v) => Healthy(v, j)
  BY <1>1 DEF TimelyInv
\* Whoever does not act sees a polite statement.
<1>3. ASSUME Polite(w), phase'[w] = phase[w], loop'[w] = loop[w], runs'[w] = runs[w],
             inflight'[w] = inflight[w]
      PROVE  Healthy(w, j)'
  <2>1. Beating(w)
    BY <1>3 DEF Beating
  <2>2. HealthyAs(loop[w], runs[w], inflight[w], rows', w, j)
    BY <1>1, <1>2, <1>3, <2>1, PoliteKeeps
  <2>3. QED
    BY <1>3, <2>2 DEF Healthy
<1>4. ASSUME NEW v \in Workers \ {w},
             ClaimLoop(v) \/ Goroutine(v) \/ HeartbeatLoop(v) \/ Drain(v) \/ Crash(v)
      PROVE  Healthy(w, j)'
  <2>1. Elsewhere(v)
    BY <1>4, ClaimLoopKeeps, GoroutineKeeps, HeartbeatKeeps, DrainKeeps DEF Keeps
  <2>2. Polite(w)
    BY <1>4, OthersPolite
  <2>3. QED
    BY <1>3, <2>1, <2>2 DEF Elsewhere
<1>5. ASSUME (\E v \in Workers : Maintain(v)) \/ (\E k \in Jobs : Environment(k))
      PROVE  Healthy(w, j)'
  <2>1. Polite(w)
    BY <1>5, OthersPolite
  <2>2. QED
    BY <1>3, <1>5, <2>1 DEF Maintain, Environment
<1>6. CASE UNCHANGED vars
  <2>1. Polite(w)
    BY <1>6 DEF vars, table, Polite
  <2>2. QED
    BY <1>3, <1>6, <2>1 DEF vars
<1>7. ASSUME ClaimLoop(w) \/ Goroutine(w) \/ HeartbeatLoop(w)
      PROVE  Healthy(w, j)'
  <2>1. phase' = phase
    BY <1>7 DEF ClaimLoop, ClaimBegin, ClaimNothing, Send, SendCancelled, HandBack,
       LoopEnds, ClaimCommit, ClaimLost, TrackNext, Goroutine, Start, Finish, Untrack,
       HeartbeatLoop, BeatBegin, Beat, BeatFails
  <2>2. Beating(w) /\ Healthy(w, j)
    BY <1>2, <2>1 DEF Beating
  <2>3. QED
    BY <1>1, <1>7, <2>2, LoopStaysHealthy, GoroutineStaysHealthy, HeartbeatStaysHealthy
<1>8. ASSUME Drain(w) \/ Crash(w)
      PROVE  Healthy(w, j)'
  <2>1. phase \in [Workers -> Phases]
    BY DEF Inv, Typed
  <2>2. StopBegin(w)
    BY <1>8, <2>1 DEF Beating, Drain, Crash, StopReturns, ReleaseBegin, Release,
       ReleaseFails, ReleaseEnds, CancelRunContext, Exit, Ends, SetPhase
  <2>3. phase[w] = "running" /\ loop' = loop /\ runs' = runs /\ inflight' = inflight
        /\ Polite(w)
    BY <2>2 DEF StopBegin, SetPhase, Polite
  <2>4. Beating(w) /\ Healthy(w, j)
    BY <1>2, <2>3 DEF Beating
  <2>5. HealthyAs(loop[w], runs[w], inflight[w], rows', w, j)
    BY <1>1, <2>3, <2>4, PoliteKeeps
  <2>6. QED
    BY <2>3, <2>5 DEF Healthy
<1>9. QED
  BY <1>1, <1>4, <1>5, <1>6, <1>7, <1>8 DEF Next

\* The history does not restrict the pools.
LEMMA HistoryIsPool == HistorySpec => Spec
<1>1. [Next /\ Remember]_historyVars => [Next]_vars
  BY DEF historyVars
<1>2. QED
  BY <1>1, PTL DEF HistorySpec, Spec

\* So every process whose heartbeat is on time is healthy in every state, for
\* every job that was not overtaken.
LEMMA TimelyInvariance == HistorySpec => [](Inv /\ TimelyInv)
<1>1. Init => TimelyInv
  <2> SUFFICES ASSUME Init, NEW w \in Workers, NEW j \in Jobs PROVE Healthy(w, j)
    BY DEF TimelyInv
  <2>1. loop[w] = Idle /\ runs[w] = {}
    BY DEF Init
  <2>2. Idle.batch = {} /\ Idle.hand = {}
    BY DEF Idle, LoopAt
  <2>3. HeldOf(Idle, {}) = {}
    BY <2>2 DEF HeldOf
  <2>4. QED
    BY <2>1, <2>2, <2>3 DEF Healthy, HealthyAs
<1>2. Inv /\ TimelyInv /\ [Next /\ Remember]_historyVars => TimelyInv'
  BY StepTimely
<1>3. HistorySpec => []Inv
  BY HistoryIsPool, Invariance, PTL
<1>4. QED
  BY <1>1, <1>2, <1>3, PTL DEF HistorySpec

(***************************************************************************)
(* One handler per job across the fleet, whatever the size of the batch:   *)
(* while heartbeats are on time, no two pools, and no two goroutines of    *)
(* one, run the handler of the same job, unless its lease ran out in the   *)
(* tail of a batch.                                                        *)
(***************************************************************************)
THEOREM OneHandlerCorrect ==
  ASSUME Timely
  PROVE  HistorySpec => []OneHandlerPerJob
<1>1. Inv /\ TimelyInv => OneHandlerPerJob
  <2> SUFFICES ASSUME Inv, TimelyInv, NEW v \in Workers, NEW w \in Workers,
                      NEW q \in runs[v], NEW r \in runs[w], Beating(v), Beating(w),
                      q.pc = "handling", r.pc = "handling", q.claim.job = r.claim.job,
                      q.claim.job \notin overtaken
               PROVE  v = w /\ q = r
    BY DEF OneHandlerPerJob
  <2>1. q.claim \in Held(v) /\ r.claim \in Held(w)
    BY HeldIs, HeldMember
  <2>2. q.claim.worker = v /\ r.claim.worker = w /\ q.claim.job \in Jobs
    BY <2>1, HeldOwn DEF Claims
  <2>3. Healthy(v, q.claim.job) /\ Healthy(w, r.claim.job)
    BY <2>2 DEF TimelyInv
  <2>4. Current(q.claim, rows[q.claim.job]) /\ Current(r.claim, rows[r.claim.job])
    BY <2>1, <2>3, HeldIs DEF Healthy, HealthyAs
  <2>5. v = w
    BY <2>2, <2>4 DEF Current, ClaimGuard, LockedBy
  <2>6. q.claim = r.claim
    BY <2>1, <2>3, <2>5, HeldApart
  <2>7. QED
    BY <2>5, <2>6 DEF Inv, Local, Shape, LoopOK
<1>2. QED
  BY <1>1, TimelyInvariance, PTL

(***************************************************************************)
(* A run whose claim still holds is in the map while heartbeats are on     *)
(* time, whatever the size of the batch: no untrack of an earlier run of   *)
(* the job takes it out, unless the job was overtaken in a tail.           *)
(***************************************************************************)
THEOREM RunsTracked ==
  ASSUME Timely
  PROVE  HistorySpec => []CurrentRunTracked
<1>1. Inv /\ TimelyInv => CurrentRunTracked
  <2> SUFFICES ASSUME Inv, TimelyInv, NEW w \in Workers, NEW r \in runs[w], Beating(w),
                      r.pc = "handling", r.claim.job \notin overtaken
               PROVE  inflight[w][r.claim.job].tracked
    BY DEF CurrentRunTracked
  <2>1. r.claim.job \in Jobs
    BY DEF Inv, Typed, Runs, Claims
  <2>2. Healthy(w, r.claim.job)
    BY <2>1 DEF TimelyInv
  <2>3. QED
    BY <2>2 DEF Healthy, HealthyAs
<1>2. QED
  BY <1>1, TimelyInvariance, PTL

(***************************************************************************)
(* The tail is the only hole in the lease: while heartbeats are on time,   *)
(* no reaper of the fleet takes a row whose claim a process still works    *)
(* under, unless its lease ran out in the tail of a batch.                 *)
(***************************************************************************)
THEOREM OnlyTailsLost ==
  ASSUME Timely
  PROVE  HistorySpec => OnlyTailsReaped
<1> DEFINE A == \A v \in Workers : ReapRows(v) =>
                  \A w \in Workers : \A e \in Held(w) :
                    Beating(w) /\ ClaimGuard(rows[e.job], e) /\ Reapable(rows[e.job])
                      => e.job \in overtaken
<1>1. Inv /\ TimelyInv => A
  <2> SUFFICES ASSUME Inv, TimelyInv, NEW w \in Workers, NEW e \in Held(w), Beating(w),
                      Reapable(rows[e.job]), e.job \notin overtaken
               PROVE  FALSE
    OBVIOUS
  <2>1. e.job \in Jobs
    BY HeldOwn DEF Claims
  <2>2. Current(e, rows[e.job])
    BY <2>1, HeldIs DEF TimelyInv, Healthy, HealthyAs
  <2>3. QED
    BY <2>2 DEF Current, Reapable
<1>2. QED
  BY <1>1, TimelyInvariance, PTL DEF OnlyTailsReaped

-----------------------------------------------------------------------------
(***************************************************************************)
(* What the fleet is promised.  QP is Queue with its theorems, where held  *)
(* and up are read off the threads as in Q.                                *)
(***************************************************************************)
QP == INSTANCE QueueProofs WITH held <- AllHeld, up <- Up

\* Queue is the same specification under both names.
LEMMA SameQueue == Q!Spec => QP!Spec
<1>1. Q!Init => QP!Init
  BY DEF Q!Init, QP!Init, Q!InitTable, QP!InitTable, Q!NoRow, QP!NoRow
<1>2. Q!Next => QP!Next
  BY Zenon DEF
         Q!Cardinality, QP!Cardinality, Q!Next, QP!Next, Q!Abandon, QP!Abandon, Q!table,
         QP!table, Q!HeldBy, QP!HeldBy, Q!HandBack, QP!HandBack, Q!ReleaseRows, QP!ReleaseRows,
         Q!LockedBy, QP!LockedBy, Q!ReleaseRow, QP!ReleaseRow, Q!Unlocked, QP!Unlocked,
         Q!Finish, QP!Finish, Q!WriteFails, QP!WriteFails, Q!Done, QP!Done, Q!Retry, QP!Retry,
         Q!WriteRetry, QP!WriteRetry, Q!RetryRow, QP!RetryRow, Q!Record, QP!Record,
         Q!ClaimGuard, QP!ClaimGuard, Q!AttemptLimit, QP!AttemptLimit, Q!Discard, QP!Discard,
         Q!WriteDiscard, QP!WriteDiscard, Q!TerminalRow, QP!TerminalRow, Q!Cancel, QP!Cancel,
         Q!WriteCancel, QP!WriteCancel, Q!Snooze, QP!Snooze, Q!WriteSnooze, QP!WriteSnooze,
         Q!SnoozeRow, QP!SnoozeRow, Q!Succeed, QP!Succeed, Q!WriteSucceed, QP!WriteSucceed,
         Q!SucceedRow, QP!SucceedRow, Q!Crash, QP!Crash, Q!Purge, QP!Purge, Q!PurgeRows,
         QP!PurgeRows, Q!PurgeRow, QP!PurgeRow, Q!Purgeable, QP!Purgeable, Q!Terminal,
         QP!Terminal, Q!Reap, QP!Reap, Q!ReapRows, QP!ReapRows, Q!ReapRow, QP!ReapRow,
         Q!Reapable, QP!Reapable, Q!Schedule, QP!Schedule, Q!ScheduleRows, QP!ScheduleRows,
         Q!ScheduleRow, QP!ScheduleRow, Q!Schedulable, QP!Schedulable, Q!Release, QP!Release,
         Q!Heartbeat, QP!Heartbeat, Q!RenewRows, QP!RenewRows, Q!HeartbeatRow, QP!HeartbeatRow,
         Q!ClaimLost, QP!ClaimLost, Q!TakeRows, QP!TakeRows, Q!ClaimRow, QP!ClaimRow,
         Q!Claimable, QP!Claimable, Q!Claim, QP!Claim, Q!NewClaim, QP!NewClaim,
         Q!RetentionPasses, QP!RetentionPasses, Q!RowAges, QP!RowAges, Q!LeaseLapse,
         QP!LeaseLapse, Q!RowLapses, QP!RowLapses, Q!BecomeDue, QP!BecomeDue, Q!RowComesDue,
         QP!RowComesDue, Q!Enqueue, QP!Enqueue, Q!Insert, QP!Insert, Q!InsertRow, QP!InsertRow,
         Q!Live, QP!Live, Q!Waiting, QP!Waiting
<1>3. [Q!Next]_(Q!vars) => [QP!Next]_(QP!vars)
  BY <1>2 DEF Q!vars, QP!vars
<1> QED
  BY <1>1, <1>3, PTL DEF Q!Spec, QP!Spec

\* So every run of the pools is a run of the queue whose theorems are proved.
LEMMA PoolsAreQueue == Spec => QP!Spec
BY QueueRefinement, SameQueue, PTL DEF ImplementsQueue

(***************************************************************************)
(* The claim guard fences off the threads of every process: an outcome     *)
(* that matches the row is written under the row's own claim, unless the   *)
(* process had itself handed the job back, whatever a pool's loop, its     *)
(* goroutines, its heartbeat and its Stop do in the meantime.              *)
(***************************************************************************)
THEOREM FleetFenced == Spec => []QP!FencedByAttempt
<1>1. QP!Spec => []QP!FencedByAttempt
  BY QP!FencingCorrect, JobStoreAssumption, JobTableAssumption, PoolAssumption
<1> QED
  BY <1>1, PoolsAreQueue, PTL

(***************************************************************************)
(* However the threads of the fleet interleave, a job's attempts stay      *)
(* within its budget and its error history accounts for each of them once. *)
(***************************************************************************)
THEOREM FleetBudget == Spec => [](QP!AttemptBudget /\ QP!ErrorHistory)
<1>1. QP!Spec => []QP!AttemptBudget
  BY QP!AttemptBudgetCorrect, JobStoreAssumption, JobTableAssumption, PoolAssumption
<1>2. QP!Spec => []QP!ErrorHistory
  BY QP!ErrorHistoryCorrect, JobStoreAssumption, JobTableAssumption, PoolAssumption
<1> QED
  BY <1>1, <1>2, PoolsAreQueue, PTL

(***************************************************************************)
(* And the rows stay as the statements need them: the running ones, and no *)
(* others, are locked and leased, and one job is live per unique key.      *)
(***************************************************************************)
THEOREM FleetTable == Spec => [](QP!LeaseIffRunning /\ QP!OneLiveJobPerKey)
<1>1. QP!Spec => []QP!LeaseIffRunning
  BY QP!LeaseCorrect, JobStoreAssumption, JobTableAssumption, PoolAssumption
<1>2. QP!Spec => []QP!OneLiveJobPerKey
  BY QP!UniqueKeyCorrect, JobStoreAssumption, JobTableAssumption, PoolAssumption
<1> QED
  BY <1>1, <1>2, PoolsAreQueue, PTL

(***************************************************************************)
(* The threads of the pools implement what a job's owner is promised: from *)
(* Pool over Queue to JobLifecycle.                                        *)
(***************************************************************************)
THEOREM FleetLifecycle == Spec => QP!ImplementsLifecycle
<1>1. QP!Spec => QP!ImplementsLifecycle
  BY QP!LifecycleRefinement, JobStoreAssumption, JobTableAssumption, PoolAssumption
<1> QED
  BY <1>1, PoolsAreQueue, PTL
=============================================================================
