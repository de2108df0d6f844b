--------------------------- MODULE DeliveryProofs ---------------------------
(***************************************************************************)
(* Proofs about Delivery, for every set of jobs, every retry and breaker   *)
(* setting that validate accepts: the circuit, the retry loop and the      *)
(* snoozes never charge a job for what it did not do, nor open for our own *)
(* faults, nor send a job back too early.                                  *)
(*                                                                         *)
(* What is known of one job is told of values, its record, its run, its    *)
(* failures, its refusals and the breaker, so that what a step does to     *)
(* them is a lemma without primes.                                         *)
(***************************************************************************)
EXTENDS Delivery, TLAPS

States   == {"closed", "open", "half-open"}
Breakers == [state : States, ok : Nat, failed : Nat, permits : Nat, left : Nat]
JobRecords == [state : {"waiting", "running"} \cup Final, attempt : Nat, wait : Nat]
RunRecords == [pc : {"none", "attempt", "sent", "refused"}, tries : Nat, cancelled : BOOLEAN]

Types ==
  /\ breaker \in Breakers
  /\ jobs \in [Jobs -> JobRecords]
  /\ runs \in [Jobs -> RunRecords]
  /\ failures \in [Jobs -> Nat]
  /\ refusals \in [Jobs -> Nat]

\* A job and its handler: a handler runs while the job does, within the limits
\* of attempts and tries.
Matched(job, r) ==
  /\ r.pc = "none" <=> job.state # "running"
  /\ job.state = "waiting" => job.attempt < MaxAttempts
  /\ job.state = "running" => job.attempt \in 1..MaxAttempts
  /\ job.state = "discarded" => job.attempt = MaxAttempts
  /\ r.pc \in {"attempt", "refused"} => r.tries < MaxTries
  /\ r.pc = "sent" => r.tries \in 1..MaxTries

\* The tries of the present run that have failed.
Tried(r) == IF r.pc = "sent" THEN r.tries - 1 ELSE r.tries

\* The failures the job's record stands for: every attempt that was not given
\* back cost all its tries.
Paid(job, r) ==
  IF job.state = "running" THEN (job.attempt - 1) * MaxTries + Tried(r)
  ELSE IF job.state \in {"waiting", "discarded"} THEN job.attempt * MaxTries ELSE 0

Charged(job, r, f) == Paid(job, r) <= f /\ f <= MaxAttempts * MaxTries

\* RefusedOnce, made inductive: while the opening that refused a job lasts, the
\* job is on its way to the snooze or waits at least as long.
Held(b, job, r, n) ==
  /\ n \in {0, 1}
  /\ b.state = "open" /\ b.left > 0 /\ n = 1 =>
       \/ r.pc = "refused"
       \/ r.pc = "none" /\ (job.state = "waiting" => job.wait >= b.left)

JobOK(b, job, r, f, n) == Matched(job, r) /\ Charged(job, r, f) /\ Held(b, job, r, n)

\* Without an outage and without a cancelled handler nothing ever failed.
Calm(b, up, R) ==
  /\ up = "up" /\ b.state = "closed" /\ b.failed = 0
  /\ \A j \in Jobs : ~R[j].cancelled

Inv ==
  /\ Types
  /\ \A j \in Jobs : JobOK(breaker, jobs[j], runs[j], failures[j], refusals[j])
  /\ ~everDown /\ ~everCancelled => Calm(breaker, receiver, runs)

-----------------------------------------------------------------------------
(* Constants and arithmetic.                                               *)

\* What the assumptions say of each constant the proofs use.
LEMMA Limits ==
  /\ MaxAttempts \in Nat /\ MaxAttempts >= 1 /\ MaxTries \in Nat /\ MaxTries >= 1
  /\ Timeout \in Nat
  /\ BackoffBase \in Nat /\ BackoffMax \in Nat
  /\ RateNum \in Nat /\ RateNum >= 1 /\ RateDen \in Nat
  /\ MinThroughput \in Nat /\ MinThroughput >= 1
  /\ OpenDuration \in Nat
  /\ HalfOpenMaxCalls \in Nat /\ HalfOpenMaxCalls >= 1
BY DeliveryAssumption, BreakerAssumption DEF RetryValid, SettingsValid

\* A product grows with its first factor.
LEMMA ProductGrows ==
  ASSUME NEW m \in Nat, NEW n \in Nat, NEW x \in Nat, m <= n
  PROVE  m * x \in Nat /\ n * x \in Nat /\ m * x <= n * x
OBVIOUS

\* One attempt costs MaxTries failures.
LEMMA OneAttempt ==
  ASSUME NEW a \in Nat, a >= 1
  PROVE  (a - 1) * MaxTries \in Nat /\ a * MaxTries = (a - 1) * MaxTries + MaxTries
<1>1. PICK m \in Nat : a = m + 1
  <2>1. a - 1 \in Nat /\ a = (a - 1) + 1
    OBVIOUS
  <2> QED
    BY <2>1
<1>2. m * MaxTries \in Nat /\ (m + 1) * MaxTries = m * MaxTries + MaxTries
  BY Limits
<1>3. a - 1 = m
  BY <1>1
<1> QED
  BY <1>1, <1>2, <1>3

-----------------------------------------------------------------------------
(* The breaker.                                                            *)

\* A call that is admitted ends an opening, or leaves it as it is.
LEMMA AdmittedBreaker ==
  ASSUME NEW b \in Breakers, Admits(b)
  PROVE  /\ Admitted(b) \in Breakers
         /\ b.state = "closed" => Admitted(b) = b
         /\ Admitted(b).state = "open" => b.state = "open" /\ Admitted(b).left = b.left
<1>1. CASE b.state = "closed"
  BY <1>1 DEF Admitted
<1>2. CASE b.state # "closed"
  <2>1. Probing(b) \in Breakers /\ Probing(b).permits > 0
    BY <1>2, Limits DEF Admits, Probing, HalfOpen, Closed, Breakers, States
  <2>2. Probing(b).state = "open" => Probing(b) = b /\ b.state = "open"
    BY DEF Probing, HalfOpen, Closed
  <2>3. Admitted(b) = [Probing(b) EXCEPT !.permits = @ - 1]
    BY <1>2 DEF Admitted
  <2> HIDE DEF Probing
  <2>4. /\ Admitted(b) \in Breakers
        /\ Admitted(b).state = Probing(b).state /\ Admitted(b).left = Probing(b).left
    BY <2>1, <2>3 DEF Breakers
  <2> QED
    BY <1>2, <2>2, <2>4
<1> QED
  BY <1>1, <1>2

\* A refusal by an open circuit comes before its delay has passed.
LEMMA RefusingBreaker ==
  ASSUME NEW b \in Breakers, ~Admits(b), b.state = "open"
  PROVE  b.left > 0
BY Limits DEF Admits, Probing, HalfOpen, Closed, Breakers

\* A tick takes one from the delay and changes nothing else.
LEMMA PassedBreaker ==
  ASSUME NEW b \in Breakers
  PROVE  /\ Passed(b) \in Breakers
         /\ Passed(b).state = b.state /\ Passed(b).failed = b.failed
         /\ Passed(b).left = IF b.left > 0 THEN b.left - 1 ELSE 0
BY DEF Passed, Breakers

\* The breakers a change of state starts from.
LEMMA FreshBreakers ==
  /\ Closed \in Breakers /\ Opened \in Breakers
  /\ Closed.state = "closed" /\ Closed.failed = 0
BY Limits DEF Closed, Opened, Breakers, States

\* The counts of a breaker may be set to any numbers.
WithCounts(b, s, f) == [b EXCEPT !.ok = s, !.failed = f]

\* That changes nothing else of it.
LEMMA SetCounts ==
  ASSUME NEW b \in Breakers, NEW s \in Nat, NEW f \in Nat
  PROVE  /\ WithCounts(b, s, f) \in Breakers
         /\ WithCounts(b, s, f).state = b.state
         /\ WithCounts(b, s, f).failed = f
<1>1. WithCounts(b, s, f) \in Breakers
  BY DEF WithCounts, Breakers
<1>2. WithCounts(b, s, f).state = b.state
  BY DEF WithCounts, Breakers
<1>3. WithCounts(b, s, f).failed = f
  BY DEF WithCounts, Breakers
<1> QED
  BY <1>1, <1>2, <1>3

\* Counting a result changes the counts.
LEMMA CountedBreaker ==
  ASSUME NEW b \in Breakers, NEW failure \in BOOLEAN
  PROVE  /\ Counted(b, failure) \in Breakers
         /\ Counted(b, failure).state = b.state
         /\ ~failure => Counted(b, failure).failed = b.failed
<1>1. Counted(b, failure) = WithCounts(b, IF failure THEN b.ok ELSE b.ok + 1,
                                          IF failure THEN b.failed + 1 ELSE b.failed)
  BY DEF Counted, WithCounts
<1>2. PICK s : s = IF failure THEN b.ok ELSE b.ok + 1
  OBVIOUS
<1>3. PICK f : f = IF failure THEN b.failed + 1 ELSE b.failed
  OBVIOUS
<1>4. s \in Nat /\ f \in Nat /\ (~failure => f = b.failed)
  BY <1>2, <1>3 DEF Breakers
<1>5. Counted(b, failure) = WithCounts(b, s, f)
  BY <1>1, <1>2, <1>3
<1> QED
  BY <1>4, <1>5, SetCounts

\* A window without failures does not trip.
LEMMA NoTrip ==
  ASSUME NEW ok \in Nat
  PROVE  ~Trips(ok, 0)
<1> SUFFICES ASSUME ok >= MinThroughput, 0 * RateDen >= RateNum * ok
             PROVE  FALSE
  BY Limits DEF Trips
<1>1. ok >= 1
  BY Limits
<1>2. \A m, n \in Nat : m >= 1 /\ n >= 1 => m * n >= 1
  OBVIOUS
<1>3. RateNum * ok >= 1
  BY <1>1, <1>2, Limits
<1>4. RateNum * ok \in Nat /\ 0 * RateDen = 0
  BY Limits
<1> QED
  BY <1>3, <1>4

\* A closed breaker whose window may have moved on.
Kept(b) == {WithCounts(b, s, f) : s \in 0..b.ok, f \in 0..b.failed}

\* The breakers that RecordedClosed counts a result in.
LEMMA RecordedInKept ==
  ASSUME NEW b, NEW failure
  PROVE  RecordedClosed(b, failure)
           = {IF Trips(Counted(k, failure).ok, Counted(k, failure).failed)
              THEN Opened ELSE Counted(k, failure) :
                k \in {r \in Kept(b) : r.ok + r.failed < WindowCap}}
BY SMT DEF RecordedClosed, Kept, WithCounts

\* The window moves on by forgetting some of the counts.
LEMMA KeptBreaker ==
  ASSUME NEW b \in Breakers, NEW k \in Kept(b)
  PROVE  /\ k \in Breakers /\ k.state = b.state
         /\ b.failed = 0 => k.failed = 0
<1>1. PICK s \in 0..b.ok, f \in 0..b.failed : k = WithCounts(b, s, f)
  BY SMT DEF Kept
<1>2. s \in Nat /\ f \in Nat /\ (b.failed = 0 => f = 0)
  BY DEF Breakers
<1> QED
  BY <1>1, <1>2, SetCounts

\* What a result makes of a closed breaker.
LEMMA RecordedClosedBreaker ==
  ASSUME NEW b \in Breakers, NEW failure \in BOOLEAN, NEW r \in RecordedClosed(b, failure)
  PROVE  /\ r \in Breakers
         /\ ~failure /\ b.state = "closed" /\ b.failed = 0 => r.state = "closed" /\ r.failed = 0
<1>1. PICK k \in Kept(b) : r = IF Trips(Counted(k, failure).ok, Counted(k, failure).failed)
                              THEN Opened ELSE Counted(k, failure)
  BY RecordedInKept, Zenon
<1>2. PICK c : c = Counted(k, failure)
  OBVIOUS
<1>3. r = IF Trips(c.ok, c.failed) THEN Opened ELSE c
  BY <1>1, <1>2
<1>4. /\ c \in Breakers /\ c.state = b.state
      /\ ~failure /\ b.failed = 0 => c.failed = 0
  BY <1>2, KeptBreaker, CountedBreaker
<1>5. r \in Breakers
  BY <1>3, <1>4, FreshBreakers
<1>6. ASSUME ~failure, b.state = "closed", b.failed = 0
      PROVE  r.state = "closed" /\ r.failed = 0
  <2>1. c.failed = 0 /\ c.state = "closed"
    BY <1>4, <1>6
  <2>2. c.ok \in Nat
    BY <1>4 DEF Breakers
  <2>3. ~Trips(c.ok, c.failed)
    BY <2>1, <2>2, NoTrip
  <2> QED
    BY <1>3, <2>1, <2>3
<1> QED
  BY <1>5, <1>6

\* What a result makes of any breaker: nothing of an open one, and no failure
\* of a closed one that has none.
LEMMA RecordedBreaker ==
  ASSUME NEW b \in Breakers, NEW failure \in BOOLEAN, NEW r \in Recorded(b, failure)
  PROVE  /\ r \in Breakers
         /\ b.state = "open" => r = b
         /\ ~failure /\ b.state = "closed" /\ b.failed = 0 => r.state = "closed" /\ r.failed = 0
<1>1. CASE b.state = "closed"
  BY <1>1, RecordedClosedBreaker DEF Recorded
<1>2. CASE b.state = "half-open"
  <2>1. r = RecordedHalfOpen(b, failure)
    BY <1>2 DEF Recorded
  <2>2. PICK c \in Breakers : c = Counted(b, failure)
    BY CountedBreaker
  <2>3. [c EXCEPT !.permits = @ + 1] \in Breakers
    BY DEF Breakers
  <2>4. r \in Breakers
    BY <2>1, <2>2, <2>3, FreshBreakers DEF RecordedHalfOpen
  <2> QED
    BY <1>2, <2>4
<1>3. CASE b.state = "open"
  BY <1>3 DEF Recorded
<1> QED
  BY <1>1, <1>2, <1>3 DEF Breakers, States

-----------------------------------------------------------------------------
(* Jobs.                                                                   *)

\* A backoff is a number of ticks.
LEMMA Delays ==
  ASSUME NEW a \in Nat, NEW d \in For(a)
  PROVE  d \in Nat
<1>1. Greatest(a, 1) \in Nat
  BY DEF Greatest
<1>2. \A m \in Nat : BackoffBase * m * m * m * m \in Nat
  BY Limits
<1>3. Raw(a) \in Nat
  BY <1>1, <1>2, Limits DEF Raw, Least
<1>4. Raw(a) \div 2 \in Nat
  BY <1>3
<1> QED
  BY <1>3, <1>4, DeliveryAssumption DEF For

\* A snooze gives the attempt back.
LEMMA SnoozedJob ==
  ASSUME Types, NEW j \in Jobs, NEW delay \in Nat, jobs[j].attempt >= 1
  PROVE  /\ Snoozed(j, delay) \in JobRecords
         /\ Snoozed(j, delay).state = "waiting"
         /\ Snoozed(j, delay).attempt = jobs[j].attempt - 1
         /\ Snoozed(j, delay).wait = delay
<1>1. PICK job \in JobRecords : job = jobs[j]
  BY DEF Types
<1>2. PICK a \in Nat : a = job.attempt - 1
  BY <1>1 DEF JobRecords
<1>3. Snoozed(j, delay) = [job EXCEPT !.state = "waiting", !.attempt = a, !.wait = delay]
  BY <1>1, <1>2 DEF Snoozed
<1>4. [job EXCEPT !.state = "waiting", !.attempt = a, !.wait = delay] \in JobRecords
  BY DEF JobRecords
<1>5. [job EXCEPT !.state = "waiting", !.attempt = a, !.wait = delay].state = "waiting"
  BY DEF JobRecords
<1>6. [job EXCEPT !.state = "waiting", !.attempt = a, !.wait = delay].attempt = a
  BY DEF JobRecords
<1>7. [job EXCEPT !.state = "waiting", !.attempt = a, !.wait = delay].wait = delay
  BY DEF JobRecords
<1> QED
  BY <1>1, <1>2, <1>3, <1>4, <1>5, <1>6, <1>7

\* A claim takes an attempt.
LEMMA ClaimedJob ==
  ASSUME NEW job \in JobRecords
  PROVE  /\ [job EXCEPT !.state = "running", !.attempt = @ + 1] \in JobRecords
         /\ [job EXCEPT !.state = "running", !.attempt = @ + 1].state = "running"
         /\ [job EXCEPT !.state = "running", !.attempt = @ + 1].attempt = job.attempt + 1
<1>1. PICK a \in Nat : a = job.attempt + 1
  BY DEF JobRecords
<1>2. [job EXCEPT !.state = "running", !.attempt = @ + 1]
        = [job EXCEPT !.state = "running", !.attempt = a]
  BY <1>1
<1>3. [job EXCEPT !.state = "running", !.attempt = a] \in JobRecords
  BY DEF JobRecords
<1>4. [job EXCEPT !.state = "running", !.attempt = a].state = "running"
  BY DEF JobRecords
<1>5. [job EXCEPT !.state = "running", !.attempt = a].attempt = a
  BY DEF JobRecords
<1> QED
  BY <1>1, <1>2, <1>3, <1>4, <1>5

\* What a job becomes when its handler's result is written: its attempt stays,
\* and it is discarded only for a failure after its last attempt.
LEMMA WrittenJob ==
  ASSUME Types, NEW j \in Jobs, NEW err, NEW w \in Written(j, err)
  PROVE  /\ w \in JobRecords
         /\ w.attempt = jobs[j].attempt
         /\ w.state \in {"succeeded", "cancelled", "discarded", "waiting"}
         /\ w.state = "discarded" => Retryable(err) /\ w.attempt >= MaxAttempts
         /\ w.state = "waiting" => Retryable(err) /\ w.attempt < MaxAttempts
<1>1. PICK job \in JobRecords : job = jobs[j]
  BY DEF Types
<1>2. CASE err = "nil"
  <2>1. w = [job EXCEPT !.state = "succeeded"]
    BY <1>1, <1>2 DEF Written, Retryable
  <2> QED
    BY <1>1, <2>1 DEF JobRecords, Final
<1>3. CASE err # "nil" /\ ~Retryable(err)
  <2>1. w = [job EXCEPT !.state = "cancelled"]
    BY <1>1, <1>3 DEF Written
  <2> QED
    BY <1>1, <2>1 DEF JobRecords, Final
<1>4. CASE Retryable(err) /\ job.attempt >= MaxAttempts
  <2>1. w = [job EXCEPT !.state = "discarded"]
    BY <1>1, <1>4 DEF Written, Retryable
  <2> QED
    BY <1>1, <1>4, <2>1 DEF JobRecords, Final
<1>5. CASE Retryable(err) /\ ~(job.attempt >= MaxAttempts)
  <2>0. w \in {[jobs[j] EXCEPT !.state = "waiting", !.wait = d] : d \in For(jobs[j].attempt)}
    <3>1. err # "nil" /\ Retryable(err) /\ ~(jobs[j].attempt >= MaxAttempts)
      BY <1>1, <1>5 DEF Retryable
    <3> QED
      BY <3>1, Zenon DEF Written
  <2>1. PICK d \in For(job.attempt) : w = [job EXCEPT !.state = "waiting", !.wait = d]
    BY <1>1, <2>0, Zenon
  <2>2. d \in Nat
    BY Delays DEF JobRecords
  <2>3. [job EXCEPT !.state = "waiting", !.wait = d] \in JobRecords
    BY <2>2 DEF JobRecords
  <2>4. [job EXCEPT !.state = "waiting", !.wait = d].state = "waiting"
    BY DEF JobRecords
  <2>5. [job EXCEPT !.state = "waiting", !.wait = d].attempt = job.attempt
    BY DEF JobRecords
  <2>6. job.attempt < MaxAttempts
    BY <1>5, Limits DEF JobRecords
  <2> QED
    BY <1>1, <1>5, <2>1, <2>3, <2>4, <2>5, <2>6
<1> QED
  BY <1>2, <1>3, <1>4, <1>5

-----------------------------------------------------------------------------
(* Errors.                                                                 *)

\* A call either fails by the receiver's fault, which is retried, or not.
LEMMA CallErrors ==
  ASSUME NEW j \in Jobs, NEW response \in Responses(j)
  PROVE  /\ IsDependencyFailure(ErrorOf(response)) \in BOOLEAN
         /\ Retryable(ErrorOf(response)) => IsDependencyFailure(ErrorOf(response))
BY DEF IsDependencyFailure, Retryable

\* A receiver that is up answers a handler that is not cancelled.
LEMMA CalmErrors ==
  ASSUME NEW j \in Jobs, NEW response \in Responses(j), receiver = "up", ~runs[j].cancelled
  PROVE  ~IsDependencyFailure(ErrorOf(response))
<1>1. response \in {"4xx", "2xx"}
  BY DEF Responses
<1> QED
  BY <1>1 DEF ErrorOf, Classify, IsDependencyFailure

-----------------------------------------------------------------------------
(* One job.                                                                *)

\* An opening that goes on holds whom it held.
LEMMA HeldKept ==
  ASSUME NEW b, NEW c, NEW job, NEW r, NEW n, Held(b, job, r, n),
         c.state = "open" /\ c.left > 0 => b.state = "open" /\ c.left = b.left
  PROVE  Held(c, job, r, n)
BY DEF Held

\* A step of job j leaves the others as they are, when the opening goes on or
\* a new one has refused nobody yet.
LEMMA Others ==
  ASSUME Inv, NEW j \in Jobs,
         \A k \in Jobs \ {j} :
           /\ jobs'[k] = jobs[k] /\ runs'[k] = runs[k] /\ failures'[k] = failures[k]
           /\ \/ refusals'[k] = 0
              \/ /\ refusals'[k] = refusals[k]
                 /\ breaker'.state = "open" /\ breaker'.left > 0 =>
                      breaker.state = "open" /\ breaker'.left = breaker.left,
         JobOK(breaker', jobs'[j], runs'[j], failures'[j], refusals'[j])
  PROVE  \A k \in Jobs : JobOK(breaker', jobs'[k], runs'[k], failures'[k], refusals'[k])
<1> SUFFICES ASSUME NEW k \in Jobs \ {j}
             PROVE  JobOK(breaker', jobs'[k], runs'[k], failures'[k], refusals'[k])
  OBVIOUS
<1>1. JobOK(breaker, jobs[k], runs[k], failures[k], refusals[k])
  BY DEF Inv
<1>2. CASE refusals'[k] = 0
  BY <1>1, <1>2 DEF JobOK, Held
<1>3. CASE refusals'[k] # 0
  BY <1>1, <1>3, HeldKept DEF JobOK
<1> QED
  BY <1>2, <1>3

\* A due job whose handler starts has paid for the attempts before.
LEMMA StartedJob ==
  ASSUME NEW b \in Breakers, NEW job \in JobRecords, NEW r \in RunRecords, NEW f \in Nat, NEW n,
         JobOK(b, job, r, f, n), job.state = "waiting", job.wait = 0,
         NEW c \in JobRecords, c.state = "running", c.attempt = job.attempt + 1,
         NEW q \in RunRecords, q.pc = "attempt", q.tries = 0
  PROVE  JobOK(b, c, q, f, n)
<1>1. Matched(c, q)
  BY Limits DEF JobOK, Matched, JobRecords
<1>2. Charged(c, q, f)
  <2>1. Paid(c, q) = (c.attempt - 1) * MaxTries + 0
    BY DEF Paid, Tried
  <2>2. c.attempt - 1 = job.attempt
    BY DEF JobRecords
  <2>3. job.attempt * MaxTries \in Nat
    BY Limits DEF JobRecords
  <2>4. Paid(c, q) = job.attempt * MaxTries
    BY <2>1, <2>2, <2>3
  <2> QED
    BY <2>4 DEF JobOK, Charged, Paid
<1>3. Held(b, c, q, n)
  <2>1. r.pc = "none"
    BY DEF JobOK, Matched
  <2> QED
    BY <2>1 DEF JobOK, Held, Breakers
<1> QED
  BY <1>1, <1>2, <1>3 DEF JobOK

\* A job that ends at once owes nothing.
LEMMA EndedJob ==
  ASSUME NEW b \in Breakers, NEW job \in JobRecords, NEW r \in RunRecords, NEW f \in Nat, NEW n,
         JobOK(b, job, r, f, n),
         NEW c \in JobRecords, c.state \in {"succeeded", "cancelled"},
         NEW q \in RunRecords, q.pc = "none"
  PROVE  Matched(c, q) /\ Charged(c, q, f)
BY DEF JobOK, Matched, Charged, Paid

\* A try is made: its failure is not known yet.
LEMMA SentJob ==
  ASSUME NEW job \in JobRecords, NEW r \in RunRecords, NEW f \in Nat,
         Matched(job, r), Charged(job, r, f), r.pc = "attempt",
         NEW q \in RunRecords, q.pc = "sent", q.tries = r.tries + 1
  PROVE  Matched(job, q) /\ Charged(job, q, f)
<1>1. Matched(job, q)
  BY Limits DEF Matched, RunRecords
<1>2. Tried(q) = Tried(r)
  BY DEF Tried, RunRecords
<1> QED
  BY <1>1, <1>2 DEF Charged, Paid

\* A snooze costs nothing.
LEMMA SnoozedCharge ==
  ASSUME NEW job \in JobRecords, NEW r \in RunRecords, NEW f \in Nat,
         Matched(job, r), Charged(job, r, f), r.pc # "none",
         NEW c \in JobRecords, c.state = "waiting", c.attempt = job.attempt - 1,
         NEW q \in RunRecords, q.pc = "none"
  PROVE  Matched(c, q) /\ Charged(c, q, f)
<1>1. job.state = "running" /\ job.attempt \in 1..MaxAttempts
  BY DEF Matched
<1>2. Matched(c, q)
  BY <1>1, Limits DEF Matched, JobRecords
<1>3. (job.attempt - 1) * MaxTries \in Nat
  BY <1>1, OneAttempt
<1>4. Tried(r) \in Nat
  BY DEF Matched, Tried, RunRecords
<1>5. Paid(c, q) = (job.attempt - 1) * MaxTries
  BY DEF Paid
<1>6. Paid(job, r) = (job.attempt - 1) * MaxTries + Tried(r)
  BY <1>1 DEF Paid
<1>7. Charged(c, q, f)
  BY <1>3, <1>4, <1>5, <1>6, Limits DEF Charged
<1> QED
  BY <1>2, <1>7

\* A failed call is counted, and all it makes of the job's account is covered.
LEMMA FailureCounted ==
  ASSUME NEW job \in JobRecords, NEW r \in RunRecords, NEW f \in Nat,
         Matched(job, r), Charged(job, r, f), r.pc = "sent",
         NEW g, g = Least(f + 1, MaxAttempts * MaxTries)
  PROVE  /\ g \in Nat /\ g <= MaxAttempts * MaxTries
         /\ (job.attempt - 1) * MaxTries \in Nat
         /\ (job.attempt - 1) * MaxTries + r.tries <= g
<1>1. job.state = "running" /\ job.attempt \in 1..MaxAttempts /\ r.tries \in 1..MaxTries
  BY DEF Matched
<1>2. PICK m \in Nat : m = (job.attempt - 1) * MaxTries
  BY <1>1, OneAttempt
<1>3. PICK cap \in Nat : cap = MaxAttempts * MaxTries
  BY Limits
<1>4. job.attempt * MaxTries = m + MaxTries
  BY <1>1, <1>2, OneAttempt
<1>5. job.attempt * MaxTries <= cap
  BY <1>1, <1>3, ProductGrows, Limits
<1>6. m + (r.tries - 1) <= f /\ f <= cap
  BY <1>1, <1>2, <1>3 DEF Charged, Paid, Tried
<1>7. g = IF f + 1 < cap THEN f + 1 ELSE cap
  BY <1>3 DEF Least
<1>8. m + r.tries <= cap
  BY <1>1, <1>4, <1>5, Limits
<1>9. m + r.tries <= g /\ g \in Nat /\ g <= cap
  BY <1>1, <1>6, <1>7, <1>8
<1> QED
  BY <1>2, <1>3, <1>9

\* After a failed try that was not the last one, the run goes on.
LEMMA RetriedJob ==
  ASSUME NEW job \in JobRecords, NEW r \in RunRecords, NEW f \in Nat,
         Matched(job, r), Charged(job, r, f), r.pc = "sent", r.tries < MaxTries,
         NEW g, g = Least(f + 1, MaxAttempts * MaxTries),
         NEW q \in RunRecords, q.pc = "attempt", q.tries = r.tries
  PROVE  Matched(job, q) /\ Charged(job, q, g)
<1>1. Matched(job, q)
  BY DEF Matched
<1>2. job.state = "running"
  BY DEF Matched
<1>3. Paid(job, q) = (job.attempt - 1) * MaxTries + r.tries
  BY <1>2 DEF Paid, Tried
<1> QED
  BY <1>1, <1>3, FailureCounted DEF Charged

\* After the last try the attempt is spent, and it has cost all its tries.
LEMMA SpentJob ==
  ASSUME NEW job \in JobRecords, NEW r \in RunRecords, NEW f \in Nat,
         Matched(job, r), Charged(job, r, f), r.pc = "sent", r.tries >= MaxTries,
         NEW g, g = Least(f + 1, MaxAttempts * MaxTries),
         NEW c \in JobRecords, c.attempt = job.attempt,
         \/ c.state = "waiting" /\ c.attempt < MaxAttempts
         \/ c.state = "discarded" /\ c.attempt >= MaxAttempts,
         NEW q \in RunRecords, q.pc = "none"
  PROVE  Matched(c, q) /\ Charged(c, q, g)
<1>1. job.attempt \in 1..MaxAttempts /\ r.tries = MaxTries
  BY Limits DEF Matched, RunRecords
<1>2. Matched(c, q)
  BY <1>1, Limits DEF Matched
<1>3. Paid(c, q) = job.attempt * MaxTries
  BY DEF Paid
<1>4. job.attempt * MaxTries = (job.attempt - 1) * MaxTries + MaxTries
  BY <1>1, OneAttempt
<1> QED
  BY <1>1, <1>2, <1>3, <1>4, FailureCounted DEF Charged

\* A snooze after a failed call keeps the failure and gives the attempt back.
LEMMA ShedJob ==
  ASSUME NEW job \in JobRecords, NEW r \in RunRecords, NEW f \in Nat,
         Matched(job, r), Charged(job, r, f), r.pc = "sent",
         NEW g, g = Least(f + 1, MaxAttempts * MaxTries),
         NEW c \in JobRecords, c.state = "waiting", c.attempt = job.attempt - 1,
         NEW q \in RunRecords, q.pc = "none"
  PROVE  Matched(c, q) /\ Charged(c, q, g)
<1>1. job.attempt \in 1..MaxAttempts /\ r.tries \in 1..MaxTries
  BY DEF Matched
<1>2. Matched(c, q)
  BY <1>1, Limits DEF Matched, JobRecords
<1>3. Paid(c, q) = (job.attempt - 1) * MaxTries
  BY DEF Paid
<1>4. Paid(c, q) \in Nat /\ Paid(c, q) + r.tries <= g /\ g \in Nat /\ g <= MaxAttempts * MaxTries
  BY <1>3, FailureCounted
<1>5. Paid(c, q) <= g
  BY <1>1, <1>4, Limits
<1> QED
  BY <1>2, <1>4, <1>5 DEF Charged

-----------------------------------------------------------------------------
(* Steps.                                                                  *)

\* A job without a handler.
LEMMA NoRunFields ==
  /\ NoRun \in RunRecords /\ NoRun.pc = "none" /\ ~NoRun.cancelled
  /\ [NoRun EXCEPT !.pc = "attempt"] \in RunRecords
  /\ [NoRun EXCEPT !.pc = "attempt"].pc = "attempt"
  /\ [NoRun EXCEPT !.pc = "attempt"].tries = 0
  /\ ~[NoRun EXCEPT !.pc = "attempt"].cancelled
BY DEF NoRun, RunRecords

\* What is known of one job.
LEMMA OneJob ==
  ASSUME Inv, NEW j \in Jobs
  PROVE  /\ jobs[j] \in JobRecords /\ runs[j] \in RunRecords
         /\ failures[j] \in Nat /\ refusals[j] \in Nat /\ breaker \in Breakers
         /\ JobOK(breaker, jobs[j], runs[j], failures[j], refusals[j])
         /\ Matched(jobs[j], runs[j]) /\ Charged(jobs[j], runs[j], failures[j])
         /\ Held(breaker, jobs[j], runs[j], refusals[j])
BY DEF Inv, Types, JobOK

\* The handler starts, or ends before its first call.
LEMMA HandleInv ==
  ASSUME Inv, NEW j \in Jobs, Handle(j)
  PROVE  Inv'
<1>1. PICK c : c = [jobs[j] EXCEPT !.state = "running", !.attempt = @ + 1]
  OBVIOUS
<1>2. c \in JobRecords /\ c.state = "running" /\ c.attempt = jobs[j].attempt + 1
  BY <1>1, OneJob, ClaimedJob
<1>3. jobs[j].state = "waiting" /\ jobs[j].wait = 0
  BY DEF Handle
<1>4. UNCHANGED <<receiver, breaker, everDown, everCancelled, failures, refusals>>
  BY DEF Handle
<1>5. runs[j].pc = "none"
  BY <1>3, OneJob DEF Matched
<1>6. CASE j \in Malformed \/ ~configured
  <2>1. PICK s \in {"cancelled", "succeeded"} : jobs' = [jobs EXCEPT ![j] = [c EXCEPT !.state = s]]
    BY <1>1, <1>6 DEF Handle
  <2>2. runs' = runs
    BY <1>6 DEF Handle
  <2>3. [c EXCEPT !.state = s] \in JobRecords /\ [c EXCEPT !.state = s].state = s
    BY <1>2 DEF JobRecords, Final
  <2>4. Types'
    BY <1>4, <2>1, <2>2, <2>3 DEF Inv, Types
  <2>5. jobs'[j] = [c EXCEPT !.state = s]
    BY <2>1 DEF Inv, Types
  <2>6. Matched(jobs'[j], runs[j]) /\ Charged(jobs'[j], runs[j], failures[j])
    BY <1>5, <2>3, <2>5, OneJob, EndedJob
  <2>7. Held(breaker, jobs'[j], runs[j], refusals[j])
    BY <1>5, <2>3, <2>5, OneJob DEF Held
  <2>8. JobOK(breaker', jobs'[j], runs'[j], failures'[j], refusals'[j])
    BY <1>4, <2>2, <2>6, <2>7 DEF JobOK
  <2>9. \A k \in Jobs \ {j} : jobs'[k] = jobs[k]
    BY <2>1 DEF Inv, Types
  <2>10. \A k \in Jobs : JobOK(breaker', jobs'[k], runs'[k], failures'[k], refusals'[k])
    BY <1>4, <2>2, <2>8, <2>9, Others
  <2> QED
    BY <1>4, <2>2, <2>4, <2>10 DEF Inv, Calm
<1>7. CASE ~(j \in Malformed \/ ~configured)
  <2>1. /\ jobs' = [jobs EXCEPT ![j] = c]
        /\ runs' = [runs EXCEPT ![j] = [NoRun EXCEPT !.pc = "attempt"]]
    BY <1>1, <1>7 DEF Handle
  <2>2. PICK q \in RunRecords : /\ q = [NoRun EXCEPT !.pc = "attempt"]
                                /\ q.pc = "attempt" /\ q.tries = 0 /\ ~q.cancelled
    BY NoRunFields
  <2>3. Types'
    BY <1>2, <1>4, <2>1, <2>2 DEF Inv, Types
  <2>4. jobs'[j] = c /\ runs'[j] = q
    BY <2>1, <2>2 DEF Inv, Types
  <2>5. JobOK(breaker, c, q, failures[j], refusals[j])
    BY <1>2, <1>3, <2>2, OneJob, StartedJob
  <2>6. JobOK(breaker', jobs'[j], runs'[j], failures'[j], refusals'[j])
    BY <1>4, <2>4, <2>5
  <2>7. \A k \in Jobs \ {j} : jobs'[k] = jobs[k] /\ runs'[k] = runs[k]
    BY <2>1 DEF Inv, Types
  <2>8. \A k \in Jobs : JobOK(breaker', jobs'[k], runs'[k], failures'[k], refusals'[k])
    BY <1>4, <2>6, <2>7, Others
  <2>9. Calm(breaker, receiver, runs) => Calm(breaker, receiver, runs)'
    BY <1>4, <2>2, <2>4, <2>7 DEF Calm
  <2> QED
    BY <1>4, <2>3, <2>8, <2>9 DEF Inv
<1> QED
  BY <1>6, <1>7

\* A call goes out.
LEMMA SendInv ==
  ASSUME Inv, NEW j \in Jobs, Send(j)
  PROVE  Inv'
<1>1. runs[j].pc = "attempt" /\ Admits(breaker) /\ breaker' = Admitted(breaker)
  BY DEF Send
<1>2. UNCHANGED <<receiver, jobs, everDown, everCancelled, failures, refusals>>
  BY DEF Send
<1>3. /\ breaker' \in Breakers
      /\ breaker.state = "closed" => breaker' = breaker
      /\ breaker'.state = "open" => breaker.state = "open" /\ breaker'.left = breaker.left
  BY <1>1, OneJob, AdmittedBreaker
<1>4. PICK n \in Nat : n = runs[j].tries + 1
  BY OneJob DEF RunRecords
<1>5. runs' = [runs EXCEPT ![j].pc = "sent", ![j].tries = n]
  BY <1>4 DEF Send
<1>6. runs' \in [Jobs -> RunRecords]
  BY <1>5 DEF Inv, Types, RunRecords
<1>7. runs'[j].pc = "sent" /\ runs'[j].tries = n /\ runs'[j].cancelled = runs[j].cancelled
  BY <1>5 DEF Inv, Types, RunRecords
<1>8. \A k \in Jobs \ {j} : runs'[k] = runs[k]
  BY <1>5 DEF Inv, Types
<1>9. Types'
  BY <1>2, <1>3, <1>6 DEF Inv, Types
<1>10. runs'[j] \in RunRecords
  BY <1>6
<1>11. Matched(jobs[j], runs'[j]) /\ Charged(jobs[j], runs'[j], failures[j])
  BY <1>1, <1>4, <1>7, <1>10, OneJob, SentJob
<1>12. Held(breaker', jobs[j], runs'[j], refusals[j])
  <2>1. Held(breaker', jobs[j], runs[j], refusals[j])
    BY <1>3, OneJob, HeldKept
  <2> QED
    BY <1>1, <2>1 DEF Held
<1>13. JobOK(breaker', jobs'[j], runs'[j], failures'[j], refusals'[j])
  BY <1>2, <1>11, <1>12 DEF JobOK
<1>14. \A k \in Jobs : JobOK(breaker', jobs'[k], runs'[k], failures'[k], refusals'[k])
  BY <1>2, <1>3, <1>8, <1>13, Others
<1>15. Calm(breaker, receiver, runs) => Calm(breaker, receiver, runs)'
  BY <1>2, <1>3, <1>7, <1>8 DEF Calm
<1> QED
  BY <1>2, <1>9, <1>14, <1>15 DEF Inv

\* The circuit refuses a call: an open one refuses it for the first time.
LEMMA RefuseInv ==
  ASSUME Inv, NEW j \in Jobs, Refuse(j)
  PROVE  Inv'
<1>1. runs[j].pc = "attempt" /\ ~Admits(breaker)
  BY DEF Refuse
<1>2. UNCHANGED <<receiver, breaker, jobs, everDown, everCancelled, failures>>
  BY DEF Refuse
<1>3. runs' = [runs EXCEPT ![j].pc = "refused"]
  BY DEF Refuse
<1>4. PICK n : n = IF breaker.state = "open" THEN Least(refusals[j] + 1, 2) ELSE refusals[j]
  OBVIOUS
<1>5. refusals' = [refusals EXCEPT ![j] = n]
  BY <1>4 DEF Refuse
<1>6. n \in {0, 1}
  <2>1. refusals[j] \in {0, 1}
    BY OneJob DEF Held
  <2>2. ASSUME breaker.state = "open" PROVE refusals[j] = 0
    <3>1. breaker.left > 0
      BY <1>1, <2>2, OneJob, RefusingBreaker
    <3> QED
      BY <1>1, <2>1, <2>2, <3>1, OneJob DEF Held
  <2> QED
    BY <1>4, <2>1, <2>2 DEF Least
<1>7. /\ runs' \in [Jobs -> RunRecords]
      /\ runs'[j].pc = "refused" /\ runs'[j].tries = runs[j].tries
      /\ runs'[j].cancelled = runs[j].cancelled
  BY <1>3 DEF Inv, Types, RunRecords
<1>8. refusals' \in [Jobs -> Nat] /\ refusals'[j] = n
  BY <1>5, <1>6 DEF Inv, Types
<1>9. \A k \in Jobs \ {j} : runs'[k] = runs[k] /\ refusals'[k] = refusals[k]
  BY <1>3, <1>5 DEF Inv, Types
<1>10. Types'
  BY <1>2, <1>7, <1>8 DEF Inv, Types
<1>11. Matched(jobs[j], runs'[j])
  BY <1>1, <1>7, OneJob DEF Matched
<1>12. Charged(jobs[j], runs'[j], failures[j])
  <2>1. Tried(runs'[j]) = Tried(runs[j])
    BY <1>1, <1>7 DEF Tried
  <2> QED
    BY <2>1, OneJob DEF Charged, Paid
<1>13. Held(breaker, jobs[j], runs'[j], n)
  BY <1>6, <1>7 DEF Held
<1>14. JobOK(breaker', jobs'[j], runs'[j], failures'[j], refusals'[j])
  BY <1>2, <1>8, <1>11, <1>12, <1>13 DEF JobOK
<1>15. \A k \in Jobs : JobOK(breaker', jobs'[k], runs'[k], failures'[k], refusals'[k])
  BY <1>2, <1>9, <1>14, Others
<1>16. Calm(breaker, receiver, runs) => Calm(breaker, receiver, runs)'
  BY <1>2, <1>7, <1>9 DEF Calm
<1> QED
  BY <1>2, <1>10, <1>15, <1>16 DEF Inv

\* The snooze lasts as long as the opening, if that still lasts.
LEMMA SnoozeOpenInv ==
  ASSUME Inv, NEW j \in Jobs, SnoozeOpen(j)
  PROVE  Inv'
<1>1. runs[j].pc = "refused"
  BY DEF SnoozeOpen
<1>2. UNCHANGED <<receiver, breaker, everDown, everCancelled, failures, refusals>>
  BY DEF SnoozeOpen
<1>3. PICK d \in Nat : d = RemainingDelay(breaker) /\ d = breaker.left
  BY OneJob DEF RemainingDelay, Breakers
<1>4. PICK c : c = Snoozed(j, d)
  OBVIOUS
<1>5. jobs[j].attempt >= 1
  BY <1>1, OneJob, Limits DEF Matched
<1>6. /\ c \in JobRecords /\ c.state = "waiting"
      /\ c.attempt = jobs[j].attempt - 1 /\ c.wait = d
  BY <1>4, <1>5, SnoozedJob DEF Inv
<1>7. jobs' = [jobs EXCEPT ![j] = c] /\ runs' = [runs EXCEPT ![j] = NoRun]
  BY <1>3, <1>4 DEF SnoozeOpen
<1>8. Types'
  BY <1>2, <1>6, <1>7, NoRunFields DEF Inv, Types
<1>9. jobs'[j] = c /\ runs'[j] = NoRun
  BY <1>7 DEF Inv, Types
<1>10. Matched(c, NoRun) /\ Charged(c, NoRun, failures[j])
  BY <1>1, <1>6, NoRunFields, OneJob, SnoozedCharge
<1>11. Held(breaker, c, NoRun, refusals[j])
  BY <1>3, <1>6, NoRunFields, OneJob DEF Held, Breakers
<1>12. JobOK(breaker', jobs'[j], runs'[j], failures'[j], refusals'[j])
  BY <1>2, <1>9, <1>10, <1>11 DEF JobOK
<1>13. \A k \in Jobs \ {j} : jobs'[k] = jobs[k] /\ runs'[k] = runs[k]
  BY <1>7 DEF Inv, Types
<1>14. \A k \in Jobs : JobOK(breaker', jobs'[k], runs'[k], failures'[k], refusals'[k])
  BY <1>2, <1>12, <1>13, Others
<1>15. Calm(breaker, receiver, runs) => Calm(breaker, receiver, runs)'
  BY <1>2, <1>9, <1>13, NoRunFields DEF Calm
<1> QED
  BY <1>2, <1>8, <1>14, <1>15 DEF Inv

\* What AfterCall does to its job: the three ways on after a call, with the
\* account they leave.
LEMMA AfterCallJob ==
  ASSUME Inv, NEW j \in Jobs, runs[j].pc = "sent",
         NEW response \in Responses(j), NEW err, err = ErrorOf(response), AfterCall(j, err),
         NEW g, g = IF IsDependencyFailure(err)
                    THEN Least(failures[j] + 1, MaxAttempts * MaxTries) ELSE failures[j]
  PROVE  \E c \in JobRecords, q \in RunRecords :
           /\ jobs' = [jobs EXCEPT ![j] = c] /\ runs' = [runs EXCEPT ![j] = q]
           /\ ~runs[j].cancelled => ~q.cancelled
           /\ q.pc \in {"none", "attempt"}
           /\ g \in Nat /\ Matched(c, q) /\ Charged(c, q, g)
<1>1. Retryable(err) => IsDependencyFailure(err)
  BY CallErrors
<1>2. IsDependencyFailure(err) => g = Least(failures[j] + 1, MaxAttempts * MaxTries)
  OBVIOUS
<1>3. g \in Nat
  <2>1. CASE IsDependencyFailure(err)
    BY <1>2, <2>1, OneJob, FailureCounted
  <2>2. CASE ~IsDependencyFailure(err)
    BY <2>2, OneJob
  <2> QED
    BY <2>1, <2>2
<1>4. CASE ~IsDependencyFailure(err) \/ runs[j].tries >= MaxTries
  <2>1. PICK c \in Written(j, err) : /\ jobs' = [jobs EXCEPT ![j] = c]
                                     /\ runs' = [runs EXCEPT ![j] = NoRun]
    BY <1>4 DEF AfterCall
  <2>2. /\ c \in JobRecords
        /\ c.attempt = jobs[j].attempt
        /\ c.state \in {"succeeded", "cancelled", "discarded", "waiting"}
        /\ c.state = "discarded" => Retryable(err) /\ c.attempt >= MaxAttempts
        /\ c.state = "waiting" => Retryable(err) /\ c.attempt < MaxAttempts
    BY WrittenJob DEF Inv
  <2>3. Matched(c, NoRun) /\ Charged(c, NoRun, g)
    <3>1. CASE c.state \in {"succeeded", "cancelled"}
      <4>1. Matched(c, NoRun)
        BY <3>1, NoRunFields DEF Matched
      <4>2. Paid(c, NoRun) = 0
        BY <3>1 DEF Paid
      <4>3. g <= MaxAttempts * MaxTries
        <5>1. CASE IsDependencyFailure(err)
          BY <1>2, <5>1, OneJob, FailureCounted
        <5>2. CASE ~IsDependencyFailure(err)
          BY <5>2, OneJob DEF Charged
        <5> QED
          BY <5>1, <5>2
      <4> QED
        BY <1>3, <4>1, <4>2, <4>3 DEF Charged
    <3>2. CASE c.state \in {"discarded", "waiting"}
      <4>1. IsDependencyFailure(err) /\ runs[j].tries >= MaxTries
        BY <1>1, <1>4, <2>2, <3>2
      <4>2. \/ c.state = "waiting" /\ c.attempt < MaxAttempts
            \/ c.state = "discarded" /\ c.attempt >= MaxAttempts
        BY <2>2, <3>2
      <4> QED
        BY <1>2, <2>2, <4>1, <4>2, NoRunFields, OneJob, SpentJob
    <3> QED
      BY <2>2, <3>1, <3>2
  <2> QED
    BY <1>3, <2>1, <2>2, <2>3, NoRunFields
<1>5. CASE IsDependencyFailure(err) /\ ~(runs[j].tries >= MaxTries) /\ BudgetAllows
  <2>1. runs' = [runs EXCEPT ![j].pc = "attempt"] /\ jobs' = jobs
    BY <1>5 DEF AfterCall
  <2>2. PICK q : q = [runs[j] EXCEPT !.pc = "attempt"]
    OBVIOUS
  <2>3. /\ q \in RunRecords /\ q.pc = "attempt" /\ q.tries = runs[j].tries
        /\ q.cancelled = runs[j].cancelled
    BY <2>2, OneJob DEF RunRecords
  <2>4. runs' = [runs EXCEPT ![j] = q]
    BY <2>1, <2>2
  <2>5. jobs' = [jobs EXCEPT ![j] = jobs[j]]
    BY <2>1 DEF Inv, Types
  <2>6. runs[j].tries < MaxTries
    BY <1>5, OneJob, Limits DEF RunRecords
  <2>7. Matched(jobs[j], q) /\ Charged(jobs[j], q, g)
    BY <1>2, <1>5, <2>3, <2>6, OneJob, RetriedJob
  <2>8. jobs[j] \in JobRecords
    BY OneJob
  <2> QED
    BY <1>3, <2>3, <2>4, <2>5, <2>7, <2>8
<1>6. CASE IsDependencyFailure(err) /\ ~(runs[j].tries >= MaxTries) /\ ~BudgetAllows
  <2>1. runs' = [runs EXCEPT ![j] = NoRun] /\ jobs' = [jobs EXCEPT ![j] = Snoozed(j, Timeout)]
    BY <1>6 DEF AfterCall
  <2>2. PICK c : c = Snoozed(j, Timeout)
    OBVIOUS
  <2>3. jobs[j].attempt >= 1
    BY OneJob, Limits DEF Matched
  <2>4. c \in JobRecords /\ c.state = "waiting" /\ c.attempt = jobs[j].attempt - 1
    BY <2>2, <2>3, Limits, SnoozedJob DEF Inv
  <2>5. Matched(c, NoRun) /\ Charged(c, NoRun, g)
    BY <1>2, <1>6, <2>4, NoRunFields, OneJob, ShedJob
  <2> QED
    BY <1>3, <2>1, <2>2, <2>4, <2>5, NoRunFields
<1> QED
  BY <1>4, <1>5, <1>6

\* A call returns.  Whom an opening has refused has no call out, so a job that
\* gets its answer while the circuit is open was not refused by this opening.
LEMMA AnswerInv ==
  ASSUME Inv, NEW j \in Jobs, Answer(j)
  PROVE  Inv'
<1>1. PICK response \in Responses(j) :
        /\ breaker' \in Recorded(breaker, IsDependencyFailure(ErrorOf(response)))
        /\ AfterCall(j, ErrorOf(response))
        /\ failures' = [failures EXCEPT ![j] =
              IF IsDependencyFailure(ErrorOf(response))
              THEN Least(@ + 1, MaxAttempts * MaxTries) ELSE @]
  BY DEF Answer
<1>2. PICK err : err = ErrorOf(response)
  OBVIOUS
<1>3. PICK g : g = IF IsDependencyFailure(err)
                   THEN Least(failures[j] + 1, MaxAttempts * MaxTries) ELSE failures[j]
  OBVIOUS
<1>4. failures' = [failures EXCEPT ![j] = g]
  BY <1>1, <1>2, <1>3
<1>5. runs[j].pc = "sent" /\ UNCHANGED <<receiver, everDown, everCancelled>>
  BY DEF Answer
<1>6. refusals' = IF breaker' # breaker /\ breaker'.state = "open"
                  THEN [k \in Jobs |-> 0] ELSE refusals
  BY DEF Answer
<1>7. AfterCall(j, err)
  BY <1>1, <1>2
<1>8. PICK c \in JobRecords, q \in RunRecords :
        /\ jobs' = [jobs EXCEPT ![j] = c] /\ runs' = [runs EXCEPT ![j] = q]
        /\ ~runs[j].cancelled => ~q.cancelled
        /\ q.pc \in {"none", "attempt"}
        /\ g \in Nat /\ Matched(c, q) /\ Charged(c, q, g)
  BY <1>2, <1>3, <1>5, <1>7, AfterCallJob
<1>9. IsDependencyFailure(err) \in BOOLEAN
  BY <1>2, CallErrors
<1>10. /\ breaker' \in Breakers
       /\ breaker.state = "open" => breaker' = breaker
       /\ ~IsDependencyFailure(err) /\ breaker.state = "closed" /\ breaker.failed = 0 =>
            breaker'.state = "closed" /\ breaker'.failed = 0
  <2>1. PICK b : b = breaker'
    OBVIOUS
  <2>2. b \in Recorded(breaker, IsDependencyFailure(err))
    BY <1>1, <1>2, <2>1
  <2> QED
    BY <1>9, <2>1, <2>2, OneJob, RecordedBreaker
<1>11. refusals' \in [Jobs -> Nat]
  BY <1>6 DEF Inv, Types
<1>12. Types'
  BY <1>4, <1>8, <1>10, <1>11 DEF Inv, Types
<1>13. jobs'[j] = c /\ runs'[j] = q /\ failures'[j] = g
  BY <1>4, <1>8 DEF Inv, Types
<1>14. \A k \in Jobs \ {j} : jobs'[k] = jobs[k] /\ runs'[k] = runs[k] /\ failures'[k] = failures[k]
  BY <1>4, <1>8 DEF Inv, Types
<1>15. \A k \in Jobs : \/ refusals'[k] = 0
                       \/ /\ refusals'[k] = refusals[k]
                          /\ breaker'.state = "open" => breaker' = breaker
  BY <1>6
<1>16. Held(breaker', c, q, refusals'[j])
  <2>1. CASE refusals'[j] = 0
    BY <2>1 DEF Held
  <2>2. CASE refusals'[j] # 0
    <3>1. refusals'[j] = refusals[j] /\ (breaker'.state = "open" => breaker' = breaker)
      BY <1>15, <2>2
    <3>2. refusals[j] \in {0, 1}
      BY OneJob DEF Held
    <3>3. ~(breaker'.state = "open" /\ breaker'.left > 0)
      BY <1>5, <2>2, <3>1, <3>2, OneJob DEF Held
    <3> QED
      BY <3>1, <3>2, <3>3 DEF Held
  <2> QED
    BY <2>1, <2>2
<1>17. JobOK(breaker', jobs'[j], runs'[j], failures'[j], refusals'[j])
  BY <1>8, <1>13, <1>16 DEF JobOK
<1>18. \A k \in Jobs : JobOK(breaker', jobs'[k], runs'[k], failures'[k], refusals'[k])
  BY <1>14, <1>15, <1>17, Others
<1>19. Calm(breaker, receiver, runs) => Calm(breaker, receiver, runs)'
  <2> SUFFICES ASSUME Calm(breaker, receiver, runs) PROVE Calm(breaker, receiver, runs)'
    OBVIOUS
  <2>1. ~IsDependencyFailure(err)
    BY <1>2, CalmErrors DEF Calm
  <2>2. breaker'.state = "closed" /\ breaker'.failed = 0
    BY <1>10, <2>1 DEF Calm
  <2>3. \A k \in Jobs : ~runs'[k].cancelled
    BY <1>8, <1>13, <1>14 DEF Calm
  <2> QED
    BY <1>5, <2>2, <2>3 DEF Calm
<1> QED
  BY <1>5, <1>12, <1>18, <1>19 DEF Inv

\* A handler's context ends: only the account of the outage is concerned.
LEMMA CancelInv ==
  ASSUME Inv, NEW j \in Jobs, Cancel(j)
  PROVE  Inv'
<1>1. runs' = [runs EXCEPT ![j].cancelled = TRUE] /\ everCancelled'
  BY DEF Cancel
<1>2. UNCHANGED <<breaker, jobs, failures, refusals>>
  BY DEF Cancel
<1>3. /\ runs' \in [Jobs -> RunRecords]
      /\ runs'[j].pc = runs[j].pc /\ runs'[j].tries = runs[j].tries
  BY <1>1 DEF Inv, Types, RunRecords
<1>4. \A k \in Jobs \ {j} : runs'[k] = runs[k]
  BY <1>1 DEF Inv, Types
<1>5. Types'
  BY <1>2, <1>3 DEF Inv, Types
<1>6. Matched(jobs[j], runs'[j]) /\ Held(breaker, jobs[j], runs'[j], refusals[j])
  BY <1>3, OneJob DEF Matched, Held
<1>7. Charged(jobs[j], runs'[j], failures[j])
  BY <1>3, OneJob DEF Charged, Paid, Tried
<1>8. JobOK(breaker', jobs'[j], runs'[j], failures'[j], refusals'[j])
  BY <1>2, <1>6, <1>7 DEF JobOK
<1>9. \A k \in Jobs : JobOK(breaker', jobs'[k], runs'[k], failures'[k], refusals'[k])
  BY <1>2, <1>4, <1>8, Others
<1> QED
  BY <1>1, <1>5, <1>9 DEF Inv

\* The clock takes as much from a job's wait as from the opening it waits for.
LEMMA TickInv ==
  ASSUME Inv, Tick
  PROVE  Inv'
<1>1. breaker' = Passed(breaker)
  BY DEF Tick
<1>2. jobs' = [k \in Jobs |-> [jobs[k] EXCEPT !.wait = IF @ > 0 THEN @ - 1 ELSE 0]]
  BY DEF Tick
<1>3. UNCHANGED <<receiver, runs, everDown, everCancelled, failures, refusals>>
  BY DEF Tick
<1>4. /\ breaker' \in Breakers /\ breaker'.state = breaker.state
      /\ breaker'.failed = breaker.failed
      /\ breaker'.left = IF breaker.left > 0 THEN breaker.left - 1 ELSE 0
  BY <1>1, PassedBreaker DEF Inv, Types
<1>5. ASSUME NEW k \in Jobs
      PROVE  /\ jobs'[k] \in JobRecords
             /\ jobs'[k].state = jobs[k].state /\ jobs'[k].attempt = jobs[k].attempt
             /\ jobs'[k].wait = IF jobs[k].wait > 0 THEN jobs[k].wait - 1 ELSE 0
  BY <1>2, <1>5, OneJob DEF JobRecords
<1>6. jobs' \in [Jobs -> JobRecords]
  BY <1>2, <1>5
<1>7. Types'
  BY <1>3, <1>4, <1>6 DEF Inv, Types
<1>8. ASSUME NEW k \in Jobs
      PROVE  JobOK(breaker', jobs'[k], runs'[k], failures'[k], refusals'[k])
  <2>1. Matched(jobs'[k], runs[k])
    BY <1>5, <1>8, OneJob DEF Matched
  <2>2. Charged(jobs'[k], runs[k], failures[k])
    BY <1>5, <1>8, OneJob DEF Charged, Paid
  <2>3. Held(breaker', jobs'[k], runs[k], refusals[k])
    <3>1. breaker.left \in Nat /\ jobs[k].wait \in Nat
      BY <1>8, OneJob DEF Breakers, JobRecords
    <3>2. breaker'.left > 0 => breaker.left > 0
      BY <1>4, <3>1
    <3>3. breaker'.left > 0 /\ jobs[k].wait >= breaker.left => jobs'[k].wait >= breaker'.left
      BY <1>4, <1>5, <1>8, <3>1
    <3> QED
      BY <1>4, <1>5, <1>8, <3>2, <3>3, OneJob DEF Held
  <2> QED
    BY <1>3, <2>1, <2>2, <2>3 DEF JobOK
<1>9. Calm(breaker, receiver, runs) => Calm(breaker, receiver, runs)'
  BY <1>3, <1>4 DEF Calm
<1> QED
  BY <1>3, <1>7, <1>8, <1>9 DEF Inv

-----------------------------------------------------------------------------
(* The theorems.                                                           *)

\* It holds when the process starts.
LEMMA InitInv == Init => Inv
<1> SUFFICES ASSUME Init PROVE Inv
  OBVIOUS
<1>1. Types
  BY NoRunFields, FreshBreakers DEF Init, Types, JobRecords
<1>2. ASSUME NEW j \in Jobs
      PROVE  JobOK(breaker, jobs[j], runs[j], failures[j], refusals[j])
  <2>1. /\ jobs[j].state = "waiting" /\ jobs[j].attempt = 0
        /\ runs[j] = NoRun /\ failures[j] = 0 /\ refusals[j] = 0
    BY <1>2 DEF Init
  <2>2. Matched(jobs[j], runs[j])
    BY <2>1, NoRunFields, Limits DEF Matched
  <2>3. 0 * MaxTries = 0 /\ MaxAttempts * MaxTries \in Nat
    BY Limits
  <2>4. Charged(jobs[j], runs[j], failures[j])
    BY <2>1, <2>3 DEF Charged, Paid
  <2> QED
    BY <2>1, <2>2, <2>4 DEF JobOK, Held
<1>3. Calm(breaker, receiver, runs)
  BY NoRunFields, FreshBreakers DEF Init, Calm
<1> QED
  BY <1>1, <1>2, <1>3 DEF Inv

\* Every step keeps it.
LEMMA NextInv == Inv /\ [Next]_vars => Inv'
<1> SUFFICES ASSUME Inv, [Next]_vars PROVE Inv'
  OBVIOUS
<1>1. CASE UNCHANGED vars
  BY <1>1 DEF vars, Inv, Types, Calm
<1>2. CASE ReceiverTurns
  BY <1>2 DEF ReceiverTurns, Inv, Types
<1>3. CASE Tick
  BY <1>3, TickInv
<1>4. CASE \E j \in Jobs : \/ Handle(j) \/ Send(j) \/ Refuse(j)
                          \/ SnoozeOpen(j) \/ Answer(j) \/ Cancel(j)
  BY <1>4, HandleInv, SendInv, RefuseInv, SnoozeOpenInv, AnswerInv, CancelInv
<1> QED
  BY <1>1, <1>2, <1>3, <1>4 DEF Next

\* So it holds in every state.
LEMMA Invariance == Spec => []Inv
BY InitInv, NextInv, PTL DEF Spec

(***************************************************************************)
(* Our own faults do not open the circuit, for every setting that validate *)
(* accepts: without an outage and a cancelled handler the window holds no  *)
(* failure, and Trips needs one.                                           *)
(***************************************************************************)
THEOREM OwnFaultsHarmless == Spec => []OwnFaultsDontTrip
<1>1. Inv => OwnFaultsDontTrip
  BY DEF Inv, Calm, OwnFaultsDontTrip
<1> QED
  BY <1>1, Invariance, PTL

(***************************************************************************)
(* A job is discarded only after MaxAttempts * MaxTries failed calls,      *)
(* however circuit refusals, exhausted retry budgets, cancellations and    *)
(* the other jobs interleave with its attempts.                            *)
(***************************************************************************)
THEOREM DiscardsEarned == Spec => []DiscardedWasTried
<1>1. Inv => DiscardedWasTried
  <2> SUFFICES ASSUME Inv, NEW j \in Jobs, jobs[j].state = "discarded"
               PROVE  failures[j] = MaxAttempts * MaxTries
    BY DEF DiscardedWasTried
  <2>1. jobs[j].attempt = MaxAttempts
    BY OneJob DEF Matched
  <2>2. Paid(jobs[j], runs[j]) = MaxAttempts * MaxTries
    BY <2>1 DEF Paid
  <2>3. MaxAttempts * MaxTries \in Nat /\ failures[j] \in Nat
    BY Limits, OneJob
  <2> QED
    BY <2>2, <2>3, OneJob DEF Charged
<1> QED
  BY <1>1, Invariance, PTL

(***************************************************************************)
(* One opening of the circuit refuses a job at most once: deliver reads    *)
(* the remaining delay after the refusal, and the job waits it out.        *)
(***************************************************************************)
THEOREM SnoozesOutlast == Spec => []RefusedOnce
<1>1. Inv => RefusedOnce
  <2> SUFFICES ASSUME Inv, NEW j \in Jobs PROVE refusals[j] <= 1
    BY DEF RefusedOnce
  <2>1. refusals[j] \in {0, 1}
    BY OneJob DEF Held
  <2> QED
    BY <2>1
<1> QED
  BY <1>1, Invariance, PTL

(***************************************************************************)
(* The retry loop and the queue's attempts stay within their limits, and   *)
(* a job that waits has an attempt left: a snooze gives back the attempt   *)
(* of its own run and never another's.                                     *)
(***************************************************************************)
THEOREM TriesBounded ==
  Spec => [](\A j \in Jobs : /\ jobs[j].state = "waiting" => jobs[j].attempt < MaxAttempts
                            /\ runs[j].pc # "none" => /\ jobs[j].attempt \in 1..MaxAttempts
                                                      /\ runs[j].tries <= MaxTries)
<1>1. Inv => \A j \in Jobs : /\ jobs[j].state = "waiting" => jobs[j].attempt < MaxAttempts
                            /\ runs[j].pc # "none" => /\ jobs[j].attempt \in 1..MaxAttempts
                                                      /\ runs[j].tries <= MaxTries
  BY OneJob, Limits DEF Matched, RunRecords
<1> QED
  BY <1>1, Invariance, PTL
=============================================================================
