------------------------------ MODULE Delivery ------------------------------
(***************************************************************************)
(* The webhook handler and the chain around its calls,                     *)
(*                                                                         *)
(*     retry( breaker( timeout( call ) ) ),                                *)
(*                                                                         *)
(* for the jobs of one process, which share one breaker and one retry      *)
(* budget.  What a handler returns becomes the job's outcome as the pool   *)
(* writes it (Pool, JobTable); here the outcome is a state, an attempt and *)
(* a delay, and time is counted in ticks.                                  *)
(***************************************************************************)
EXTENDS Breaker, FiniteSets

CONSTANTS
  Jobs,            \* the jobs of kind webhook
  Malformed,       \* jobs whose payload does not parse
  Rejected,        \* jobs whose event the receiver answers with a 4xx
  MaxAttempts,     \* the jobs' attempt limit
  MaxTries,        \* webhook.retry.max_attempts
  Timeout,         \* webhook.timeout, in ticks
  BudgetNum, BudgetDen,   \* webhook.retry.budget_max_rate, as a fraction
  MinConcurrency,  \* retries the budget always allows
  BackoffBase, BackoffMax, Jitter    \* queue.backoff

\* WebhookRetry.validate, and the queue's own limits.
RetryValid ==
  /\ MaxTries >= 1 /\ MaxAttempts >= 1 /\ Timeout > 0
  /\ BudgetNum > 0 /\ BudgetNum <= BudgetDen
  /\ BackoffBase > 0 /\ BackoffBase <= BackoffMax

ASSUME DeliveryAssumption ==
  /\ {MaxAttempts, MaxTries, Timeout, BudgetNum, BudgetDen, MinConcurrency,
      BackoffBase, BackoffMax} \subseteq Nat
  /\ RetryValid
  /\ Malformed \subseteq Jobs /\ Rejected \subseteq Jobs
  /\ Jitter \in {"none", "equal", "full"}

VARIABLES
  configured,  \* whether webhook.url is set
  receiver,    \* whether the receiver is "up" or "down"
  breaker,
  jobs,        \* a job: its state, the attempts it has used, the ticks it waits
  runs,        \* its handler: where it is, tries made, whether cancelled
  \* What the properties look back to:
  everDown,    \* the receiver was down at some time
  everCancelled,   \* a handler was cancelled at some time
  failures,    \* calls of a job that failed, up to the most needed
  refusals     \* how often the circuit's present opening has refused a job

vars == <<configured, receiver, breaker, jobs, runs,
          everDown, everCancelled, failures, refusals>>

Final == {"succeeded", "cancelled", "discarded"}
NoRun == [pc |-> "none", tries |-> 0, cancelled |-> FALSE]

Least(a, b)    == IF a < b THEN a ELSE b
Greatest(a, b) == IF a > b THEN a ELSE b

-----------------------------------------------------------------------------
(* Backoff.                                                                *)

Raw(attempt) == LET n == Greatest(attempt, 1)
                IN  Least(BackoffBase * n * n * n * n, BackoffMax)

\* The delays For may draw.
For(attempt) ==
  LET raw == Raw(attempt)
  IN  CASE Jitter = "none"  -> {raw}
        [] Jitter = "equal" -> (raw \div 2)..raw
        [] Jitter = "full"  -> 0..raw

-----------------------------------------------------------------------------
(* Errors.                                                                 *)

\* classify: a 429, a 5xx and anything unexpected are the receiver's fault.
Classify(status) ==
  CASE status = "2xx"            -> "nil"
    [] status = "429"            -> "exhausted"
    [] status = "4xx"            -> "terminal"
    [] status \in {"5xx", "3xx"} -> "unavailable"

\* The kinds of error that may go away by themselves; terminal ones do not.
Retryable(err) == err \in {"unavailable", "timeout", "internal", "canceled", "exhausted"}

\* Mutant: our own mistakes count as the receiver's outage.
IsAnyFailure(err) == err # "nil"

IsDependencyFailure(err) == err # "nil" /\ err # "terminal"

\* Mutant: an open circuit fails the attempt like any other error.
SnoozedAsFailure(j, delay) ==
  [jobs[j] EXCEPT !.state = IF @ = "running" /\ jobs[j].attempt >= MaxAttempts
                            THEN "discarded" ELSE "waiting", !.wait = delay]

\* The job after a snooze, which gives the attempt back.
Snoozed(j, delay) == [jobs[j] EXCEPT !.state = "waiting", !.attempt = @ - 1, !.wait = delay]

\* The job after the pool has written what the handler returned.
Written(j, err) ==
  CASE err = "nil" -> {[jobs[j] EXCEPT !.state = "succeeded"]}
    [] err # "nil" /\ ~Retryable(err) -> {[jobs[j] EXCEPT !.state = "cancelled"]}
    [] Retryable(err) ->
         IF jobs[j].attempt >= MaxAttempts
         THEN {[jobs[j] EXCEPT !.state = "discarded"]}
         ELSE {[jobs[j] EXCEPT !.state = "waiting", !.wait = d] : d \in For(jobs[j].attempt)}

-----------------------------------------------------------------------------
(* Steps.                                                                  *)

\* The runs whose next or present call is a retry.
Retrying == {j \in Jobs : \/ runs[j].pc = "attempt" /\ runs[j].tries > 0
                          \/ runs[j].pc = "sent" /\ runs[j].tries > 1}
Running  == {j \in Jobs : runs[j].pc # "none"}

\* The retry budget: a share of the calls in flight, and never less than a floor.
BudgetAllows ==
  Cardinality(Retrying)
    < Greatest(MinConcurrency, (Cardinality(Running) * BudgetNum) \div BudgetDen)

\* The job is claimed and its handler called.  A payload that does not parse
\* and a missing URL end it at once.
Handle(j) ==
  /\ jobs[j].state = "waiting" /\ jobs[j].wait = 0
  /\ LET claimed == [jobs[j] EXCEPT !.state = "running", !.attempt = @ + 1]
     IN  IF j \in Malformed \/ ~configured
         THEN /\ jobs' = [jobs EXCEPT ![j] = [claimed EXCEPT !.state =
                             IF j \in Malformed THEN "cancelled" ELSE "succeeded"]]
              /\ UNCHANGED runs
         ELSE /\ jobs' = [jobs EXCEPT ![j] = claimed]
              /\ runs' = [runs EXCEPT ![j] = [NoRun EXCEPT !.pc = "attempt"]]
  /\ UNCHANGED <<configured, receiver, breaker, everDown, everCancelled, failures, refusals>>

\* The breaker admits the call, and the request goes out with a fresh body.
Send(j) ==
  /\ runs[j].pc = "attempt" /\ Admits(breaker)
  /\ breaker' = Admitted(breaker)
  /\ runs' = [runs EXCEPT ![j].pc = "sent", ![j].tries = @ + 1]
  /\ UNCHANGED <<configured, receiver, jobs, everDown, everCancelled, failures, refusals>>

\* ErrOpen aborts the retry loop.
Refuse(j) ==
  /\ runs[j].pc = "attempt" /\ ~Admits(breaker)
  /\ runs' = [runs EXCEPT ![j].pc = "refused"]
  /\ refusals' = [refusals EXCEPT ![j] = IF breaker.state = "open" THEN Least(@ + 1, 2) ELSE @]
  /\ UNCHANGED <<configured, receiver, breaker, jobs, everDown, everCancelled, failures>>

\* Mutant: the snooze is the timeout of one call.
SnoozeOpenBriefly(j) ==
  /\ runs[j].pc = "refused"
  /\ jobs' = [jobs EXCEPT ![j] = Snoozed(j, Timeout)]
  /\ runs' = [runs EXCEPT ![j] = NoRun]
  /\ UNCHANGED <<configured, receiver, breaker, everDown, everCancelled, failures, refusals>>

\* deliver reads the remaining delay after the refusal, and snoozes the job.
SnoozeOpen(j) ==
  /\ runs[j].pc = "refused"
  /\ jobs' = [jobs EXCEPT ![j] = Snoozed(j, RemainingDelay(breaker))]
  /\ runs' = [runs EXCEPT ![j] = NoRun]
  /\ UNCHANGED <<configured, receiver, breaker, everDown, everCancelled, failures, refusals>>

\* What client.Do may return: no response, none in time, or one of a status.
Responses(j) ==
  IF runs[j].cancelled THEN {"error"}
  ELSE IF receiver = "down" THEN {"error", "timeout", "429", "5xx", "3xx"}
  ELSE {IF j \in Rejected THEN "4xx" ELSE "2xx"}

\* A timeout of the chain is an error without a kind, which is internal.
ErrorOf(response) ==
  CASE response = "error"   -> "unavailable"
    [] response = "timeout" -> "internal"
    [] OTHER                -> Classify(response)

\* After a failed call: another try, a snooze when the budget is spent, or the
\* call's own error.
AfterCall(j, err) ==
  IF ~IsDependencyFailure(err) \/ runs[j].tries >= MaxTries
  THEN /\ runs' = [runs EXCEPT ![j] = NoRun]
       /\ \E written \in Written(j, err) : jobs' = [jobs EXCEPT ![j] = written]
  ELSE IF BudgetAllows
  THEN /\ runs' = [runs EXCEPT ![j].pc = "attempt"]
       /\ UNCHANGED jobs
  ELSE /\ runs' = [runs EXCEPT ![j] = NoRun]
       /\ jobs' = [jobs EXCEPT ![j] = Snoozed(j, Timeout)]

\* Mutant: the result of a cancelled call is not recorded, and its permit is lost.
AnswerForgotten(j) ==
  /\ runs[j].pc = "sent"
  /\ \E response \in Responses(j) :
       LET err == ErrorOf(response)
       IN  /\ breaker' \in IF runs[j].cancelled THEN {breaker}
                           ELSE Recorded(breaker, IsDependencyFailure(err))
           /\ AfterCall(j, err)
           /\ failures' = [failures EXCEPT ![j] =
                 IF IsDependencyFailure(err)
                 THEN Least(@ + 1, MaxAttempts * MaxTries) ELSE @]
  /\ refusals' = IF breaker' # breaker /\ breaker'.state = "open"
                 THEN [k \in Jobs |-> 0] ELSE refusals
  /\ UNCHANGED <<configured, receiver, everDown, everCancelled>>

\* The call returns and the breaker counts it.
Answer(j) ==
  /\ runs[j].pc = "sent"
  /\ \E response \in Responses(j) :
       LET err == ErrorOf(response)
       IN  /\ breaker' \in Recorded(breaker, IsDependencyFailure(err))
           /\ AfterCall(j, err)
           /\ failures' = [failures EXCEPT ![j] =
                 IF IsDependencyFailure(err)
                 THEN Least(@ + 1, MaxAttempts * MaxTries) ELSE @]
  /\ refusals' = IF breaker' # breaker /\ breaker'.state = "open"
                 THEN [k \in Jobs |-> 0] ELSE refusals
  /\ UNCHANGED <<configured, receiver, everDown, everCancelled>>

\* The pool ends a handler's context: its timeout, a lost lease, a drain.
Cancel(j) ==
  /\ runs[j].pc \in {"attempt", "sent"} /\ ~runs[j].cancelled
  /\ runs' = [runs EXCEPT ![j].cancelled = TRUE]
  /\ everCancelled' = TRUE
  /\ UNCHANGED <<configured, receiver, breaker, jobs, everDown, failures, refusals>>

Tick ==
  /\ \/ breaker.left > 0
     \/ \E j \in Jobs : jobs[j].wait > 0
  /\ breaker' = Passed(breaker)
  /\ jobs' = [j \in Jobs |-> [jobs[j] EXCEPT !.wait = IF @ > 0 THEN @ - 1 ELSE 0]]
  /\ UNCHANGED <<configured, receiver, runs, everDown, everCancelled, failures, refusals>>

ReceiverTurns ==
  /\ receiver' = IF receiver = "up" THEN "down" ELSE "up"
  /\ everDown' = TRUE
  /\ UNCHANGED <<configured, breaker, jobs, runs, everCancelled, failures, refusals>>

Init ==
  /\ configured \in BOOLEAN
  /\ receiver = "up"
  /\ breaker = Closed
  /\ jobs = [j \in Jobs |-> [state |-> "waiting", attempt |-> 0, wait |-> 0]]
  /\ runs = [j \in Jobs |-> NoRun]
  /\ everDown = FALSE
  /\ everCancelled = FALSE
  /\ failures = [j \in Jobs |-> 0]
  /\ refusals = [j \in Jobs |-> 0]

Next ==
  \/ \E j \in Jobs : Handle(j) \/ Send(j) \/ Refuse(j) \/ SnoozeOpen(j) \/ Answer(j) \/ Cancel(j)
  \/ Tick
  \/ ReceiverTurns

Spec == Init /\ [][Next]_vars

-----------------------------------------------------------------------------
(***************************************************************************)
(* Our own mistakes do not open the circuit: without an outage and without *)
(* a cancelled handler it stays closed, whatever payloads the receiver     *)
(* rejects, so one bad job never takes a healthy receiver from the others. *)
(***************************************************************************)
OwnFaultsDontTrip == breaker.state # "closed" => everDown \/ everCancelled

(***************************************************************************)
(* An outage costs no valid job its budget: a job is discarded only after  *)
(* every try of every attempt was made and failed; refusals by the circuit *)
(* and an exhausted retry budget are never charged to the job.             *)
(***************************************************************************)
DiscardedWasTried ==
  \A j \in Jobs : jobs[j].state = "discarded" => failures[j] = MaxAttempts * MaxTries

(***************************************************************************)
(* A snoozed job does not come back too early: one opening of the circuit  *)
(* refuses a job at most once, however the reading of the remaining delay  *)
(* races with the circuit.                                                 *)
(***************************************************************************)
RefusedOnce == \A j \in Jobs : refusals[j] <= 1

-----------------------------------------------------------------------------
(***************************************************************************)
(* Fairness: the pool claims what is due, handlers run, a call returns at  *)
(* the latest at its timeout, and time passes.                             *)
(***************************************************************************)
Fairness ==
  /\ \A j \in Jobs : WF_vars(Handle(j) \/ Send(j) \/ Refuse(j) \/ SnoozeOpen(j) \/ Answer(j))
  /\ WF_vars(Tick)

FairSpec == Spec /\ Fairness

(***************************************************************************)
(* Once the receiver stays up and no handler is cancelled any more, every  *)
(* job comes to its end: the circuit does not stay open, probes do not run *)
(* out of permits, and snoozes do not go on for ever.                      *)
(***************************************************************************)
RecoveryDrains ==
  <>[](receiver = "up" /\ \A j \in Jobs : ~runs[j].cancelled)
    => <>(\A j \in Jobs : jobs[j].state \in Final)
=============================================================================
