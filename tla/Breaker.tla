------------------------------ MODULE Breaker -------------------------------
(***************************************************************************)
(* The circuit breaker of one target, as resilience.newBreaker configures  *)
(* the library's: rate-based over a rolling window while closed, a delay   *)
(* while open, a number of probes while half-open.  The breaker is a       *)
(* record; the library holds a lock around each operator below.            *)
(***************************************************************************)
EXTENDS Naturals

CONSTANTS
  RateNum, RateDen,           \* failure_rate_threshold, as a fraction
  MinThroughput,              \* min_throughput
  OpenDuration,               \* open_duration, in ticks
  HalfOpenMaxCalls,           \* half_open_max_calls
  HalfOpenSuccessThreshold,   \* half_open_success_threshold
  WindowCap                   \* bound: results the window can hold

\* BreakerSettings.validate
SettingsValid ==
  /\ RateNum > 0 /\ RateNum <= RateDen
  /\ MinThroughput >= 1
  /\ OpenDuration > 0
  /\ HalfOpenMaxCalls >= 1
  /\ HalfOpenSuccessThreshold \in 1..HalfOpenMaxCalls

ASSUME BreakerAssumption ==
  /\ {RateNum, RateDen, MinThroughput, OpenDuration, HalfOpenMaxCalls,
      HalfOpenSuccessThreshold, WindowCap} \subseteq Nat
  /\ SettingsValid
  /\ WindowCap >= MinThroughput /\ WindowCap >= HalfOpenMaxCalls

Closed   == [state |-> "closed", ok |-> 0, failed |-> 0, permits |-> 0, left |-> 0]
Opened   == [Closed EXCEPT !.state = "open", !.left = OpenDuration]
HalfOpen == [Closed EXCEPT !.state = "half-open", !.permits = HalfOpenMaxCalls]

RemainingDelay(b) == b.left

\* Once its delay has passed, an open circuit probes at the next call.
Probing(b) == IF b.state = "open" /\ b.left = 0 THEN HalfOpen ELSE b

Admits(b) == b.state = "closed" \/ Probing(b).permits > 0

Admitted(b) ==
  IF b.state = "closed" THEN b ELSE [Probing(b) EXCEPT !.permits = @ - 1]

Trips(ok, failed) ==
  /\ ok + failed >= MinThroughput
  /\ failed * RateDen >= RateNum * (ok + failed)

\* A result counts in the state the breaker is in when it arrives.
Counted(b, failure) ==
  [b EXCEPT !.ok = IF failure THEN @ ELSE @ + 1,
            !.failed = IF failure THEN @ + 1 ELSE @]

\* While closed, results that are older than the window no longer count.
RecordedClosed(b, failure) ==
  LET kept == {[b EXCEPT !.ok = s, !.failed = f] : s \in 0..b.ok, f \in 0..b.failed}
  IN  {LET c == Counted(k, failure) IN IF Trips(c.ok, c.failed) THEN Opened ELSE c :
         k \in {r \in kept : r.ok + r.failed < WindowCap}}

\* While half-open, the permit is given back with the result.
RecordedHalfOpen(b, failure) ==
  LET c == Counted(b, failure)
  IN  IF c.ok >= HalfOpenSuccessThreshold THEN Closed
      ELSE IF c.failed > HalfOpenMaxCalls - HalfOpenSuccessThreshold THEN Opened
      ELSE [c EXCEPT !.permits = @ + 1]

\* The breakers a result may lead to.
Recorded(b, failure) ==
  CASE b.state = "closed"    -> RecordedClosed(b, failure)
    [] b.state = "half-open" -> {RecordedHalfOpen(b, failure)}
    [] b.state = "open"      -> {b}

\* A tick of the clock.
Passed(b) == [b EXCEPT !.left = IF @ > 0 THEN @ - 1 ELSE 0]
=============================================================================
