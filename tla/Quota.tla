------------------------------- MODULE Quota --------------------------------
(***************************************************************************)
(* What a rate limiter promises of every caller: a request granted costs a *)
(* credit, a tick gives at most the rate, credits never exceed the burst,  *)
(* and nothing else gives any.  So no caller is granted more than          *)
(* burst + n * rate requests in n ticks, whatever happens to the table     *)
(* that keeps its bucket.                                                  *)
(***************************************************************************)
EXTENDS Naturals

CONSTANTS Keys, Rate(_), Burst(_)

VARIABLES
  credit,    \* what a caller may still spend
  granted    \* requests granted to it so far

vars == <<credit, granted>>

Init ==
  /\ credit = [k \in Keys |-> Burst(k)]
  /\ granted = [k \in Keys |-> 0]

Grant(k) ==
  /\ credit[k] > 0
  /\ credit' = [credit EXCEPT ![k] = @ - 1]
  /\ granted' = [granted EXCEPT ![k] = @ + 1]

\* Credits may be lost, and are not promised.
Lose ==
  /\ credit' \in [Keys -> Nat]
  /\ \A k \in Keys : credit'[k] <= credit[k]
  /\ UNCHANGED granted

Tick ==
  /\ credit' \in [Keys -> Nat]
  /\ \A k \in Keys : credit'[k] <= credit[k] + Rate(k) /\ credit'[k] <= Burst(k)
  /\ UNCHANGED granted

\* What may happen between two ticks.
Between == Lose \/ \E k \in Keys : Grant(k)

Next == Tick \/ Between

Spec == Init /\ [][Next]_vars
=============================================================================
