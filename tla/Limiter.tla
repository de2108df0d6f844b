------------------------------ MODULE Limiter -------------------------------
(***************************************************************************)
(* The token buckets of the rate limiter, one per caller.  A bucket is the *)
(* record that Limiter.buckets maps a key to; inside it is the library's   *)
(* rate.Limiter, whose operations hold its lock and are modelled in whole  *)
(* tokens: tokens may be negative while a reservation is held, and last is *)
(* the time of the latest event, in tokens still to come.                  *)
(***************************************************************************)
EXTENDS Integers

CONSTANTS
  Rates, Bursts,   \* the quota of each tier: tokens per tick, and depth
  KeyTTL           \* key_ttl, in ticks

Tiers == {"anonymous", "standard", "internal"}

\* RateLimit.Validate
QuotasValid ==
  /\ Rates \in [Tiers -> Nat \ {0}]
  /\ Bursts \in [Tiers -> Nat \ {0}]
  /\ KeyTTL \in Nat \ {0}

ASSUME LimiterAssumption == QuotasValid

Smaller(a, b) == IF a < b THEN a ELSE b
Larger(a, b)  == IF a > b THEN a ELSE b

NoBucket == [tier |-> "none", tokens |-> 0, last |-> 0, idle |-> 0]

\* A new bucket is full.
NewBucket(tier) == [tier |-> tier, tokens |-> Bursts[tier], last |-> 0, idle |-> 0]

\* Mutant: a bucket is built at every look-up.
FoundAnew(b, tier) == NewBucket(tier)

\* The look-up, under the limiter's lock: a missing bucket, and one of another
\* tier, is replaced, and the bucket counts as seen now.
Found(b, tier) ==
  IF b.tier # tier THEN NewBucket(tier) ELSE [b EXCEPT !.idle = 0]

Allows(b) == b.tokens >= 1

Taken(b) == [b EXCEPT !.tokens = @ - 1, !.last = 0]

\* ReserveN for one token: the time to act is when the bucket has paid it back.
TimeToAct(b) == 1 - b.tokens
Reserved(b)  == [b EXCEPT !.tokens = @ - 1, !.last = TimeToAct(b)]

\* CancelAt gives back what no later event has used, and moves the latest event
\* back when it was this one.
Cancelled(b, at) ==
  [b EXCEPT !.tokens = Smaller(Bursts[b.tier], @ + Larger(0, 1 - (b.last - at))),
            !.last = IF @ = at THEN at - 1 ELSE @]

\* A tick of the clock: the bucket refills and is idle for longer.
Refilled(b) ==
  [b EXCEPT !.tokens = Smaller(Bursts[b.tier], @ + Rates[b.tier]),
            !.idle = Smaller(KeyTTL + 1, @ + 1)]

\* Mutant: only a bucket that is not full is dropped.
ExpiredUnlessFull(b) == b.idle > KeyTTL /\ b.tokens < Bursts[b.tier]

Expired(b) == b.idle > KeyTTL
=============================================================================
