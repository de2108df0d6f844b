---------------------------- MODULE IngressProofs ---------------------------
(***************************************************************************)
(* Slots and buckets, for any number of requests, callers, clients and     *)
(* proxies.                                                                *)
(***************************************************************************)
EXTENDS Ingress, FiniteSetTheorems, TLAPS

Inside == {r \in Requests : requests[r].pc \notin {"new", "answered"}}

\* The fields of a request, whatever their values.
Shape ==
  /\ requests = [r \in Requests |-> requests[r]]
  /\ \A r \in Requests :
       requests[r] = [pc |-> requests[r].pc, id |-> requests[r].id, at |-> requests[r].at,
                      granted |-> requests[r].granted, result |-> requests[r].result,
                      status |-> requests[r].status]

Counted == slots = Cardinality(Inside)

\* The fields of one request.
Shaped(e) == e = [pc |-> e.pc, id |-> e.id, at |-> e.at, granted |-> e.granted,
                  result |-> e.result, status |-> e.status]

\* An answer that ends a request sets two of them.
LEMMA Answers ==
  ASSUME NEW e, NEW answer, Shaped(e)
  PROVE  Shaped([e EXCEPT !.pc = "unwind", !.status = answer])
<1>1. PICK d : d = [e EXCEPT !.pc = "unwind"]
  OBVIOUS
<1>2. d = [pc |-> "unwind", id |-> e.id, at |-> e.at, granted |-> e.granted,
           result |-> e.result, status |-> e.status]
  BY <1>1 DEF Shaped
<1>3. [e EXCEPT !.pc = "unwind", !.status = answer] = [d EXCEPT !.status = answer]
  BY <1>1, Zenon
<1>4. [d EXCEPT !.status = answer]
        = [pc |-> "unwind", id |-> e.id, at |-> e.at, granted |-> e.granted,
           result |-> e.result, status |-> answer]
  BY <1>2
<1>5. PICK f : f = [e EXCEPT !.pc = "unwind", !.status = answer]
  OBVIOUS
<1>6. f = [pc |-> "unwind", id |-> e.id, at |-> e.at, granted |-> e.granted,
           result |-> e.result, status |-> answer]
  BY <1>3, <1>4, <1>5
<1>7. Shaped(f)
  BY <1>6 DEF Shaped
<1> QED
  BY <1>5, <1>7

(***************************************************************************)
(* A step changes requests by the fields, so their shape stays.            *)
(***************************************************************************)
LEMMA StepShape ==
  ASSUME Shape, [Next]_vars
  PROVE  Shape'
<1> USE DEF Shape
<1>1. ASSUME NEW r \in Requests, Inflight(r)
      PROVE  Shape'
  BY <1>1 DEF Inflight
<1>2. ASSUME NEW r \in Requests, Auth(r)
      PROVE  Shape'
  <2>1. CASE Rejected(asked[r])
    <3> DEFINE f == [requests[r] EXCEPT !.pc = "unwind", !.status = 401]
    <3>1. requests' = [requests EXCEPT ![r] = f]
      BY <1>2, <2>1 DEF Auth
    <3>2. Shaped(requests[r])
      BY DEF Shaped
    <3>3. Shaped(f)
      BY <3>2, Answers
    <3> HIDE DEF f
    <3> QED
      BY <3>1, <3>3 DEF Shaped
  <2>2. CASE ~Rejected(asked[r])
    BY <1>2, <2>2 DEF Auth
  <2> QED
    BY <2>1, <2>2
<1>3. ASSUME NEW r \in Requests, Lookup(r) \/ AllowN(r)
      PROVE  Shape'
  BY <1>3 DEF Lookup, AllowN
<1>4. ASSUME NEW r \in Requests, ReserveN(r) \/ CancelAt(r)
      PROVE  Shape'
  BY <1>4 DEF ReserveN, CancelAt
<1>5. ASSUME NEW r \in Requests, MaxBody(r)
      PROVE  Shape'
  <2>1. CASE asked[r].oversize
    <3> DEFINE f == [requests[r] EXCEPT !.pc = "unwind", !.status = 413]
    <3>1. requests' = [requests EXCEPT ![r] = f]
      BY <1>5, <2>1 DEF MaxBody
    <3>2. Shaped(requests[r])
      BY DEF Shaped
    <3>3. Shaped(f)
      BY <3>2, Answers
    <3> HIDE DEF f
    <3> QED
      BY <3>1, <3>3 DEF Shaped
  <2>2. CASE ~asked[r].oversize
    BY <1>5, <2>2 DEF MaxBody
  <2> QED
    BY <2>1, <2>2
<1>6. ASSUME NEW r \in Requests, Handle(r) \/ Unwind(r)
      PROVE  Shape'
  BY <1>6 DEF Handle, Unwind
<1>7. CASE Tick \/ Sweep \/ UNCHANGED vars
  BY <1>7 DEF Tick, Sweep, vars
<1> QED
  BY <1>1, <1>2, <1>3, <1>4, <1>5, <1>6, <1>7 DEF Next, Step

(***************************************************************************)
(* Every slot that is taken is given back by the request that took it.     *)
(***************************************************************************)
LEMMA StepCounted ==
  ASSUME Shape, Counted, [Next]_vars
  PROVE  Counted'
<1>0. IsFiniteSet(Inside) /\ Cardinality(Inside) \in Nat
  BY FS_Subset, FS_CardinalityType, IngressAssumption DEF Inside
<1>1. ASSUME NEW r \in Requests, Inflight(r)
      PROVE  Counted'
  <2>1. CASE slots < GlobalInflight
    <3>0. /\ requests[r].pc = "new" /\ requests'[r].pc = "auth"
          /\ \A q \in Requests \ {r} : requests'[q] = requests[q]
      BY <1>1, <2>1 DEF Inflight, At, Shape
    <3>1. Inside' = Inside \cup {r} /\ r \notin Inside
      BY <3>0 DEF Inside
    <3>2. Cardinality(Inside') = Cardinality(Inside) + 1
      BY <1>0, <3>1, FS_AddElement
    <3> QED
      BY <1>1, <2>1, <3>2 DEF Inflight, Counted
  <2>2. CASE ~(slots < GlobalInflight)
    <3>0. /\ requests[r].pc = "new" /\ requests'[r].pc = "answered"
          /\ \A q \in Requests \ {r} : requests'[q] = requests[q]
      BY <1>1, <2>2 DEF Inflight, At, Shape
    <3>1. Inside' = Inside
      BY <3>0 DEF Inside
    <3> QED
      BY <1>1, <2>2, <3>1 DEF Inflight, Counted
  <2> QED
    BY <2>1, <2>2
<1>2. ASSUME NEW r \in Requests, Unwind(r)
      PROVE  Counted'
  <2>0. /\ requests[r].pc = "unwind" /\ requests'[r].pc = "answered"
        /\ \A q \in Requests \ {r} : requests'[q] = requests[q]
    BY <1>2 DEF Unwind, At, Shape
  <2>1. Inside' = Inside \ {r} /\ r \in Inside
    BY <2>0 DEF Inside
  <2>2. Cardinality(Inside') = Cardinality(Inside) - 1
    BY <1>0, <2>1, FS_RemoveElement
  <2> QED
    BY <1>2, <2>2 DEF Unwind, Counted
<1>3. ASSUME NEW r \in Requests, Auth(r) \/ MaxBody(r) \/ Handle(r)
      PROVE  Counted'
  <2>0. /\ requests[r].pc \in {"auth", "body", "handler"}
        /\ requests'[r].pc \in {"limit", "handler", "unwind"}
        /\ \A q \in Requests \ {r} : requests'[q] = requests[q]
    <3>1. CASE Auth(r)
      BY <3>1 DEF Auth, At, Shape
    <3>2. CASE MaxBody(r)
      BY <3>2 DEF MaxBody, At, Shape
    <3>3. CASE Handle(r)
      BY <3>3 DEF Handle, At, Shape
    <3> QED
      BY <1>3, <3>1, <3>2, <3>3
  <2>1. Inside' = Inside
    BY <2>0 DEF Inside
  <2> QED
    BY <1>3, <2>1 DEF Auth, MaxBody, Handle, Counted
<1>4. ASSUME NEW r \in Requests, Lookup(r) \/ AllowN(r) \/ ReserveN(r) \/ CancelAt(r)
      PROVE  Counted'
  <2>0. /\ requests[r].pc \in {"limit", "allow", "reserve", "cancel"}
        /\ requests'[r].pc \in {"allow", "body", "reserve", "cancel", "unwind"}
        /\ \A q \in Requests \ {r} : requests'[q] = requests[q]
    BY <1>4 DEF Lookup, AllowN, ReserveN, CancelAt, At, Shape
  <2>1. Inside' = Inside
    BY <2>0 DEF Inside
  <2> QED
    BY <1>4, <2>1 DEF Lookup, AllowN, ReserveN, CancelAt, Counted
<1>5. CASE Tick \/ Sweep \/ UNCHANGED vars
  BY <1>5 DEF Tick, Sweep, vars, Counted, Inside
<1> QED
  BY <1>1, <1>2, <1>3, <1>4, <1>5 DEF Next, Step

(***************************************************************************)
(* The semaphore counts the requests inside, however many there are and    *)
(* whichever way each leaves: by an answer, a panic or an aborted          *)
(* connection.                                                             *)
(***************************************************************************)
THEOREM SlotsCorrect == Spec => []SlotsHeld
<1>1. Init => Shape /\ Counted
  <2> SUFFICES ASSUME Init PROVE Shape /\ Counted
    OBVIOUS
  <2>1. Shape
    BY DEF Init, Shape, Waiting
  <2>2. Inside = {}
    BY DEF Init, Inside, Waiting
  <2> QED
    BY <2>1, <2>2, FS_EmptySet DEF Init, Counted
<1>2. Shape /\ Counted /\ [Next]_vars => (Shape /\ Counted)'
  BY StepShape, StepCounted
<1>3. Counted => SlotsHeld
  BY DEF Counted, Inside, SlotsHeld
<1> QED
  BY <1>1, <1>2, <1>3, PTL DEF Spec

-----------------------------------------------------------------------------
NameOf(c) == IF Recognised(c) THEN Clients[c.token].id ELSE c.address

\* From authentication to the answer a request carries the identity of its
\* caller, and what is in the table was put there by somebody's look-up.
Identified ==
  \A r \in Requests : requests[r].pc \in {"limit", "allow", "reserve", "cancel"}
                        => requests[r].id = Resolve(asked[r])

Named ==
  /\ buckets = [k \in Keys |-> buckets[k]]
  /\ asked \in [Requests -> Callers]
  /\ Held \subseteq {NameOf(asked[r]) : r \in {q \in Requests : requests[q].pc # "new"}}

(***************************************************************************)
(* Whatever a caller forges, and however many proxies there are, ClientIP  *)
(* is the address that the first proxy saw.                                *)
(***************************************************************************)
LEMMA ClientIPIsAddress ==
  ASSUME NEW c \in Callers
  PROVE  ClientIP(c) = c.address
<1> DEFINE S       == STRING \cup {Proxy}
           proxies == [i \in 1..Hops |-> Proxy]
           front   == c.forged \o <<c.address>>
<1>1. c.forged \in Seq(S) /\ c.address \in S /\ Hops \in Nat
  BY IngressAssumption
<1>2. proxies \in Seq(S) /\ Len(proxies) = Hops
  <2>1. proxies \in [1..Hops -> S]
    OBVIOUS
  <2>2. ASSUME NEW f \in [1..Hops -> S]
        PROVE  f \in Seq(S) /\ Len(f) = Hops
    BY <1>1
  <2> HIDE DEF proxies, S
  <2> QED
    BY <2>1, <2>2
<1>3. front \in Seq(S) /\ Len(front) = Len(c.forged) + 1
      /\ front[Len(c.forged) + 1] = c.address
  <2> HIDE DEF S
  <2> QED
    BY <1>1
<1>4. Len(Chain(c)) = Len(c.forged) + 1 + Hops
      /\ Chain(c)[Len(c.forged) + 1] = c.address
  BY <1>1, <1>2, <1>3 DEF Chain
<1> QED
  BY <1>1, <1>4 DEF ClientIP

(***************************************************************************)
(* So the key of a caller's bucket is its own id or address.               *)
(***************************************************************************)
LEMMA KeyIsName ==
  ASSUME NEW c \in Callers
  PROVE  Resolve(c).key = NameOf(c)
BY ClientIPIsAddress DEF Resolve, NameOf, Anonymous

(***************************************************************************)
(* A request keeps the identity that Auth gave it.                         *)
(***************************************************************************)
LEMMA StepIdentified ==
  ASSUME Shape, Identified, [Next]_vars
  PROVE  Identified'
<1> USE DEF Shape, Identified, At
<1>0. UNCHANGED <<mode, asked>> => \A c : Resolve(c)' = Resolve(c)
  BY DEF Resolve, Recognised, Anonymous, ClientIP, Chain
<1>1. ASSUME NEW r \in Requests, Inflight(r)
      PROVE  Identified'
  BY <1>0, <1>1 DEF Inflight
<1>2. ASSUME NEW r \in Requests, Auth(r)
      PROVE  Identified'
  BY <1>0, <1>2 DEF Auth
<1>3. ASSUME NEW r \in Requests, Lookup(r) \/ AllowN(r)
      PROVE  Identified'
  BY <1>0, <1>3 DEF Lookup, AllowN
<1>4. ASSUME NEW r \in Requests, ReserveN(r) \/ CancelAt(r)
      PROVE  Identified'
  BY <1>0, <1>4 DEF ReserveN, CancelAt
<1>5. ASSUME NEW r \in Requests, MaxBody(r)
      PROVE  Identified'
  BY <1>0, <1>5 DEF MaxBody
<1>6. ASSUME NEW r \in Requests, Handle(r) \/ Unwind(r)
      PROVE  Identified'
  <2>1. CASE Handle(r)
    BY <1>0, <2>1 DEF Handle
  <2>2. CASE Unwind(r)
    BY <1>0, <2>2 DEF Unwind
  <2> QED
    BY <1>6, <2>1, <2>2
<1>7. CASE Tick \/ Sweep \/ UNCHANGED vars
  <2>1. UNCHANGED <<mode, asked, requests>>
    BY <1>7 DEF Tick, Sweep, vars
  <2> QED
    BY <2>1 DEF Resolve, Recognised, Anonymous, ClientIP, Chain
<1> QED
  BY <1>1, <1>2, <1>3, <1>4, <1>5, <1>6, <1>7 DEF Next, Step

(***************************************************************************)
(* A step of a request puts at most its own caller's bucket into the       *)
(* table, and nobody else puts any.                                        *)
(***************************************************************************)
LEMMA StepNamed ==
  ASSUME Shape, Identified, Named, [Next]_vars
  PROVE  Named'
<1> DEFINE Seen == {NameOf(asked[r]) : r \in {q \in Requests : requests[q].pc # "new"}}
<1>0. UNCHANGED <<mode, asked>>
  BY DEF Next, Step, Inflight, Auth, Lookup, AllowN, ReserveN, CancelAt, MaxBody, Handle,
         Unwind, Tick, Sweep, vars
<1>1. ASSUME NEW c
      PROVE  NameOf(c)' = NameOf(c)
  BY <1>0 DEF NameOf, Recognised
<1>2. \A r \in Requests : requests[r].pc # "new" => requests'[r].pc # "new"
  <2>1. CASE Tick \/ Sweep \/ UNCHANGED vars
    BY <2>1 DEF Tick, Sweep, vars
  <2>2. ASSUME NEW r \in Requests, Step(r)
        PROVE  /\ requests'[r].pc # "new"
               /\ \A q \in Requests \ {r} : requests'[q] = requests[q]
    <3>1. CASE Inflight(r)
      BY <3>1 DEF Inflight, Shape
    <3>2. CASE Auth(r)
      BY <3>2 DEF Auth, Shape
    <3>3. CASE Lookup(r) \/ AllowN(r) \/ ReserveN(r) \/ CancelAt(r)
      BY <3>3 DEF Lookup, AllowN, ReserveN, CancelAt, Shape
    <3>4. CASE MaxBody(r)
      BY <3>4 DEF MaxBody, Shape
    <3>5. CASE Handle(r)
      BY <3>5 DEF Handle, Shape
    <3>6. CASE Unwind(r)
      BY <3>6 DEF Unwind, Shape
    <3> QED
      BY <2>2, <3>1, <3>2, <3>3, <3>4, <3>5, <3>6 DEF Step
  <2> QED
    BY <2>1, <2>2 DEF Next
<1>3. Seen \subseteq Seen'
  BY <1>0, <1>1, <1>2
<1>4. ASSUME NEW r \in Requests, Lookup(r) \/ AllowN(r) \/ ReserveN(r) \/ CancelAt(r)
      PROVE  /\ buckets' = [k \in Keys |-> buckets'[k]]
             /\ Held' \subseteq Held \cup {NameOf(asked[r])}
             /\ requests[r].pc # "new"
  <2>1. requests[r].pc # "new" /\ requests[r].id = Resolve(asked[r])
    BY <1>4 DEF Lookup, AllowN, ReserveN, CancelAt, At, Identified
  <2>2. requests[r].id.key = NameOf(asked[r])
    BY <2>1, KeyIsName DEF Named
  <2>3. /\ buckets' = [k \in Keys |-> buckets'[k]]
        /\ \A k \in Keys : k # requests[r].id.key => buckets'[k] = buckets[k]
    BY <1>4 DEF Lookup, AllowN, ReserveN, CancelAt, Named
  <2> QED
    BY <2>1, <2>2, <2>3 DEF Held, Named
<1>5. CASE Tick \/ Sweep
  <2>1. /\ buckets' = [k \in Keys |-> buckets'[k]]
        /\ \A k \in Keys : k \notin Held => buckets'[k] = NoBucket
    BY <1>5 DEF Tick, Sweep, Named
  <2>2. Held' \subseteq Held
    BY <2>1 DEF Held, NoBucket
  <2> QED
    BY <1>0, <1>3, <2>1, <2>2 DEF Named
<1>6. ASSUME UNCHANGED buckets
      PROVE  Named'
  BY <1>0, <1>3, <1>6 DEF Named, Held
<1>7. ASSUME NEW r \in Requests, Lookup(r) \/ AllowN(r) \/ ReserveN(r) \/ CancelAt(r)
      PROVE  Named'
  BY <1>0, <1>3, <1>4, <1>7 DEF Named
<1> QED
  BY <1>5, <1>6, <1>7 DEF Next, Step, Inflight, Auth, MaxBody, Handle, Unwind, vars

(***************************************************************************)
(* For every number of proxies and every header, a bucket belongs to a     *)
(* configured client or to the address of somebody who asked.              *)
(***************************************************************************)
THEOREM BucketsCorrect == Spec => []BucketsNameCallers
<1>1. Init => Shape /\ Identified /\ Named
  <2> SUFFICES ASSUME Init PROVE Shape /\ Identified /\ Named
    OBVIOUS
  <2>1. Shape /\ Identified
    BY DEF Init, Shape, Identified, Waiting
  <2>2. Held = {} /\ buckets = [k \in Keys |-> buckets[k]]
    BY DEF Init, Held, NoBucket
  <2>3. asked \in [Requests -> Callers]
    BY DEF Init
  <2> QED
    BY <2>1, <2>2, <2>3 DEF Named
<1>2. Shape /\ Identified /\ Named /\ [Next]_vars => (Shape /\ Identified /\ Named)'
  BY StepShape, StepIdentified, StepNamed
<1>3. Named => BucketsNameCallers
  BY DEF Named, BucketsNameCallers, NameOf, At
<1> QED
  BY <1>1, <1>2, <1>3, PTL DEF Spec

-----------------------------------------------------------------------------
(* Quotas.  Two conditions on the configuration, neither of which Validate *)
(* asks for: without the first a client and an address may share a bucket  *)
(* and replace it by turns, without the second a sweep forgives a debt.    *)

\* No client's id is an address.
NamesApart == Ids \cap Addresses = {}

\* A bucket that is dropped has had the time to fill up.
SweepsFull == \A tier \in Tiers : Bursts[tier] <= (KeyTTL + 1) * Rates[tier]

\* The bucket of key k, or none.
Sane(k, b) ==
  \/ b = NoBucket
  \/ /\ b \in [tier : Tiers, tokens : Int, last : Int, idle : Nat]
     /\ b.tier = TierOf(k) /\ b.tokens <= Bursts[b.tier]

AllSane == \A k \in Keys : Sane(k, buckets[k])

\* Nobody is granted anything before AllowN.
Ungranted ==
  \A r \in Requests :
    /\ requests[r].granted \in BOOLEAN
    /\ requests[r].pc \in {"new", "auth", "limit", "allow", "reserve", "cancel"} =>
         ~requests[r].granted

\* The bucket that Allow works on is in the table, and was seen just now.
Looked ==
  \A r \in InAllow : LET b == buckets[requests[r].id.key] IN b.tier # "none" /\ b.idle = 0

\* Whoever was refused finds the bucket empty until the end of the tick.
Refused ==
  \A r \in Requests : requests[r].pc \in {"reserve", "cancel"} =>
    buckets[requests[r].id.key].tokens <= 0

\* The reservations of a bucket are numbered by the debt they make, and the
\* latest is the bucket's latest event: so only its cancellation gives a token
\* back, and that never more than was owed.
Numbered ==
  \A r \in Requests : requests[r].pc = "cancel" =>
    LET b == buckets[requests[r].id.key]
    IN  /\ requests[r].at \in Int /\ 1 <= requests[r].at /\ requests[r].at <= b.last
        /\ b.last = -b.tokens
        /\ \A q \in Requests \ {r} :
             requests[q].pc = "cancel" /\ requests[q].id.key = requests[r].id.key =>
               requests[q].at # requests[r].at

BaseInv  == Shape /\ Identified /\ Named
QuotaInv == AllSane /\ Ungranted /\ Looked /\ Refused /\ Numbered

\* What a caller with bucket b may still spend.
Worth(k, b) ==
  IF b.tier # "none" THEN Larger(b.tokens, Smaller(QuotaBurst(k), b.idle * QuotaRate(k)))
  ELSE QuotaBurst(k)

(***************************************************************************)
(* Every key has a tier, and every tier a rate and a burst.                *)
(***************************************************************************)
LEMMA QuotaOf ==
  ASSUME NEW k
  PROVE  /\ TierOf(k) \in Tiers
         /\ QuotaRate(k) \in Nat \ {0} /\ QuotaBurst(k) \in Nat \ {0}
<1>1. TierOf(k) \in Tiers
  <2>1. CASE \E t \in DOMAIN Clients : Clients[t].id = k
    <3> DEFINE cs == {Clients[t] : t \in DOMAIN Clients}
               c  == CHOOSE d \in cs : d.id = k
    <3>1. \E d \in cs : d.id = k
      BY <2>1
    <3>2. c \in cs
      BY <3>1
    <3>3. c.tier \in Tiers
      BY <3>2, IngressAssumption DEF ClientsValid
    <3> QED
      BY <2>1, <3>3 DEF TierOf
  <2>2. CASE ~\E t \in DOMAIN Clients : Clients[t].id = k
    BY <2>2 DEF TierOf, Tiers
  <2> QED
    BY <2>1, <2>2
<1> QED
  BY <1>1, LimiterAssumption DEF QuotaRate, QuotaBurst, QuotasValid

(***************************************************************************)
(* A caller is looked up under a key of the table, and always with the     *)
(* tier that the key has.                                                  *)
(***************************************************************************)
LEMMA ResolveKey ==
  ASSUME NEW c \in Callers, NamesApart
  PROVE  Resolve(c).key \in Keys /\ Resolve(c).tier = TierOf(Resolve(c).key)
<1>1. CASE Recognised(c)
  <2> DEFINE k  == Clients[c.token].id
             cs == {Clients[t] : t \in DOMAIN Clients}
             d  == CHOOSE e \in cs : e.id = k
  <2>0. c.token \in DOMAIN Clients
    BY <1>1 DEF Recognised
  <2>1. \E e \in cs : e.id = k
    BY <2>0
  <2>2. d \in cs /\ d.id = k
    BY <2>1
  <2>3. d = Clients[c.token]
    BY <2>0, <2>2, IngressAssumption DEF ClientsValid
  <2>4. TierOf(k) = d.tier
    BY <2>0 DEF TierOf
  <2>5. k \in Keys
    BY <2>0 DEF Keys, Ids
  <2> QED
    BY <1>1, <2>3, <2>4, <2>5 DEF Resolve
<1>2. CASE ~Recognised(c)
  <2>1. Resolve(c).key = c.address /\ Resolve(c).tier = "anonymous"
    BY <1>2, ClientIPIsAddress DEF Resolve, Anonymous
  <2>2. c.address \in Addresses
    BY DEF Addresses
  <2>3. c.address \notin Ids
    BY <2>2 DEF NamesApart
  <2> QED
    BY <2>1, <2>2, <2>3 DEF TierOf, Ids, Keys
<1> QED
  BY <1>1, <1>2

-----------------------------------------------------------------------------
(* The operations on a bucket, and what each does to its worth.            *)

(***************************************************************************)
(* What a caller may spend is a number, and never more than its burst.     *)
(***************************************************************************)
LEMMA WorthBound ==
  ASSUME NEW k, NEW b, Sane(k, b)
  PROVE  Worth(k, b) \in Nat /\ Worth(k, b) <= QuotaBurst(k)
<1> DEFINE R == QuotaRate(k)
           B == QuotaBurst(k)
<1>1. R \in Nat /\ B \in Nat /\ B = Bursts[TierOf(k)]
  BY QuotaOf DEF QuotaBurst
<1> HIDE DEF R, B
<1>2. CASE b = NoBucket
  BY <1>1, <1>2 DEF Worth, NoBucket, B
<1>3. CASE b # NoBucket
  <2>1. b.tokens \in Int /\ b.tokens <= B /\ b.idle \in Nat
    BY <1>1, <1>3 DEF Sane
  <2>2. b.idle * R \in Nat
    BY <1>1, <2>1
  <2>3. Worth(k, b) = Larger(b.tokens, Smaller(B, b.idle * R))
    BY <1>3 DEF Sane, Worth, Tiers, R, B
  <2> QED
    BY <1>1, <2>1, <2>2, <2>3 DEF Larger, Smaller, B
<1> QED
  BY <1>2, <1>3

(***************************************************************************)
(* Being seen gives nothing: a bucket that is built is full, as the caller *)
(* without one was promised, and one that is found keeps its tokens.       *)
(***************************************************************************)
LEMMA FoundBucket ==
  ASSUME NEW k, NEW b, Sane(k, b)
  PROVE  LET c == Found(b, TierOf(k))
         IN  /\ Sane(k, c) /\ c.tier # "none" /\ c.idle = 0
             /\ b.tier # "none" => c.tokens = b.tokens /\ c.last = b.last
             /\ Worth(k, c) <= Worth(k, b)
<1> DEFINE R == QuotaRate(k)
           B == QuotaBurst(k)
           c == Found(b, TierOf(k))
<1>1. /\ TierOf(k) \in Tiers /\ R \in Nat /\ B \in Nat /\ B = Bursts[TierOf(k)]
  BY QuotaOf DEF QuotaBurst
<1>0. "none" \notin Tiers
  BY DEF Tiers
<1> HIDE DEF R, B
<1>2. CASE b = NoBucket
  <2>1. c = [tier |-> TierOf(k), tokens |-> B, last |-> 0, idle |-> 0]
    BY <1>0, <1>1, <1>2 DEF Found, NoBucket, NewBucket
  <2>2. Worth(k, b) = B
    BY <1>2 DEF Worth, NoBucket, B
  <2>3. Worth(k, c) = Larger(B, Smaller(B, 0 * R))
    BY <1>0, <1>1, <2>1 DEF Worth, R, B
  <2>4. 0 * R = 0
    BY <1>1
  <2> QED
    BY <1>0, <1>1, <1>2, <2>1, <2>2, <2>3, <2>4 DEF Sane, NoBucket, Larger, Smaller
<1>3. CASE b # NoBucket
  <2>1. /\ b \in [tier : Tiers, tokens : Int, last : Int, idle : Nat]
        /\ b.tier = TierOf(k) /\ b.tokens <= B
    BY <1>1, <1>3 DEF Sane
  <2>2. c = [b EXCEPT !.idle = 0]
    BY <2>1 DEF Found
  <2>3. /\ c \in [tier : Tiers, tokens : Int, last : Int, idle : Nat]
        /\ c.tier = b.tier /\ c.tokens = b.tokens /\ c.last = b.last /\ c.idle = 0
    BY <2>1, <2>2
  <2>4. /\ Worth(k, b) = Larger(b.tokens, Smaller(B, b.idle * R))
        /\ Worth(k, c) = Larger(b.tokens, Smaller(B, 0 * R))
    BY <1>0, <2>1, <2>3 DEF Worth, R, B
  <2>5. 0 * R = 0 /\ b.idle * R \in Nat
    BY <1>1, <2>1
  <2>6. Worth(k, c) <= Worth(k, b)
    BY <1>1, <2>1, <2>4, <2>5 DEF Larger, Smaller
  <2> QED
    BY <1>0, <1>1, <2>1, <2>3, <2>6 DEF Sane
<1> QED
  BY <1>2, <1>3

(***************************************************************************)
(* A bucket that was seen just now is worth its tokens.                    *)
(***************************************************************************)
LEMMA SeenWorth ==
  ASSUME NEW k, NEW b, Sane(k, b), b.tier # "none", b.idle = 0
  PROVE  Worth(k, b) = IF b.tokens > 0 THEN b.tokens ELSE 0
<1>1. QuotaRate(k) \in Nat /\ QuotaBurst(k) \in Nat \ {0}
  BY QuotaOf
<1>2. b.tokens \in Int
  BY DEF Sane, NoBucket
<1>3. 0 * QuotaRate(k) = 0
  BY <1>1
<1> QED
  BY <1>1, <1>2, <1>3 DEF Worth, Larger, Smaller

(***************************************************************************)
(* Setting the tokens and the latest event of a bucket.                    *)
(***************************************************************************)
LEMMA SetTokens ==
  ASSUME NEW b \in [tier : Tiers, tokens : Int, last : Int, idle : Nat],
         NEW n \in Int, NEW l \in Int
  PROVE  LET c == [b EXCEPT !.tokens = n, !.last = l]
         IN  /\ c \in [tier : Tiers, tokens : Int, last : Int, idle : Nat]
             /\ c.tier = b.tier /\ c.tokens = n /\ c.last = l /\ c.idle = b.idle
OBVIOUS

(***************************************************************************)
(* Taking a token costs one.                                               *)
(***************************************************************************)
LEMMA TakenBucket ==
  ASSUME NEW k, NEW b, Sane(k, b), b.tier # "none", b.idle = 0, Allows(b)
  PROVE  LET c == Taken(b)
         IN  /\ Sane(k, c) /\ c.tier # "none" /\ c.idle = 0
             /\ Worth(k, b) > 0 /\ Worth(k, c) = Worth(k, b) - 1
<1> DEFINE c == Taken(b)
<1>1. /\ b \in [tier : Tiers, tokens : Int, last : Int, idle : Nat]
      /\ b.tier = TierOf(k) /\ b.tokens <= Bursts[b.tier] /\ Bursts[b.tier] \in Nat
  BY QuotaOf DEF Sane, NoBucket, QuotaBurst
<1>2. /\ c \in [tier : Tiers, tokens : Int, last : Int, idle : Nat]
      /\ c.tier = b.tier /\ c.tokens = b.tokens - 1 /\ c.idle = 0
  <2> DEFINE n == b.tokens - 1
             l == 0
  <2>1. c = [b EXCEPT !.tokens = n, !.last = l]
    BY DEF Taken
  <2>2. n \in Int /\ n = b.tokens - 1 /\ l \in Int
    BY <1>1
  <2> HIDE DEF n, l, c
  <2> QED
    BY <1>1, <2>1, <2>2, SetTokens
<1>3. Sane(k, c)
  BY <1>1, <1>2 DEF Sane
<1>4. /\ Worth(k, b) = IF b.tokens > 0 THEN b.tokens ELSE 0
      /\ Worth(k, c) = IF c.tokens > 0 THEN c.tokens ELSE 0
  BY <1>2, <1>3, SeenWorth
<1> QED
  BY <1>1, <1>2, <1>3, <1>4 DEF Allows

(***************************************************************************)
(* A reservation in an empty bucket only makes a debt.                     *)
(***************************************************************************)
LEMMA ReservedBucket ==
  ASSUME NEW k, NEW b, Sane(k, b), b.tier # "none", b.idle = 0, b.tokens <= 0
  PROVE  LET c == Reserved(b)
         IN  /\ Sane(k, c) /\ c.tier # "none" /\ c.idle = 0 /\ c.tokens <= 0
             /\ c.last \in Int /\ c.last = TimeToAct(b) /\ c.last = -c.tokens
             /\ TimeToAct(b) \in Int /\ TimeToAct(b) = -b.tokens + 1 /\ TimeToAct(b) >= 1
             /\ Worth(k, c) = Worth(k, b)
<1> DEFINE c == Reserved(b)
<1>1. /\ b \in [tier : Tiers, tokens : Int, last : Int, idle : Nat]
      /\ b.tier = TierOf(k) /\ b.tokens <= Bursts[b.tier] /\ Bursts[b.tier] \in Nat
  BY QuotaOf DEF Sane, NoBucket, QuotaBurst
<1>0. TimeToAct(b) \in Int /\ TimeToAct(b) = 1 - b.tokens
  BY <1>1 DEF TimeToAct
<1>2. /\ c \in [tier : Tiers, tokens : Int, last : Int, idle : Nat]
      /\ c.tier = b.tier /\ c.tokens = b.tokens - 1 /\ c.idle = 0 /\ c.last = TimeToAct(b)
  <2> DEFINE n == b.tokens - 1
  <2>1. c = [b EXCEPT !.tokens = n, !.last = TimeToAct(b)]
    BY DEF Reserved
  <2>2. n \in Int /\ n = b.tokens - 1
    BY <1>1
  <2> HIDE DEF n, c
  <2> QED
    BY <1>0, <1>1, <2>1, <2>2, SetTokens
<1>3. Sane(k, c)
  BY <1>1, <1>2 DEF Sane
<1>4. /\ Worth(k, b) = IF b.tokens > 0 THEN b.tokens ELSE 0
      /\ Worth(k, c) = IF c.tokens > 0 THEN c.tokens ELSE 0
  BY <1>2, <1>3, SeenWorth
<1> QED
  BY <1>0, <1>1, <1>2, <1>3, <1>4

(***************************************************************************)
(* Giving a reservation back pays at most the debt it made.                *)
(***************************************************************************)
LEMMA CancelledBucket ==
  ASSUME NEW k, NEW b, Sane(k, b), b.tier # "none", b.idle = 0,
         NEW at \in Int, 1 <= at, at <= b.last, b.last = -b.tokens
  PROVE  LET c == Cancelled(b, at)
         IN  /\ Sane(k, c) /\ c.tier # "none" /\ c.idle = 0 /\ c.tokens <= 0
             /\ c.last \in Int /\ c.last = -c.tokens
             /\ c.last = IF at = b.last THEN at - 1 ELSE b.last
             /\ Worth(k, c) = Worth(k, b)
<1> DEFINE c == Cancelled(b, at)
<1>1. /\ b \in [tier : Tiers, tokens : Int, last : Int, idle : Nat]
      /\ b.tier = TierOf(k) /\ b.tokens <= Bursts[b.tier] /\ Bursts[b.tier] \in Nat
  BY QuotaOf DEF Sane, NoBucket, QuotaBurst
<1>0. Smaller(Bursts[b.tier], b.tokens + Larger(0, 1 - (b.last - at)))
        = IF at = b.last THEN b.tokens + 1 ELSE b.tokens
  BY <1>1 DEF Smaller, Larger
<1>2. /\ c \in [tier : Tiers, tokens : Int, last : Int, idle : Nat]
      /\ c.tier = b.tier /\ c.idle = 0
      /\ c.tokens = IF at = b.last THEN b.tokens + 1 ELSE b.tokens
      /\ c.last = IF at = b.last THEN at - 1 ELSE b.last
  <2> DEFINE n == Smaller(Bursts[b.tier], b.tokens + Larger(0, 1 - (b.last - at)))
             l == IF b.last = at THEN at - 1 ELSE b.last
  <2>1. c = [b EXCEPT !.tokens = n, !.last = l]
    BY DEF Cancelled
  <2>2. n = (IF at = b.last THEN b.tokens + 1 ELSE b.tokens) /\ n \in Int
    BY <1>0, <1>1
  <2>3. l = (IF at = b.last THEN at - 1 ELSE b.last) /\ l \in Int
    BY <1>1
  <2> HIDE DEF n, l, c
  <2> QED
    BY <1>1, <2>1, <2>2, <2>3, SetTokens
<1>3. Sane(k, c)
  BY <1>1, <1>2 DEF Sane
<1>4. /\ Worth(k, b) = IF b.tokens > 0 THEN b.tokens ELSE 0
      /\ Worth(k, c) = IF c.tokens > 0 THEN c.tokens ELSE 0
  BY <1>2, <1>3, SeenWorth
<1> QED
  BY <1>1, <1>2, <1>3, <1>4

(***************************************************************************)
(* A tick gives at most the rate.                                          *)
(***************************************************************************)
LEMMA RefilledBucket ==
  ASSUME NEW k, NEW b, Sane(k, b), b.tier # "none"
  PROVE  Sane(k, Refilled(b)) /\ Worth(k, Refilled(b)) <= Worth(k, b) + QuotaRate(k)
<1> DEFINE c == Refilled(b)
           R == QuotaRate(k)
           B == QuotaBurst(k)
<1>1. /\ b \in [tier : Tiers, tokens : Int, last : Int, idle : Nat]
      /\ b.tier = TierOf(k) /\ b.tokens <= B
      /\ R \in Nat /\ B \in Nat /\ R = Rates[b.tier] /\ B = Bursts[b.tier]
      /\ KeyTTL \in Nat
  BY QuotaOf, LimiterAssumption DEF Sane, NoBucket, QuotaBurst, QuotaRate, QuotasValid
<1> HIDE DEF R, B
<1>2. /\ Smaller(B, b.tokens + R) \in Int /\ Smaller(B, b.tokens + R) <= B
      /\ Smaller(B, b.tokens + R) <= b.tokens + R
      /\ Smaller(KeyTTL + 1, b.idle + 1) \in Nat
      /\ Smaller(KeyTTL + 1, b.idle + 1) <= b.idle + 1
  BY <1>1 DEF Smaller
<1>3. /\ c \in [tier : Tiers, tokens : Int, last : Int, idle : Nat]
      /\ c.tier = b.tier
      /\ c.tokens = Smaller(B, b.tokens + R)
      /\ c.idle = Smaller(KeyTTL + 1, b.idle + 1)
  BY <1>1, <1>2 DEF Refilled
<1>4. Sane(k, c)
  BY <1>1, <1>2, <1>3 DEF Sane
<1>5. c.idle * R <= b.idle * R + R /\ c.idle * R \in Nat /\ b.idle * R \in Nat
  <2>1. \A m, n, x \in Nat : m <= n + 1 => m * x <= n * x + x /\ m * x \in Nat /\ n * x \in Nat
    OBVIOUS
  <2> QED
    BY <1>1, <1>2, <1>3, <2>1
<1>6. /\ Worth(k, b) = Larger(b.tokens, Smaller(B, b.idle * R))
      /\ Worth(k, c) = Larger(c.tokens, Smaller(B, c.idle * R))
  BY <1>3 DEF Worth, R, B
<1>7. Worth(k, c) <= Worth(k, b) + R
  BY <1>1, <1>2, <1>3, <1>5, <1>6 DEF Larger, Smaller
<1> QED
  BY <1>4, <1>7 DEF R

(***************************************************************************)
(* A bucket that is dropped was full for all that its caller can tell.     *)
(***************************************************************************)
LEMMA ExpiredBucket ==
  ASSUME NEW k, NEW b, Sane(k, b), b.tier # "none", Expired(b), SweepsFull
  PROVE  Worth(k, b) = QuotaBurst(k)
<1> DEFINE R == QuotaRate(k)
           B == QuotaBurst(k)
<1>1. /\ b \in [tier : Tiers, tokens : Int, last : Int, idle : Nat]
      /\ b.tier = TierOf(k) /\ b.tokens <= B
      /\ R \in Nat /\ B \in Nat /\ R = Rates[b.tier] /\ B = Bursts[b.tier]
      /\ KeyTTL \in Nat
  BY QuotaOf, LimiterAssumption DEF Sane, NoBucket, QuotaBurst, QuotaRate, QuotasValid
<1> HIDE DEF R, B
<1>2. b.idle >= KeyTTL + 1 /\ B <= (KeyTTL + 1) * R
  BY <1>1 DEF Expired, SweepsFull
<1>3. (KeyTTL + 1) * R <= b.idle * R /\ b.idle * R \in Nat /\ (KeyTTL + 1) * R \in Nat
  <2>1. \A m, n, x \in Nat : m <= n => m * x <= n * x /\ m * x \in Nat /\ n * x \in Nat
    OBVIOUS
  <2> QED
    BY <1>1, <1>2, <2>1
<1>4. Worth(k, b) = Larger(b.tokens, Smaller(B, b.idle * R))
  BY DEF Worth, R, B
<1>5. Worth(k, b) = B
  BY <1>1, <1>2, <1>3, <1>4 DEF Larger, Smaller
<1> QED
  BY <1>5 DEF B

-----------------------------------------------------------------------------
(* The steps of a request.                                                 *)

\* Request r moves on, and b is what it leaves in its bucket.
Touches(r, b) ==
  /\ \A q \in Requests \ {r} : requests'[q] = requests[q]
  /\ requests'[r].id = requests[r].id
  /\ \A j \in Keys \ {requests[r].id.key} : buckets'[j] = buckets[j]
  /\ buckets'[requests[r].id.key] = b

(***************************************************************************)
(* A request in the limiter works on a bucket of the table.                *)
(***************************************************************************)
LEMMA OwnKey ==
  ASSUME BaseInv, NamesApart, NEW r \in Requests,
         requests[r].pc \in {"limit", "allow", "reserve", "cancel"}
  PROVE  /\ requests[r].id.key \in Keys
         /\ requests[r].id.tier = TierOf(requests[r].id.key)
<1>1. requests[r].id = Resolve(asked[r]) /\ asked[r] \in Callers
  BY DEF BaseInv, Identified, Named
<1> QED
  BY <1>1, ResolveKey

(***************************************************************************)
(* What the four steps of Allow do to the table.                           *)
(***************************************************************************)
LEMMA AllowTouches ==
  ASSUME BaseInv, NamesApart, NEW r \in Requests
  PROVE  LET k == requests[r].id.key
         IN  /\ Lookup(r) =>
                  /\ Touches(r, Found(buckets[k], TierOf(k)))
                  /\ requests'[r].pc = "allow"
                  /\ requests'[r].granted = requests[r].granted
             /\ AllowN(r) /\ Allows(buckets[k]) =>
                  /\ Touches(r, Taken(buckets[k]))
                  /\ requests'[r].pc = "body" /\ requests'[r].granted = TRUE
             /\ AllowN(r) /\ ~Allows(buckets[k]) =>
                  /\ Touches(r, buckets[k]) /\ UNCHANGED buckets
                  /\ requests'[r].pc = "reserve"
                  /\ requests'[r].granted = requests[r].granted
             /\ ReserveN(r) =>
                  /\ Touches(r, Reserved(buckets[k]))
                  /\ requests'[r].pc = "cancel" /\ requests'[r].at = TimeToAct(buckets[k])
                  /\ requests'[r].granted = requests[r].granted
             /\ CancelAt(r) =>
                  /\ Touches(r, Cancelled(buckets[k], requests[r].at))
                  /\ requests'[r].pc = "unwind"
                  /\ requests'[r].granted = requests[r].granted
<1> DEFINE k == requests[r].id.key
<1>0. Shape /\ buckets = [j \in Keys |-> buckets[j]]
  BY DEF BaseInv, Named
<1>1. ASSUME Lookup(r)
      PROVE  /\ Touches(r, Found(buckets[k], TierOf(k)))
             /\ requests'[r].pc = "allow"
             /\ requests'[r].granted = requests[r].granted
  <2>1. k \in Keys /\ requests[r].id.tier = TierOf(k)
    BY <1>1, OwnKey DEF Lookup, At
  <2> QED
    BY <1>0, <1>1, <2>1 DEF Lookup, Touches, Shape
<1>2. ASSUME AllowN(r), Allows(buckets[k])
      PROVE  /\ Touches(r, Taken(buckets[k]))
             /\ requests'[r].pc = "body" /\ requests'[r].granted = TRUE
  <2>1. k \in Keys
    BY <1>2, OwnKey DEF AllowN, At
  <2> QED
    BY <1>0, <1>2, <2>1 DEF AllowN, Touches, Shape
<1>3. ASSUME AllowN(r), ~Allows(buckets[k])
      PROVE  /\ Touches(r, buckets[k]) /\ UNCHANGED buckets
             /\ requests'[r].pc = "reserve"
             /\ requests'[r].granted = requests[r].granted
  BY <1>0, <1>3 DEF AllowN, Touches, Shape
<1>4. ASSUME ReserveN(r)
      PROVE  /\ Touches(r, Reserved(buckets[k]))
             /\ requests'[r].pc = "cancel" /\ requests'[r].at = TimeToAct(buckets[k])
             /\ requests'[r].granted = requests[r].granted
  <2>1. k \in Keys
    BY <1>4, OwnKey DEF ReserveN, At
  <2> DEFINE t == TimeToAct(buckets[k])
             c == Reserved(buckets[k])
  <2>2. /\ buckets' = [buckets EXCEPT ![k] = c]
        /\ requests' = [requests EXCEPT ![r].pc = "cancel", ![r].at = t]
    BY <1>4 DEF ReserveN
  <2> HIDE DEF t, c
  <2>3. /\ requests'[r].pc = "cancel" /\ requests'[r].at = t
        /\ requests'[r].granted = requests[r].granted /\ requests'[r].id = requests[r].id
        /\ \A q \in Requests \ {r} : requests'[q] = requests[q]
    <3>1. /\ requests'[r] = [requests[r] EXCEPT !.pc = "cancel", !.at = t]
          /\ \A q \in Requests \ {r} : requests'[q] = requests[q]
      BY <1>0, <2>2 DEF Shape
    <3>2. ASSUME NEW e, e = [pc |-> e.pc, id |-> e.id, at |-> e.at, granted |-> e.granted,
                             result |-> e.result, status |-> e.status]
          PROVE  LET f == [e EXCEPT !.pc = "cancel", !.at = t]
                 IN  f.pc = "cancel" /\ f.at = t /\ f.granted = e.granted /\ f.id = e.id
      BY <3>2
    <3> QED
      BY <1>0, <3>1, <3>2 DEF Shape
  <2>4. buckets'[k] = c /\ \A j \in Keys \ {k} : buckets'[j] = buckets[j]
    BY <1>0, <2>1, <2>2
  <2> QED
    BY <2>3, <2>4 DEF Touches, t, c
<1>5. ASSUME CancelAt(r)
      PROVE  /\ Touches(r, Cancelled(buckets[k], requests[r].at))
             /\ requests'[r].pc = "unwind"
             /\ requests'[r].granted = requests[r].granted
  <2>1. k \in Keys
    BY <1>5, OwnKey DEF CancelAt, At
  <2> QED
    BY <1>0, <1>5, <2>1 DEF CancelAt, Touches, Shape
<1> QED
  BY <1>1, <1>2, <1>3, <1>4, <1>5

(***************************************************************************)
(* A request that leaves a sound bucket behind leaves a sound table.       *)
(***************************************************************************)
LEMMA TouchSane ==
  ASSUME BaseInv, QuotaInv, NamesApart, NEW r \in Requests, NEW b, Touches(r, b),
         requests[r].id.key \in Keys,
         Sane(requests[r].id.key, b), b.tier # "none", b.idle = 0
  PROVE  AllSane' /\ Looked'
<1> DEFINE k == requests[r].id.key
<1>1. AllSane'
  <2> SUFFICES ASSUME NEW j \in Keys PROVE Sane(j, buckets'[j])
    BY DEF AllSane, Sane, TierOf
  <2>1. CASE j = k
    BY <2>1 DEF Touches
  <2>2. CASE j # k
    BY <2>2 DEF Touches, QuotaInv, AllSane
  <2> QED
    BY <2>1, <2>2
<1>2. Looked'
  <2> SUFFICES ASSUME NEW q \in Requests, requests'[q].pc \in {"allow", "reserve", "cancel"}
               PROVE  /\ buckets'[requests'[q].id.key].tier # "none"
                      /\ buckets'[requests'[q].id.key].idle = 0
    BY DEF Looked, InAllow
  <2>1. CASE q = r
    BY <2>1 DEF Touches
  <2>2. CASE q # r
    <3>1. requests'[q] = requests[q]
      BY <2>2 DEF Touches
    <3>2. requests[q].id.key \in Keys
      BY <3>1, OwnKey
    <3>3. /\ buckets[requests[q].id.key].tier # "none"
          /\ buckets[requests[q].id.key].idle = 0
      BY <3>1 DEF QuotaInv, Looked, InAllow
    <3> QED
      BY <3>1, <3>2, <3>3 DEF Touches
  <2> QED
    BY <2>1, <2>2
<1> QED
  BY <1>1, <1>2

\* What Refused and Numbered say of request r, with the requests qs and the
\* table bs.
RefusedAt(r, qs, bs) ==
  qs[r].pc \in {"reserve", "cancel"} => bs[qs[r].id.key].tokens <= 0

NumberedAt(r, qs, bs) ==
  qs[r].pc = "cancel" =>
    LET b == bs[qs[r].id.key]
    IN  /\ qs[r].at \in Int /\ 1 <= qs[r].at /\ qs[r].at <= b.last
        /\ b.last = -b.tokens
        /\ \A q \in Requests \ {r} :
             qs[q].pc = "cancel" /\ qs[q].id.key = qs[r].id.key => qs[q].at # qs[r].at

(***************************************************************************)
(* They are said of every request.                                         *)
(***************************************************************************)
LEMMA Debts ==
  /\ Refused <=> \A r \in Requests : RefusedAt(r, requests, buckets)
  /\ Numbered <=> \A r \in Requests : NumberedAt(r, requests, buckets)
  /\ Refused' <=> \A r \in Requests : RefusedAt(r, requests', buckets')
  /\ Numbered' <=> \A r \in Requests : NumberedAt(r, requests', buckets')
BY DEF Refused, Numbered, RefusedAt, NumberedAt

(***************************************************************************)
(* A look-up changes no debt: where one is owed the bucket is found.       *)
(***************************************************************************)
LEMMA LookupQuota ==
  ASSUME BaseInv, QuotaInv, NamesApart, NEW r \in Requests, Lookup(r)
  PROVE  QuotaInv'
<1> DEFINE k == requests[r].id.key
           b == Found(buckets[k], TierOf(k))
<1>1. requests[r].pc = "limit" /\ k \in Keys
  BY OwnKey DEF Lookup, At
<1>2. Sane(k, buckets[k])
  BY <1>1 DEF QuotaInv, AllSane
<1>3. /\ Sane(k, b) /\ b.tier # "none" /\ b.idle = 0
      /\ buckets[k].tier # "none" => b.tokens = buckets[k].tokens /\ b.last = buckets[k].last
  BY <1>2, FoundBucket
<1>4. /\ Touches(r, b) /\ requests'[r].pc = "allow"
      /\ requests'[r].granted = requests[r].granted
  BY AllowTouches
<1> HIDE DEF b
<1>5. AllSane' /\ Looked'
  BY <1>1, <1>3, <1>4, TouchSane
<1>6. Ungranted'
  BY <1>1, <1>4 DEF QuotaInv, Ungranted, Touches
<1>7. ASSUME NEW q \in Requests, requests'[q].pc \in {"reserve", "cancel"}
      PROVE  /\ requests'[q] = requests[q]
             /\ buckets'[requests[q].id.key].tokens = buckets[requests[q].id.key].tokens
             /\ buckets'[requests[q].id.key].last = buckets[requests[q].id.key].last
  <2>1. q # r /\ requests'[q] = requests[q]
    BY <1>4, <1>7 DEF Touches
  <2>2. requests[q].id.key \in Keys /\ buckets[requests[q].id.key].tier # "none"
    BY <1>7, <2>1, OwnKey DEF QuotaInv, Looked, InAllow
  <2> QED
    BY <1>3, <1>4, <2>1, <2>2 DEF Touches
<1>8. \A q \in Requests : RefusedAt(q, requests, buckets) /\ NumberedAt(q, requests, buckets)
  BY Debts DEF QuotaInv
<1>9. \A q \in Requests : RefusedAt(q, requests', buckets')
  BY <1>7, <1>8 DEF RefusedAt
<1>10. \A q \in Requests : NumberedAt(q, requests', buckets')
  BY <1>7, <1>8 DEF NumberedAt
<1> QED
  BY <1>5, <1>6, <1>9, <1>10, Debts DEF QuotaInv

(***************************************************************************)
(* AllowN grants nothing from a bucket that somebody was refused by.       *)
(***************************************************************************)
LEMMA AllowQuota ==
  ASSUME BaseInv, QuotaInv, NamesApart, NEW r \in Requests, AllowN(r)
  PROVE  QuotaInv'
<1> DEFINE k == requests[r].id.key
           b == buckets[k]
<1>1. requests[r].pc = "allow" /\ k \in Keys
  BY OwnKey DEF AllowN, At
<1>2. Sane(k, b) /\ b.tier # "none" /\ b.idle = 0
  BY <1>1 DEF QuotaInv, AllSane, Looked, InAllow
<1>3. b.tokens \in Int
  BY <1>2 DEF Sane, NoBucket
<1>8. \A q \in Requests : RefusedAt(q, requests, buckets) /\ NumberedAt(q, requests, buckets)
  BY Debts DEF QuotaInv
<1>4. CASE Allows(b)
  <2> DEFINE c == Taken(b)
  <2>1. Sane(k, c) /\ c.tier # "none" /\ c.idle = 0
    BY <1>2, <1>4, TakenBucket
  <2>2. Touches(r, c) /\ requests'[r].pc = "body" /\ requests'[r].granted = TRUE
    BY <1>4, AllowTouches
  <2> HIDE DEF c
  <2>3. AllSane' /\ Looked'
    BY <1>1, <2>1, <2>2, TouchSane
  <2>4. Ungranted'
    BY <2>2 DEF QuotaInv, Ungranted, Touches
  <2>5. ASSUME NEW q \in Requests, requests'[q].pc \in {"reserve", "cancel"}
        PROVE  /\ requests'[q] = requests[q]
               /\ buckets'[requests[q].id.key] = buckets[requests[q].id.key]
    <3>1. q # r /\ requests'[q] = requests[q]
      BY <2>2, <2>5 DEF Touches
    <3>2. requests[q].id.key \in Keys
      BY <2>5, <3>1, OwnKey
    <3>3. buckets[requests[q].id.key].tokens <= 0
      BY <1>8, <2>5, <3>1 DEF RefusedAt
    <3>4. requests[q].id.key # k
      BY <1>3, <1>4, <3>3 DEF Allows
    <3> QED
      BY <2>2, <3>1, <3>2, <3>4 DEF Touches
  <2>6. \A q \in Requests : RefusedAt(q, requests', buckets')
    BY <1>8, <2>5 DEF RefusedAt
  <2>7. \A q \in Requests : NumberedAt(q, requests', buckets')
    BY <1>8, <2>5 DEF NumberedAt
  <2> QED
    BY <2>3, <2>4, <2>6, <2>7, Debts DEF QuotaInv
<1>5. CASE ~Allows(b)
  <2>1. /\ Touches(r, b) /\ UNCHANGED buckets
        /\ requests'[r].pc = "reserve"
        /\ requests'[r].granted = requests[r].granted
    BY <1>5, AllowTouches
  <2>2. b.tokens <= 0
    BY <1>3, <1>5 DEF Allows
  <2>3. AllSane' /\ Looked'
    BY <1>1, <1>2, <2>1, TouchSane
  <2>4. Ungranted'
    BY <1>1, <2>1 DEF QuotaInv, Ungranted, Touches
  <2>5. \A q \in Requests : RefusedAt(q, requests', buckets')
    BY <1>8, <2>1, <2>2 DEF RefusedAt, Touches
  <2>6. \A q \in Requests : NumberedAt(q, requests', buckets')
    BY <1>8, <2>1 DEF NumberedAt, Touches
  <2> QED
    BY <2>3, <2>4, <2>5, <2>6, Debts DEF QuotaInv
<1> QED
  BY <1>4, <1>5

(***************************************************************************)
(* A reservation takes the next number.                                    *)
(***************************************************************************)
LEMMA ReserveQuota ==
  ASSUME BaseInv, QuotaInv, NamesApart, NEW r \in Requests, ReserveN(r)
  PROVE  QuotaInv'
<1> DEFINE k == requests[r].id.key
           b == buckets[k]
           c == Reserved(b)
           t == TimeToAct(b)
<1>1. requests[r].pc = "reserve" /\ k \in Keys
  BY OwnKey DEF ReserveN, At
<1>8. \A q \in Requests : RefusedAt(q, requests, buckets) /\ NumberedAt(q, requests, buckets)
  BY Debts DEF QuotaInv
<1>2. Sane(k, b) /\ b.tier # "none" /\ b.idle = 0 /\ b.tokens <= 0
  BY <1>1, <1>8 DEF QuotaInv, AllSane, Looked, InAllow, RefusedAt
<1>3. /\ Sane(k, c) /\ c.tier # "none" /\ c.idle = 0 /\ c.tokens <= 0
      /\ c.last \in Int /\ c.last = t /\ c.last = -c.tokens
      /\ t \in Int /\ t = -b.tokens + 1 /\ t >= 1
  BY <1>2, ReservedBucket
<1>4. /\ Touches(r, c) /\ requests'[r].pc = "cancel" /\ requests'[r].at = t
      /\ requests'[r].granted = requests[r].granted
  BY AllowTouches
<1>0. b.tokens \in Int /\ b.last \in Int
  BY <1>2 DEF Sane, NoBucket
<1> HIDE DEF c, t
<1>14. t \in Int /\ t = -b.tokens + 1
  BY <1>3
<1>15. 1 <= t /\ t <= c.last
  <2>1. t >= 1 /\ c.last = t
    BY <1>3
  <2> QED
    BY <1>14, <2>1
<1>5. AllSane' /\ Looked'
  BY <1>1, <1>3, <1>4, TouchSane
<1>6. Ungranted'
  BY <1>1, <1>4 DEF QuotaInv, Ungranted, Touches
<1>7. ASSUME NEW q \in Requests \ {r}, requests'[q].pc \in {"reserve", "cancel"}
      PROVE  requests'[q] = requests[q] /\ requests[q].id.key \in Keys
  BY <1>4, <1>7, OwnKey DEF Touches
<1>9. \A q \in Requests : RefusedAt(q, requests', buckets')
  <2> SUFFICES ASSUME NEW q \in Requests, requests'[q].pc \in {"reserve", "cancel"}
               PROVE  buckets'[requests'[q].id.key].tokens <= 0
    BY DEF RefusedAt
  <2>1. CASE requests'[q].id.key = k
    BY <1>3, <1>4, <2>1 DEF Touches
  <2>2. CASE requests'[q].id.key # k
    BY <1>4, <1>7, <1>8, <2>2 DEF Touches, RefusedAt
  <2> QED
    BY <2>1, <2>2
<1>10. ASSUME NEW q \in Requests \ {r}, requests'[q].pc = "cancel", requests[q].id.key = k
       PROVE  /\ requests[q].at \in Int /\ 1 <= requests[q].at /\ requests[q].at < t
  <2>1. requests[q].pc = "cancel"
    BY <1>7, <1>10
  <2>2. /\ requests[q].at \in Int /\ 1 <= requests[q].at /\ requests[q].at <= b.last
        /\ b.last = -b.tokens
    BY <1>8, <1>10, <2>1 DEF NumberedAt
  <2> QED
    BY <1>0, <1>14, <2>2
<1>11. NumberedAt(r, requests', buckets')
  <2>1. requests'[r].id.key = k /\ buckets'[k] = c
    BY <1>4 DEF Touches
  <2>2. ASSUME NEW q \in Requests \ {r}, requests'[q].pc = "cancel", requests'[q].id.key = k
        PROVE  requests'[q].at # t
    BY <1>3, <1>7, <1>10, <2>2
  <2>3. requests'[r].at = t /\ t \in Int /\ 1 <= t /\ t <= c.last /\ c.last = -c.tokens
    BY <1>3, <1>4, <1>14, <1>15
  <2> QED
    BY <2>1, <2>2, <2>3 DEF NumberedAt
<1>12. ASSUME NEW q \in Requests \ {r}
       PROVE  NumberedAt(q, requests', buckets')
  <2>0. SUFFICES ASSUME requests'[q].pc = "cancel"
                 PROVE  NumberedAt(q, requests', buckets')
    BY DEF NumberedAt
  <2>1. requests'[q] = requests[q] /\ requests[q].id.key \in Keys
    BY <1>7, <2>0
  <2>2. ASSUME NEW p \in Requests \ {q}, requests'[p].pc = "cancel",
               requests'[p].id.key = requests[q].id.key
        PROVE  requests'[p].at # requests[q].at
    <3>1. CASE p = r
      BY <1>3, <1>4, <1>10, <2>0, <2>2, <3>1 DEF Touches
    <3>2. CASE p # r
      BY <1>7, <1>8, <2>0, <2>1, <2>2, <3>2 DEF NumberedAt
    <3> QED
      BY <3>1, <3>2
  <2>3. CASE requests[q].id.key = k
    <3>1. buckets'[k] = c
      BY <1>4 DEF Touches
    <3>2. requests[q].at \in Int /\ 1 <= requests[q].at /\ requests[q].at <= c.last
      BY <1>3, <1>10, <2>0, <2>3
    <3> QED
      BY <1>3, <2>1, <2>2, <2>3, <3>1, <3>2 DEF NumberedAt
  <2>4. CASE requests[q].id.key # k
    <3>1. buckets'[requests[q].id.key] = buckets[requests[q].id.key]
      BY <1>4, <2>1, <2>4 DEF Touches
    <3> QED
      BY <1>8, <2>0, <2>1, <2>2, <3>1 DEF NumberedAt
  <2> QED
    BY <2>3, <2>4
<1> QED
  BY <1>5, <1>6, <1>9, <1>11, <1>12, Debts DEF QuotaInv

(***************************************************************************)
(* When the latest reservation is given back, the one before it becomes    *)
(* the latest.                                                             *)
(***************************************************************************)
LEMMA CancelQuota ==
  ASSUME BaseInv, QuotaInv, NamesApart, NEW r \in Requests, CancelAt(r)
  PROVE  QuotaInv'
<1> DEFINE k == requests[r].id.key
           b == buckets[k]
           at == requests[r].at
           c == Cancelled(b, at)
<1>1. requests[r].pc = "cancel" /\ k \in Keys
  BY OwnKey DEF CancelAt, At
<1>8. \A q \in Requests : RefusedAt(q, requests, buckets) /\ NumberedAt(q, requests, buckets)
  BY Debts DEF QuotaInv
<1>2. Sane(k, b) /\ b.tier # "none" /\ b.idle = 0
  BY <1>1 DEF QuotaInv, AllSane, Looked, InAllow
<1>0. at \in Int /\ 1 <= at /\ at <= b.last /\ b.last = -b.tokens
  BY <1>1, <1>8 DEF NumberedAt
<1>3. /\ Sane(k, c) /\ c.tier # "none" /\ c.idle = 0 /\ c.tokens <= 0
      /\ c.last \in Int /\ c.last = -c.tokens
      /\ c.last = IF at = b.last THEN at - 1 ELSE b.last
  BY <1>0, <1>2, CancelledBucket
<1>4. /\ Touches(r, c) /\ requests'[r].pc = "unwind"
      /\ requests'[r].granted = requests[r].granted
  BY AllowTouches
<1>13. b.last \in Int
  BY <1>2 DEF Sane, NoBucket
<1> HIDE DEF c
<1>5. AllSane' /\ Looked'
  BY <1>1, <1>3, <1>4, TouchSane
<1>6. Ungranted'
  BY <1>1, <1>4 DEF QuotaInv, Ungranted, Touches
<1>7. ASSUME NEW q \in Requests, requests'[q].pc \in {"reserve", "cancel"}
      PROVE  q # r /\ requests'[q] = requests[q] /\ requests[q].id.key \in Keys
  BY <1>4, <1>7, OwnKey DEF Touches
<1>9. \A q \in Requests : RefusedAt(q, requests', buckets')
  <2> SUFFICES ASSUME NEW q \in Requests, requests'[q].pc \in {"reserve", "cancel"}
               PROVE  buckets'[requests'[q].id.key].tokens <= 0
    BY DEF RefusedAt
  <2>1. CASE requests'[q].id.key = k
    BY <1>3, <1>4, <2>1 DEF Touches
  <2>2. CASE requests'[q].id.key # k
    BY <1>4, <1>7, <1>8, <2>2 DEF Touches, RefusedAt
  <2> QED
    BY <2>1, <2>2
<1>10. ASSUME NEW q \in Requests
       PROVE  NumberedAt(q, requests', buckets')
  <2>0. SUFFICES ASSUME requests'[q].pc = "cancel"
                 PROVE  NumberedAt(q, requests', buckets')
    BY DEF NumberedAt
  <2>1. q # r /\ requests'[q] = requests[q] /\ requests[q].id.key \in Keys
    BY <1>7, <2>0
  <2>2. ASSUME NEW p \in Requests \ {q}, requests'[p].pc = "cancel",
               requests'[p].id.key = requests[q].id.key
        PROVE  requests'[p].at # requests[q].at
    BY <1>7, <1>8, <2>0, <2>1, <2>2 DEF NumberedAt
  <2>3. CASE requests[q].id.key = k
    <3>1. buckets'[k] = c
      BY <1>4 DEF Touches
    <3>2. /\ requests[q].at \in Int /\ 1 <= requests[q].at /\ requests[q].at <= b.last
          /\ at # requests[q].at
      BY <1>1, <1>8, <2>0, <2>1, <2>3 DEF NumberedAt
    <3>3. requests[q].at <= c.last
      BY <1>0, <1>3, <1>13, <3>2
    <3> QED
      BY <1>3, <2>1, <2>2, <2>3, <3>1, <3>2, <3>3 DEF NumberedAt
  <2>4. CASE requests[q].id.key # k
    <3>1. buckets'[requests[q].id.key] = buckets[requests[q].id.key]
      BY <1>4, <2>1, <2>4 DEF Touches
    <3> QED
      BY <1>8, <2>0, <2>1, <2>2, <3>1 DEF NumberedAt
  <2> QED
    BY <2>3, <2>4
<1> QED
  BY <1>5, <1>6, <1>9, <1>10, Debts DEF QuotaInv

\* Request r takes a step outside the limiter.
Aside(r) ==
  /\ UNCHANGED buckets
  /\ \A q \in Requests \ {r} : requests'[q] = requests[q]
  /\ requests'[r].granted = requests[r].granted
  /\ requests[r].pc \notin {"allow", "reserve", "cancel"}
  /\ requests'[r].pc \notin {"new", "allow", "reserve", "cancel"}
  /\ \/ requests[r].pc \in {"new", "auth"}
     \/ requests'[r].id = requests[r].id /\ requests'[r].pc \notin {"auth", "limit"}

(***************************************************************************)
(* The rest of the chain is outside the limiter.                           *)
(***************************************************************************)
LEMMA ChainAside ==
  ASSUME BaseInv, NEW r \in Requests,
         Inflight(r) \/ Auth(r) \/ MaxBody(r) \/ Handle(r) \/ Unwind(r)
  PROVE  Aside(r)
<1>0. Shape
  BY DEF BaseInv
<1>1. CASE Inflight(r)
  BY <1>0, <1>1 DEF Inflight, At, Shape, Aside
<1>2. CASE Auth(r)
  BY <1>0, <1>2 DEF Auth, At, Shape, Aside
<1>3. CASE MaxBody(r)
  BY <1>0, <1>3 DEF MaxBody, At, Shape, Aside
<1>4. CASE Handle(r)
  <2>1. PICK result \in Results :
          requests' = [requests EXCEPT ![r].pc = "unwind", ![r].result = result,
                                       ![r].status = StatusFor(result)]
    BY <1>4 DEF Handle
  <2>2. /\ requests'[r] = [requests[r] EXCEPT !.pc = "unwind", !.result = result,
                                             !.status = StatusFor(result)]
        /\ \A q \in Requests \ {r} : requests'[q] = requests[q]
    BY <1>0, <2>1 DEF Shape
  <2>3. ASSUME NEW e, NEW status, e = [pc |-> e.pc, id |-> e.id, at |-> e.at,
                 granted |-> e.granted, result |-> e.result, status |-> e.status]
        PROVE  LET f == [e EXCEPT !.pc = "unwind", !.result = result, !.status = status]
               IN  f.pc = "unwind" /\ f.granted = e.granted /\ f.id = e.id
    BY <2>3
  <2>4. /\ requests'[r].pc = "unwind" /\ requests'[r].granted = requests[r].granted
        /\ requests'[r].id = requests[r].id
    BY <1>0, <2>2, <2>3 DEF Shape
  <2> QED
    BY <1>4, <2>2, <2>4 DEF Handle, At, Aside
<1>5. CASE Unwind(r)
  BY <1>0, <1>5 DEF Unwind, At, Shape, Aside
<1> QED
  BY <1>1, <1>2, <1>3, <1>4, <1>5

(***************************************************************************)
(* And a step outside the limiter disturbs nothing in it.                  *)
(***************************************************************************)
LEMMA AsideQuota ==
  ASSUME QuotaInv, NEW r \in Requests, Aside(r)
  PROVE  QuotaInv'
<1>1. AllSane'
  BY DEF QuotaInv, AllSane, Aside, Sane, TierOf
<1>2. Ungranted'
  BY DEF QuotaInv, Ungranted, Aside
<1>3. ASSUME NEW q \in Requests, requests'[q].pc \in {"allow", "reserve", "cancel"}
      PROVE  requests'[q] = requests[q]
  BY <1>3 DEF Aside
<1>4. Looked'
  BY <1>3 DEF QuotaInv, Looked, InAllow, Aside
<1>5. \A q \in Requests : RefusedAt(q, requests, buckets) /\ NumberedAt(q, requests, buckets)
  BY Debts DEF QuotaInv
<1>6. buckets' = buckets
  BY DEF Aside
<1>7. \A q \in Requests : RefusedAt(q, requests', buckets')
  BY <1>3, <1>5, <1>6 DEF RefusedAt
<1>8. \A q \in Requests : NumberedAt(q, requests', buckets')
  BY <1>3, <1>5, <1>6 DEF NumberedAt
<1> QED
  BY <1>1, <1>2, <1>4, <1>7, <1>8, Debts DEF QuotaInv

\* What the clock and the sweeper make of every bucket.
AllRefilled ==
  \A k \in Keys :
    buckets'[k] = IF buckets[k].tier # "none" THEN Refilled(buckets[k]) ELSE NoBucket

AllSwept ==
  \A k \in Keys :
    buckets'[k] = IF buckets[k].tier # "none" /\ ~Expired(buckets[k]) THEN buckets[k]
                  ELSE NoBucket

(***************************************************************************)
(* The clock ticks when nobody is in the limiter.                          *)
(***************************************************************************)
LEMMA TickQuota ==
  ASSUME BaseInv, QuotaInv, Tick
  PROVE  AllRefilled /\ QuotaInv'
<1>1. AllRefilled
  BY DEF BaseInv, Named, Tick, Held, AllRefilled
<1>2. UNCHANGED requests /\ \A q \in Requests : requests[q].pc \notin {"allow", "reserve", "cancel"}
  BY DEF Tick, InAllow
<1>3. AllSane'
  <2> SUFFICES ASSUME NEW k \in Keys PROVE Sane(k, buckets'[k])
    BY DEF AllSane, Sane, TierOf
  <2>0. Sane(k, buckets[k])
    BY DEF QuotaInv, AllSane
  <2>1. CASE buckets[k].tier # "none"
    BY <1>1, <2>0, <2>1, RefilledBucket DEF AllRefilled
  <2>2. CASE buckets[k].tier = "none"
    BY <1>1, <2>2 DEF AllRefilled, Sane
  <2> QED
    BY <2>1, <2>2
<1>4. Ungranted' /\ Looked' /\ Refused' /\ Numbered'
  BY <1>2 DEF QuotaInv, Ungranted, Looked, InAllow, Refused, Numbered
<1> QED
  BY <1>1, <1>3, <1>4 DEF QuotaInv

(***************************************************************************)
(* The sweeper drops no bucket that Allow is working on.                   *)
(***************************************************************************)
LEMMA SweepQuota ==
  ASSUME BaseInv, QuotaInv, NamesApart, Sweep
  PROVE  AllSwept /\ QuotaInv'
<1>1. AllSwept
  BY DEF BaseInv, Named, Sweep, Held, AllSwept
<1>2. UNCHANGED requests
  BY DEF Sweep
<1>3. AllSane'
  <2> SUFFICES ASSUME NEW k \in Keys PROVE Sane(k, buckets'[k])
    BY DEF AllSane, Sane, TierOf
  <2>0. Sane(k, buckets[k])
    BY DEF QuotaInv, AllSane
  <2> QED
    BY <1>1, <2>0 DEF AllSwept, Sane
<1>4. ASSUME NEW q \in Requests, requests[q].pc \in {"allow", "reserve", "cancel"}
      PROVE  buckets'[requests[q].id.key] = buckets[requests[q].id.key]
  <2>1. requests[q].id.key \in Keys
    BY <1>4, OwnKey
  <2>2. buckets[requests[q].id.key].tier # "none" /\ buckets[requests[q].id.key].idle = 0
    BY <1>4 DEF QuotaInv, Looked, InAllow
  <2>3. KeyTTL \in Nat
    BY LimiterAssumption DEF QuotasValid
  <2>4. ~Expired(buckets[requests[q].id.key])
    BY <2>2, <2>3 DEF Expired
  <2> QED
    BY <1>1, <2>1, <2>2, <2>4 DEF AllSwept
<1>5. Ungranted' /\ Looked'
  BY <1>2, <1>4 DEF QuotaInv, Ungranted, Looked, InAllow
<1>6. \A q \in Requests : RefusedAt(q, requests, buckets) /\ NumberedAt(q, requests, buckets)
  BY Debts DEF QuotaInv
<1>7. \A q \in Requests : RefusedAt(q, requests', buckets')
  BY <1>2, <1>4, <1>6 DEF RefusedAt
<1>8. \A q \in Requests : NumberedAt(q, requests', buckets')
  BY <1>2, <1>4, <1>6 DEF NumberedAt
<1> QED
  BY <1>1, <1>3, <1>5, <1>7, <1>8, Debts DEF QuotaInv

(***************************************************************************)
(* So the invariant is inductive.                                          *)
(***************************************************************************)
LEMMA StepQuota ==
  ASSUME BaseInv, QuotaInv, NamesApart, [Next]_vars
  PROVE  BaseInv' /\ QuotaInv'
<1>1. BaseInv'
  BY StepShape, StepIdentified, StepNamed DEF BaseInv
<1>2. ASSUME NEW r \in Requests, Step(r)
      PROVE  QuotaInv'
  BY <1>2, LookupQuota, AllowQuota, ReserveQuota, CancelQuota, ChainAside, AsideQuota DEF Step
<1>3. CASE Tick
  BY <1>1, <1>3, TickQuota
<1>4. CASE Sweep
  BY <1>1, <1>4, SweepQuota
<1>5. CASE UNCHANGED vars
  <2>0. UNCHANGED <<requests, buckets>>
    BY <1>5 DEF vars
  <2>1. AllSane'
    BY <2>0 DEF QuotaInv, AllSane, Sane, TierOf
  <2>2. Ungranted' /\ Looked'
    BY <2>0 DEF QuotaInv, Ungranted, Looked, InAllow
  <2>3. Refused' /\ Numbered'
    BY <2>0 DEF QuotaInv, Refused, Numbered
  <2> QED
    BY <1>1, <2>1, <2>2, <2>3 DEF QuotaInv
<1> QED
  BY <1>1, <1>2, <1>3, <1>4, <1>5 DEF Next

-----------------------------------------------------------------------------
(* Every step is one of the promised limiter's.                            *)

GrantedTo(k) == {r \in Requests : requests[r].granted /\ requests[r].id.key = k}

\* Nobody is granted anything by this step.
SameGrants ==
  \A q \in Requests :
    /\ requests'[q].granted = requests[q].granted
    /\ requests[q].granted => requests'[q].id = requests[q].id

(***************************************************************************)
(* The mapping, key by key, before the step and after it.                  *)
(***************************************************************************)
LEMMA Credits ==
  ASSUME BaseInv, BaseInv', QuotaInv, QuotaInv'
  PROVE  /\ Credit = [k \in Keys |-> Worth(k, buckets[k])]
         /\ Credit' = [k \in Keys |-> Worth(k, buckets'[k])]
         /\ \A k \in Keys : /\ Worth(k, buckets[k]) \in Nat
                            /\ Worth(k, buckets'[k]) \in Nat
                            /\ Worth(k, buckets'[k]) <= QuotaBurst(k)
<1>0. DOMAIN buckets = Keys /\ DOMAIN buckets' = Keys
  BY DEF BaseInv, Named
<1>1. ASSUME NEW k \in Keys
      PROVE  (IF k \in Held THEN Larger(buckets[k].tokens, Earned(k)) ELSE QuotaBurst(k))
               = Worth(k, buckets[k])
  BY <1>0 DEF Held, Earned, Worth
<1>2. Credit = [k \in Keys |-> Worth(k, buckets[k])]
  BY <1>1 DEF Credit
<1>3. Credit' = [k \in Keys |-> Worth(k, buckets'[k])]
  BY <1>0 DEF Credit, Held, Earned, Worth
<1>4. ASSUME NEW k \in Keys
      PROVE  /\ Worth(k, buckets[k]) \in Nat
             /\ Worth(k, buckets'[k]) \in Nat
             /\ Worth(k, buckets'[k]) <= QuotaBurst(k)
  <2>1. Sane(k, buckets[k]) /\ Sane(k, buckets'[k])
    BY DEF QuotaInv, AllSane, Sane, TierOf
  <2> QED
    BY <2>1, WorthBound
<1> QED
  BY <1>2, <1>3, <1>4

(***************************************************************************)
(* What nobody is granted leaves the count of grants alone.                *)
(***************************************************************************)
LEMMA GrantsStay ==
  ASSUME SameGrants
  PROVE  Granted' = Granted
<1>1. ASSUME NEW k
      PROVE  {r \in Requests : requests'[r].granted /\ requests'[r].id.key = k}
               = {r \in Requests : requests[r].granted /\ requests[r].id.key = k}
  BY DEF SameGrants
<1> QED
  BY <1>1 DEF Granted

(***************************************************************************)
(* A step that grants nothing and makes no bucket worth more only loses.   *)
(***************************************************************************)
LEMMA LosesCredit ==
  ASSUME BaseInv, BaseInv', QuotaInv, QuotaInv', SameGrants,
         \A k \in Keys : Worth(k, buckets'[k]) <= Worth(k, buckets[k])
  PROVE  Promised!Lose
<1>1. Granted' = Granted
  BY GrantsStay
<1>2. /\ Credit' \in [Keys -> Nat]
      /\ \A k \in Keys : Credit'[k] <= Credit[k]
  BY Credits
<1> QED
  BY <1>1, <1>2 DEF Promised!Lose

(***************************************************************************)
(* AllowN's grant is a grant, and costs one.                               *)
(***************************************************************************)
LEMMA GrantStep ==
  ASSUME BaseInv, BaseInv', QuotaInv, QuotaInv', NamesApart,
         NEW r \in Requests, AllowN(r), Allows(buckets[requests[r].id.key])
  PROVE  Promised!Between
<1> DEFINE k == requests[r].id.key
           b == buckets[k]
<1>1. requests[r].pc = "allow" /\ k \in Keys
  BY OwnKey DEF AllowN, At
<1>2. Sane(k, b) /\ b.tier # "none" /\ b.idle = 0
  BY <1>1 DEF QuotaInv, AllSane, Looked, InAllow
<1>3. Worth(k, b) > 0 /\ Worth(k, Taken(b)) = Worth(k, b) - 1
  BY <1>2, TakenBucket
<1>4. Touches(r, Taken(b)) /\ requests'[r].granted = TRUE
  BY AllowTouches
<1>5. Credit[k] > 0 /\ Credit' = [Credit EXCEPT ![k] = @ - 1]
  <2>1. buckets'[k] = Taken(b) /\ \A j \in Keys \ {k} : buckets'[j] = buckets[j]
    BY <1>4 DEF Touches
  <2>2. /\ Credit = [j \in Keys |-> Worth(j, buckets[j])]
        /\ Credit' = [j \in Keys |-> Worth(j, buckets'[j])]
    BY Credits
  <2> QED
    BY <1>1, <1>3, <2>1, <2>2
<1>6. Granted' = [Granted EXCEPT ![k] = @ + 1]
  <2>0. PICK own \in Keys : own = k
    BY <1>1
  <2>1. Granted = [j \in Keys |-> Cardinality(GrantedTo(j))]
    BY DEF Granted, GrantedTo
  <2>2. Granted' = [j \in Keys |-> Cardinality(GrantedTo(j)')]
    BY DEF Granted, GrantedTo
  <2>3. ~requests[r].granted
    BY <1>1 DEF QuotaInv, Ungranted
  <2>4. /\ \A q \in Requests \ {r} : requests'[q] = requests[q]
        /\ requests'[r].id.key = own
    BY <1>4, <2>0 DEF Touches
  <2>5. GrantedTo(own)' = GrantedTo(own) \cup {r} /\ r \notin GrantedTo(own)
    BY <1>4, <2>3, <2>4 DEF GrantedTo
  <2>6. \A j \in Keys \ {own} : GrantedTo(j)' = GrantedTo(j)
    BY <1>4, <2>3, <2>4 DEF GrantedTo
  <2>7. IsFiniteSet(GrantedTo(own))
    BY FS_Subset, IngressAssumption DEF GrantedTo
  <2>8. Cardinality(GrantedTo(own)') = Cardinality(GrantedTo(own)) + 1
    BY <2>5, <2>7, FS_AddElement
  <2> QED
    BY <2>0, <2>1, <2>2, <2>6, <2>8
<1>7. Promised!Grant(k)
  BY <1>5, <1>6 DEF Promised!Grant
<1> QED
  BY <1>1, <1>7 DEF Promised!Between

(***************************************************************************)
(* Nothing that a request or the sweeper does fills a bucket.              *)
(***************************************************************************)
LEMMA RequestStep ==
  ASSUME BaseInv, BaseInv', QuotaInv, QuotaInv', NamesApart,
         NEW r \in Requests, Step(r)
  PROVE  Promised!Between
<1> DEFINE k == requests[r].id.key
           b == buckets[k]
<1>0. Promised!Lose => Promised!Between
  BY DEF Promised!Between
<1>1. ASSUME Aside(r)
      PROVE  Promised!Lose
  <2>1. SameGrants
    BY <1>1 DEF SameGrants, Aside, QuotaInv, Ungranted
  <2>2. \A j \in Keys : Worth(j, buckets'[j]) <= Worth(j, buckets[j])
    BY <1>1, Credits DEF Aside
  <2> QED
    BY <2>1, <2>2, LosesCredit
<1>2. ASSUME NEW c, Touches(r, c), requests'[r].granted = requests[r].granted,
             Worth(k, c) <= Worth(k, b)
      PROVE  Promised!Lose
  <2>1. SameGrants
    BY <1>2 DEF SameGrants, Touches
  <2>2. ASSUME NEW j \in Keys
        PROVE  Worth(j, buckets'[j]) <= Worth(j, buckets[j])
    <3>1. CASE j = k
      BY <1>2, <3>1 DEF Touches
    <3>2. CASE j # k
      <4>1. buckets'[j] = buckets[j]
        BY <1>2, <3>2 DEF Touches
      <4> QED
        BY <4>1, Credits
    <3> QED
      BY <3>1, <3>2
  <2> QED
    BY <2>1, <2>2, LosesCredit
<1>3. CASE Lookup(r)
  <2>1. k \in Keys
    BY <1>3, OwnKey DEF Lookup, At
  <2>2. Sane(k, b)
    BY <2>1 DEF QuotaInv, AllSane
  <2>3. Worth(k, Found(b, TierOf(k))) <= Worth(k, b)
    BY <2>2, FoundBucket
  <2>4. Touches(r, Found(b, TierOf(k))) /\ requests'[r].granted = requests[r].granted
    BY <1>3, AllowTouches
  <2> QED
    BY <1>0, <1>2, <2>3, <2>4
<1>4. CASE AllowN(r)
  <2>1. CASE Allows(b)
    BY <1>4, <2>1, GrantStep
  <2>2. CASE ~Allows(b)
    <3>1. Touches(r, b) /\ requests'[r].granted = requests[r].granted
      BY <1>4, <2>2, AllowTouches
    <3>2. k \in Keys
      BY <1>4, OwnKey DEF AllowN, At
    <3>3. Worth(k, b) <= Worth(k, b)
      BY <3>2, Credits
    <3> QED
      BY <1>0, <1>2, <3>1, <3>3
  <2> QED
    BY <2>1, <2>2
<1>5. CASE ReserveN(r)
  <2>1. requests[r].pc = "reserve" /\ k \in Keys
    BY <1>5, OwnKey DEF ReserveN, At
  <2>2. Sane(k, b) /\ b.tier # "none" /\ b.idle = 0 /\ b.tokens <= 0
    BY <2>1 DEF QuotaInv, AllSane, Looked, InAllow, Refused
  <2>3. Worth(k, Reserved(b)) = Worth(k, b) /\ Worth(k, b) \in Nat
    BY <2>1, <2>2, ReservedBucket, Credits
  <2>4. Touches(r, Reserved(b)) /\ requests'[r].granted = requests[r].granted
    BY <1>5, AllowTouches
  <2> QED
    BY <1>0, <1>2, <2>3, <2>4
<1>6. CASE CancelAt(r)
  <2> DEFINE at == requests[r].at
  <2>1. requests[r].pc = "cancel" /\ k \in Keys
    BY <1>6, OwnKey DEF CancelAt, At
  <2>2. /\ Sane(k, b) /\ b.tier # "none" /\ b.idle = 0
        /\ at \in Int /\ 1 <= at /\ at <= b.last /\ b.last = -b.tokens
    BY <2>1 DEF QuotaInv, AllSane, Looked, InAllow, Numbered
  <2>3. Worth(k, Cancelled(b, at)) = Worth(k, b)
    BY <2>2, CancelledBucket
  <2>4. Worth(k, b) \in Nat
    BY <2>1, Credits
  <2>5. Touches(r, Cancelled(b, at)) /\ requests'[r].granted = requests[r].granted
    BY <1>6, AllowTouches
  <2> QED
    BY <1>0, <1>2, <2>3, <2>4, <2>5
<1>7. CASE Inflight(r) \/ Auth(r) \/ MaxBody(r) \/ Handle(r) \/ Unwind(r)
  BY <1>0, <1>1, <1>7, ChainAside
<1> QED
  BY <1>3, <1>4, <1>5, <1>6, <1>7 DEF Step

(***************************************************************************)
(* A sweep takes from nobody and gives nobody more than the promise: what  *)
(* it drops was full.                                                      *)
(***************************************************************************)
LEMMA SweepStep ==
  ASSUME BaseInv, BaseInv', QuotaInv, QuotaInv', NamesApart, SweepsFull, Sweep
  PROVE  Promised!Lose
<1>1. AllSwept
  BY SweepQuota
<1>2. SameGrants
  BY DEF Sweep, SameGrants
<1>3. ASSUME NEW k \in Keys
      PROVE  Worth(k, buckets'[k]) <= Worth(k, buckets[k])
  <2>0. Sane(k, buckets[k]) /\ Worth(k, buckets[k]) \in Nat
    BY Credits DEF QuotaInv, AllSane
  <2>1. CASE buckets[k].tier # "none" /\ ~Expired(buckets[k])
    BY <1>1, <2>0, <2>1 DEF AllSwept
  <2>2. CASE ~(buckets[k].tier # "none" /\ ~Expired(buckets[k]))
    <3>1. Worth(k, buckets'[k]) = QuotaBurst(k)
      BY <1>1, <2>2 DEF AllSwept, Worth, NoBucket
    <3>2. Worth(k, buckets[k]) = QuotaBurst(k)
      <4>1. CASE buckets[k].tier # "none"
        BY <2>0, <2>2, <4>1, ExpiredBucket
      <4>2. CASE buckets[k].tier = "none"
        BY <4>2 DEF Worth
      <4> QED
        BY <4>1, <4>2
    <3> QED
      BY <2>0, <3>1, <3>2
  <2> QED
    BY <2>1, <2>2
<1> QED
  BY <1>2, <1>3, LosesCredit

(***************************************************************************)
(* The clock gives every caller at most its rate.                          *)
(***************************************************************************)
LEMMA TickStep ==
  ASSUME BaseInv, BaseInv', QuotaInv, QuotaInv', Tick
  PROVE  Promised!Tick
<1>1. AllRefilled
  BY TickQuota
<1>2. SameGrants
  BY DEF Tick, SameGrants
<1>3. ASSUME NEW k \in Keys
      PROVE  Worth(k, buckets'[k]) <= Worth(k, buckets[k]) + QuotaRate(k)
  <2>0. Sane(k, buckets[k]) /\ Worth(k, buckets[k]) \in Nat /\ QuotaRate(k) \in Nat
    BY Credits, QuotaOf DEF QuotaInv, AllSane
  <2>1. CASE buckets[k].tier # "none"
    BY <1>1, <2>0, <2>1, RefilledBucket DEF AllRefilled
  <2>2. CASE buckets[k].tier = "none"
    <3>1. Worth(k, buckets'[k]) = Worth(k, buckets[k])
      BY <1>1, <2>2 DEF AllRefilled, Worth, NoBucket
    <3> QED
      BY <2>0, <3>1
  <2> QED
    BY <2>1, <2>2
<1>4. Granted' = Granted
  BY <1>2, GrantsStay
<1>5. /\ Credit' \in [Keys -> Nat]
      /\ \A k \in Keys : /\ Credit'[k] <= Credit[k] + QuotaRate(k)
                         /\ Credit'[k] <= QuotaBurst(k)
  BY <1>3, Credits
<1> QED
  BY <1>4, <1>5 DEF Promised!Tick

(***************************************************************************)
(* Every step is a step of the promised limiter, and a tick is the only    *)
(* one that gives.                                                         *)
(***************************************************************************)
LEMMA QuotaStep ==
  ASSUME BaseInv, BaseInv', QuotaInv, QuotaInv', NamesApart, SweepsFull, [Next]_vars
  PROVE  Promised!Next /\ (~Tick => Promised!Between)
<1>1. ASSUME NEW r \in Requests, Step(r)
      PROVE  Promised!Between
  BY <1>1, RequestStep
<1>2. CASE Tick
  BY <1>2, TickStep DEF Promised!Next
<1>3. ASSUME Sweep
      PROVE  Promised!Between
  BY <1>3, SweepStep DEF Promised!Between
<1>4. ASSUME UNCHANGED vars
      PROVE  Promised!Between
  <2>1. SameGrants
    BY <1>4 DEF vars, SameGrants
  <2>2. \A k \in Keys : Worth(k, buckets'[k]) <= Worth(k, buckets[k])
    BY <1>4, Credits DEF vars
  <2> QED
    BY <2>1, <2>2, LosesCredit DEF Promised!Between
<1> QED
  BY <1>1, <1>2, <1>3, <1>4 DEF Next, Promised!Next

(***************************************************************************)
(* Where no client is named like an address and no bucket is dropped       *)
(* before it has had the time to fill up, the limiter keeps its promise    *)
(* for any number of concurrent requests, callers, clients and tiers, and  *)
(* any rates and bursts: overlapping look-ups, reservations and            *)
(* cancellations grant nobody a request that was not earned.               *)
(***************************************************************************)
THEOREM QuotaRefinement ==
  ASSUME NamesApart, SweepsFull
  PROVE  Spec => ImplementsQuota
<1>1. Init => BaseInv /\ QuotaInv /\ Promised!Init
  <2> SUFFICES ASSUME Init PROVE BaseInv /\ QuotaInv /\ Promised!Init
    OBVIOUS
  <2>1. Shape /\ Identified
    BY DEF Init, Shape, Identified, Waiting
  <2>2. Held = {} /\ buckets = [k \in Keys |-> NoBucket]
    BY DEF Init, Held, NoBucket
  <2>3. BaseInv
    BY <2>1, <2>2 DEF Init, BaseInv, Named
  <2>4. AllSane
    BY <2>2 DEF AllSane, Sane
  <2>5. Ungranted /\ Looked /\ Refused /\ Numbered
    BY DEF Init, Waiting, Ungranted, Looked, InAllow, Refused, Numbered
  <2>6. Credit = [k \in Keys |-> QuotaBurst(k)]
    BY <2>2 DEF Credit
  <2>7. Granted = [k \in Keys |-> 0]
    <3>1. \A k : {r \in Requests : requests[r].granted /\ requests[r].id.key = k} = {}
      BY DEF Init, Waiting
    <3> QED
      BY <3>1, FS_EmptySet DEF Granted
  <2> QED
    BY <2>3, <2>4, <2>5, <2>6, <2>7 DEF QuotaInv, Promised!Init
<1>2. BaseInv /\ QuotaInv /\ [Next]_vars => (BaseInv /\ QuotaInv)'
  BY StepQuota
<1>3. BaseInv /\ QuotaInv /\ BaseInv' /\ QuotaInv' /\ [Next]_vars
      => /\ [Promised!Next]_(Promised!vars)
         /\ [~Tick => Promised!Between]_vars
  BY QuotaStep
<1> QED
  BY <1>1, <1>2, <1>3, PTL DEF Spec, ImplementsQuota, Promised!Spec
=============================================================================
