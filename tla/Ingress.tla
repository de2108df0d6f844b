------------------------------ MODULE Ingress -------------------------------
(***************************************************************************)
(* The middleware chain around the API handler, for concurrent requests:   *)
(*                                                                         *)
(*   Recover( Inflight( Auth( RateLimit( MaxBody( handler )))))            *)
(*                                                                         *)
(* A request goes down the chain step by step, and what it took is given   *)
(* back as its stack unwinds, with an answer or with a panic.  Time is     *)
(* counted in ticks, and Allow takes less than one.                        *)
(***************************************************************************)
EXTENDS Limiter, Sequences, FiniteSets

CONSTANTS
  Requests,
  Callers,      \* what requests may look like: token, address, forged, oversize
  Clients,      \* the configured clients: token -> [id, tier]
  Hops,         \* http.trusted_proxy_hops, which is the number of proxies
  GlobalInflight,
  Results       \* what the handler may do: an error, nil, or a panic

\* Auth.Validate: every client has an id and a known tier, and ids do not repeat.
ClientsValid ==
  /\ \A t \in DOMAIN Clients : Clients[t].id # "" /\ Clients[t].tier \in Tiers
  /\ \A t, u \in DOMAIN Clients : Clients[t].id = Clients[u].id => t = u

ASSUME IngressAssumption ==
  /\ IsFiniteSet(Requests) /\ Hops \in Nat /\ GlobalInflight \in Nat \ {0}
  /\ \A c \in Callers : c.address \in STRING /\ c.forged \in Seq(STRING)
  /\ ClientsValid

VARIABLES
  mode,       \* auth.mode
  asked,      \* what each request looks like
  requests,   \* where it is, its identity, its reservation, its answer
  slots,      \* the in-flight semaphore
  buckets     \* Limiter.buckets

vars == <<mode, asked, requests, slots, buckets>>

-----------------------------------------------------------------------------
(* Who the caller is.                                                      *)

Proxy == "proxy"

\* The addresses the request came through, the socket's peer last: whatever
\* the caller wrote into X-Forwarded-For, and what each hop appended.
Chain(c) == c.forged \o <<c.address>> \o [i \in 1..Hops |-> Proxy]

\* Mutant: the first entry is the caller.
ClientIPFirst(c) == Chain(c)[1]

\* The first entry from the right that is not one of our proxies, and the peer
\* when the chain is too short.
ClientIP(c) ==
  LET chain == Chain(c)
      i     == Len(chain) - Hops
  IN  IF Hops = 0 \/ i < 1 THEN chain[Len(chain)] ELSE chain[i]

Anonymous(c) == [client |-> "anonymous", tier |-> "anonymous", key |-> ClientIP(c)]

Recognised(c) == mode # "off" /\ c.token \in DOMAIN Clients

Resolve(c) ==
  IF Recognised(c)
  THEN [client |-> Clients[c.token].id, tier |-> Clients[c.token].tier,
        key |-> Clients[c.token].id]
  ELSE Anonymous(c)

Rejected(c) == mode = "required" /\ ~Recognised(c)

-----------------------------------------------------------------------------
(* What an error becomes.                                                  *)

Kinds == {"invalid", "unauthenticated", "forbidden", "not_found", "conflict",
          "unprocessable", "exhausted", "unavailable", "timeout", "canceled", "internal"}

\* KindOf: an error that nobody classified is internal.
KindOf(err) ==
  CASE err \in Kinds                     -> err
    [] err = "context.Canceled"          -> "canceled"
    [] err = "context.DeadlineExceeded"  -> "timeout"
    [] OTHER                             -> "internal"

\* codeByKind, and the HTTP status that Connect gives each code.
StatusOf(kind) ==
  CASE kind \in {"invalid", "unprocessable"} -> 400
    [] kind = "unauthenticated" -> 401
    [] kind = "forbidden"       -> 403
    [] kind = "not_found"       -> 404
    [] kind = "conflict"        -> 409
    [] kind = "exhausted"       -> 429
    [] kind = "canceled"        -> 499
    [] kind = "unavailable"     -> 503
    [] kind = "timeout"         -> 504
    [] OTHER                    -> 500

Panics == {"panic", "panic with headers", "http.ErrAbortHandler"}

\* Recover's answer to a panic.  WriteProblem writes nothing when a content
\* type is set already, and net/http then sends 200; ErrAbortHandler goes on
\* and net/http drops the connection.
Recovered(panic) ==
  CASE panic = "panic"                -> 500
    [] panic = "panic with headers"   -> 200
    [] panic = "http.ErrAbortHandler" -> 0

StatusFor(result) ==
  IF result \in Panics THEN Recovered(result)
  ELSE IF result = "nil" THEN 200
  ELSE StatusOf(KindOf(result))

-----------------------------------------------------------------------------
(* The chain.                                                              *)

NoIdentity == [client |-> "", tier |-> "none", key |-> ""]
Waiting    == [pc |-> "new", id |-> NoIdentity, at |-> 0, granted |-> FALSE,
               result |-> "none", status |-> 0]

At(r, pc) == requests[r].pc = pc

InAllow == {r \in Requests : requests[r].pc \in {"allow", "reserve", "cancel"}}

\* Inflight: a slot, or 503.
Inflight(r) ==
  /\ At(r, "new")
  /\ IF slots < GlobalInflight
     THEN /\ slots' = slots + 1
          /\ requests' = [requests EXCEPT ![r].pc = "auth"]
     ELSE /\ requests' = [requests EXCEPT ![r].pc = "answered", ![r].status = 503]
          /\ UNCHANGED slots
  /\ UNCHANGED <<mode, asked, buckets>>

\* Auth: an identity in the context, or 401.
Auth(r) ==
  /\ At(r, "auth")
  /\ requests' = [requests EXCEPT ![r] =
       IF Rejected(asked[r]) THEN [@ EXCEPT !.pc = "unwind", !.status = 401]
       ELSE [@ EXCEPT !.pc = "limit", !.id = Resolve(asked[r])]]
  /\ UNCHANGED <<mode, asked, slots, buckets>>

\* Allow looks the bucket up under the limiter's lock.
Lookup(r) ==
  /\ At(r, "limit")
  /\ LET id == requests[r].id
     IN  buckets' = [buckets EXCEPT ![id.key] = Found(@, id.tier)]
  /\ requests' = [requests EXCEPT ![r].pc = "allow"]
  /\ UNCHANGED <<mode, asked, slots>>

\* It takes a token outside that lock.
AllowN(r) ==
  /\ At(r, "allow")
  /\ LET key == requests[r].id.key
     IN  IF Allows(buckets[key])
         THEN /\ buckets' = [buckets EXCEPT ![key] = Taken(@)]
              /\ requests' = [requests EXCEPT ![r].pc = "body", ![r].granted = TRUE]
         ELSE /\ requests' = [requests EXCEPT ![r].pc = "reserve"]
              /\ UNCHANGED buckets
  /\ UNCHANGED <<mode, asked, slots>>

\* Without one it reserves a token to learn the delay,
ReserveN(r) ==
  /\ At(r, "reserve")
  /\ LET key == requests[r].id.key
     IN  /\ buckets' = [buckets EXCEPT ![key] = Reserved(@)]
         /\ requests' = [requests EXCEPT ![r].pc = "cancel", ![r].at = TimeToAct(buckets[key])]
  /\ UNCHANGED <<mode, asked, slots>>

\* gives the reservation back, and the request is answered 429.
CancelAt(r) ==
  /\ At(r, "cancel")
  /\ LET key == requests[r].id.key
     IN  buckets' = [buckets EXCEPT ![key] = Cancelled(@, requests[r].at)]
  /\ requests' = [requests EXCEPT ![r].pc = "unwind", ![r].at = 0, ![r].status = 429]
  /\ UNCHANGED <<mode, asked, slots>>

MaxBody(r) ==
  /\ At(r, "body")
  /\ requests' = [requests EXCEPT ![r] =
       IF asked[r].oversize THEN [@ EXCEPT !.pc = "unwind", !.status = 413]
       ELSE [@ EXCEPT !.pc = "handler"]]
  /\ UNCHANGED <<mode, asked, slots, buckets>>

\* The handler returns an error or nil, or panics.
Handle(r) ==
  /\ At(r, "handler")
  /\ \E result \in Results :
       requests' = [requests EXCEPT ![r].pc = "unwind", ![r].result = result,
                                    ![r].status = StatusFor(result)]
  /\ UNCHANGED <<mode, asked, slots, buckets>>

\* Mutant: the slot is given back after the call rather than deferred.
UnwindReturnOnly(r) ==
  /\ At(r, "unwind")
  /\ slots' = IF requests[r].result \in Panics THEN slots ELSE slots - 1
  /\ requests' = [requests EXCEPT ![r].pc = "answered"]
  /\ UNCHANGED <<mode, asked, buckets>>

\* The stack unwinds: the deferred release of the slot, then Recover.
Unwind(r) ==
  /\ At(r, "unwind")
  /\ slots' = slots - 1
  /\ requests' = [requests EXCEPT ![r].pc = "answered"]
  /\ UNCHANGED <<mode, asked, buckets>>

Held == {k \in DOMAIN buckets : buckets[k].tier # "none"}

Tick ==
  /\ InAllow = {}
  /\ buckets' = [k \in DOMAIN buckets |-> IF k \in Held THEN Refilled(buckets[k]) ELSE NoBucket]
  /\ UNCHANGED <<mode, asked, requests, slots>>

\* Sweep drops the buckets nobody has used for the TTL.
Sweep ==
  /\ buckets' = [k \in DOMAIN buckets |->
                   IF k \in Held /\ ~Expired(buckets[k]) THEN buckets[k] ELSE NoBucket]
  /\ UNCHANGED <<mode, asked, requests, slots>>

\* Every string a caller could make a key of.
Addresses == {c.address : c \in Callers}
Forgeries == UNION {{c.forged[i] : i \in DOMAIN c.forged} : c \in Callers}
Ids       == {Clients[t].id : t \in DOMAIN Clients}
Keys      == Addresses \cup Forgeries \cup Ids \cup {Proxy}

Init ==
  /\ mode \in {"off", "optional", "required"}
  /\ asked \in [Requests -> Callers]
  /\ requests = [r \in Requests |-> Waiting]
  /\ slots = 0
  /\ buckets = [k \in Keys |-> NoBucket]

Step(r) == \/ Inflight(r) \/ Auth(r) \/ Lookup(r) \/ AllowN(r) \/ ReserveN(r)
           \/ CancelAt(r) \/ MaxBody(r) \/ Handle(r) \/ Unwind(r)

Next == Tick \/ Sweep \/ \E r \in Requests : Step(r)

Spec == Init /\ [][Next]_vars

-----------------------------------------------------------------------------
(***************************************************************************)
(* The semaphore counts the requests that are inside: none leaves its slot *)
(* behind, panics and aborted connections included, and none gives back a  *)
(* slot it never had.                                                      *)
(***************************************************************************)
SlotsHeld == slots = Cardinality({r \in Requests : requests[r].pc \notin {"new", "answered"}})

(***************************************************************************)
(* A bucket belongs to a configured client or to an address that a request *)
(* really came from: no header a caller writes mints a bucket or reaches   *)
(* another caller's.                                                       *)
(***************************************************************************)
BucketsNameCallers ==
  LET Name(c) == IF Recognised(c) THEN Clients[c.token].id ELSE c.address
  IN  Held \subseteq {Name(asked[r]) : r \in {q \in Requests : ~At(q, "new")}}

(***************************************************************************)
(* A handler that panics is answered with a 500, as Recover's comment has  *)
(* it.                                                                     *)
(***************************************************************************)
PanicIsServerError ==
  \A r \in Requests :
    At(r, "answered") /\ requests[r].result \in {"panic", "panic with headers"}
      => requests[r].status = 500

\* The tier a key has, and what it may still spend: a key without a bucket
\* would be given a full one.
TierOf(k) == IF \E t \in DOMAIN Clients : Clients[t].id = k
             THEN (CHOOSE c \in {Clients[t] : t \in DOMAIN Clients} : c.id = k).tier
             ELSE "anonymous"

QuotaRate(k)  == Rates[TierOf(k)]
QuotaBurst(k) == Bursts[TierOf(k)]

\* What a caller has earned since it was last seen.  Refusals that overlap leave
\* a bucket below zero, and this can be more than it holds.
Earned(k) == Smaller(QuotaBurst(k), buckets[k].idle * QuotaRate(k))

Credit  == [k \in Keys |-> IF k \in Held THEN Larger(buckets[k].tokens, Earned(k))
                           ELSE QuotaBurst(k)]
Granted == [k \in Keys |->
              Cardinality({r \in Requests : requests[r].granted /\ requests[r].id.key = k})]

Promised == INSTANCE Quota WITH
  Rate <- QuotaRate, Burst <- QuotaBurst, credit <- Credit, granted <- Granted

(***************************************************************************)
(* No caller gets more than its quota: building, sharing, reserving from,  *)
(* refilling, sweeping and rebuilding buckets is a token bucket that lasts *)
(* for ever, and only the passing of time fills it.                        *)
(***************************************************************************)
ImplementsQuota == Promised!Spec /\ [][~Tick => Promised!Between]_vars

-----------------------------------------------------------------------------
(***************************************************************************)
(* Fairness: request goroutines run, time passes, and the sweeper's ticker *)
(* fires.                                                                  *)
(***************************************************************************)
Fairness ==
  /\ \A r \in Requests : WF_vars(Step(r))
  /\ WF_vars(Tick) /\ WF_vars(Sweep)

FairSpec == Spec /\ Fairness

(***************************************************************************)
(* Every request comes to its answer, and when the callers have gone their *)
(* buckets go too: the table does not grow with the callers it has seen.   *)
(***************************************************************************)
Quiesces == <>[](Held = {} /\ \A r \in Requests : At(r, "answered"))
=============================================================================
