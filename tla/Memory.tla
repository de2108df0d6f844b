------------------------------- MODULE Memory -------------------------------
(***************************************************************************)
(* The memory backend: the task service over memrepo's map, under the      *)
(* idempotency middleware over MemoryStore's.  Each map has a mutex, and   *)
(* between two critical sections any other request may run; there is no    *)
(* transaction around them.  A client meanwhile walks the list page by     *)
(* page.                                                                   *)
(***************************************************************************)
EXTENDS Naturals, FiniteSets

CONSTANTS
  Requests,   \* deliveries of a request; a client's retry is another one
  Tasks,      \* task ids, in the order of their strings
  Keys,       \* values of Idempotency-Key
  NoKey,      \* the request carries none
  Ops,        \* what a request asks for, which is what its fingerprint hashes
  MaxTime,    \* bound on the clock
  PageSize,   \* the walker's page_size; 0 asks for the default
  Slow        \* whether a request may outlive its key's TTL

DefaultPageSize == 20
MaxPageSize     == 100

ASSUME MemoryAssumption ==
  /\ Tasks \subseteq Nat /\ IsFiniteSet(Tasks) /\ NoKey \notin Keys /\ Slow \in BOOLEAN
  /\ MaxTime \in Nat \ {0} /\ PageSize \in 0..MaxPageSize
  /\ Ops \subseteq
       [kind : {"create"}] \cup [kind : {"delete"}, task : Tasks]
         \cup [kind : {"update"}, task : Tasks, expect : Nat, status : {0, 1}]

VARIABLES
  clock,     \* time.Now
  rows,      \* Store.tasks
  keys,      \* MemoryStore.keys
  call,      \* what each request asks, under which key
  pc,        \* what each request is about to do
  stamp,     \* the id and the time drawn for a create
  event,     \* the change a request has made
  answer,    \* what the client is told
  changes,   \* history: every change made
  walk       \* the walker: its filter and cursor, what it got, what stayed

vars == <<clock, rows, keys, call, pc, stamp, event, answer, changes, walk>>

Change(kind, t, v) == [kind |-> kind, task |-> t, version |-> v]

NoRow == [state |-> "unused", version |-> 0, created |-> 0, status |-> 0]

NoRecord      == [state |-> "absent", op |-> {}, event |-> {}, live |-> FALSE]
InProgress(o) == [state |-> "in_progress", op |-> {o}, event |-> {}, live |-> TRUE]

Answer(code, E) == [code |-> code, event |-> E]

Keyed(r) == call[r].key # NoKey
Step(r, to) == pc' = [pc EXCEPT ![r] = to]
Reply(r, code, E) == answer' = [answer EXCEPT ![r] = Answer(code, E)]

\* The request holds a unit of its key that is neither completed nor abandoned.
Holds(r) == Keyed(r) /\ pc[r] \in {"stamp", "apply", "complete", "abandon"}

-----------------------------------------------------------------------------
(* The list.                                                               *)

\* Newest first, the greater id first among tasks of the same instant.
Less(t, u) ==
  \/ rows[t].created > rows[u].created
  \/ rows[t].created = rows[u].created /\ t > u

\* A cursor goes out as a page token and comes back unchanged; the start is the
\* empty token, which is also what the last page carries.
Start       == [created |-> 0, id |-> 0]
CursorOf(t) == [created |-> rows[t].created, id |-> t]

\* Mutant: the cursor is a time.
AfterByTime(c, t) == c = Start \/ rows[t].created < c.created

After(c, t) ==
  \/ c = Start
  \/ rows[t].created < c.created
  \/ rows[t].created = c.created /\ t < c.id

Everything == 2

Selected(table, filter) ==
  {t \in Tasks : table[t].state = "stored" /\ (filter = Everything \/ table[t].status = filter)}

\* clampLimit: more than the maximum is refused.
Limit == IF PageSize = 0 THEN DefaultPageSize ELSE PageSize

Page(M) == {t \in M : Cardinality({u \in M : Less(u, t)}) < Limit}
Last(M) == CHOOSE t \in Page(M) : \A u \in Page(M) \ {t} : ~Less(t, u)

NoWalk == [pc |-> "idle", filter |-> Everything, cursor |-> Start, got |-> {},
           twice |-> FALSE, stayed |-> {}]

StartWalk(filter) ==
  /\ walk.pc = "idle"
  /\ walk' = [NoWalk EXCEPT !.pc = "walking", !.filter = filter,
                            !.stayed = Selected(rows, filter)]
  /\ UNCHANGED <<clock, rows, keys, call, pc, stamp, event, answer, changes>>

\* One List: what matches and lies behind the cursor is copied under the read
\* lock, sorted and cut; one row too many means that there is a next page.
List ==
  /\ walk.pc = "walking"
  /\ LET M == {t \in Selected(rows, walk.filter) : After(walk.cursor, t)}
     IN  walk' = [walk EXCEPT
           !.got = @ \cup Page(M),
           !.twice = @ \/ Page(M) \cap walk.got # {},
           !.pc = IF Cardinality(M) <= Limit THEN "done" ELSE @,
           !.cursor = IF Cardinality(M) <= Limit THEN Start ELSE CursorOf(Last(M))]
  /\ UNCHANGED <<clock, rows, keys, call, pc, stamp, event, answer, changes>>

-----------------------------------------------------------------------------
(* The middleware, up to the handler.                                      *)

Unkeyed(r) ==
  /\ pc[r] = "new" /\ ~Keyed(r)
  /\ Step(r, "stamp")
  /\ UNCHANGED <<clock, rows, keys, call, stamp, event, answer, changes, walk>>

\* Method, canonical path and body say what is asked for, on either surface.
Fingerprint(r) == call[r].op

\* Mutant: the fingerprint is not compared.
ReplayAnyway(r, held) ==
  IF held.state = "in_progress" THEN Answer("409 in progress", {}) ELSE Answer("2xx", held.event)

\* The answer to a key that has been used before.
Replay(r, held) ==
  IF held.op # {Fingerprint(r)} THEN Answer("422", {})
  ELSE IF held.state = "in_progress" THEN Answer("409 in progress", {})
  ELSE Answer("2xx", held.event)

\* Reserve: a live record is replayed; an expired one is replaced.
Reserve(r) ==
  /\ pc[r] = "new" /\ Keyed(r)
  /\ LET held == keys[call[r].key]
     IN  IF held.live
         THEN /\ answer' = [answer EXCEPT ![r] = Replay(r, held)]
              /\ Step(r, "done")
              /\ UNCHANGED keys
         ELSE /\ keys' = [keys EXCEPT ![call[r].key] = InProgress(Fingerprint(r))]
              /\ Step(r, "stamp")
              /\ UNCHANGED answer
  /\ UNCHANGED <<clock, rows, call, stamp, event, changes, walk>>

-----------------------------------------------------------------------------
(* The service and the repository.                                         *)

\* Service.Create draws an id that nobody has used and reads the clock, before
\* the repository takes its lock.
Stamp(r) ==
  /\ pc[r] = "stamp"
  /\ IF call[r].op.kind = "create"
     THEN \E t \in Tasks :
            /\ rows[t].state = "unused" /\ \A q \in Requests : stamp[q].id # t
            /\ stamp' = [stamp EXCEPT ![r] = [id |-> t, at |-> clock]]
     ELSE UNCHANGED stamp
  /\ Step(r, "apply")
  /\ UNCHANGED <<clock, rows, keys, call, event, answer, changes, walk>>

Put(r, c, row) ==
  /\ rows' = [rows EXCEPT ![c.task] = row]
  /\ event' = [event EXCEPT ![r] = {c}]
  /\ changes' = changes \cup {c}
  /\ walk' = [walk EXCEPT !.stayed = @ \cap Selected(rows', walk.filter)]
  /\ Reply(r, "2xx", {c})
  /\ Step(r, "complete")
  /\ UNCHANGED <<clock, keys, call, stamp>>

Create(r) ==
  /\ pc[r] = "apply" /\ call[r].op.kind = "create"
  /\ LET t == stamp[r].id
     IN  Put(r, Change("created", t, 1),
             [state |-> "stored", version |-> 1, created |-> stamp[r].at, status |-> 0])

\* Mutant: the version is not compared.
MatchesAnyVersion(o) == rows[o.task].state = "stored"

Matches(o) ==
  /\ rows[o.task].state = "stored"
  /\ o.kind = "update" => o.expect \in {0, rows[o.task].version}

\* created_at stays and the version is the store's to bump.
Update(r) ==
  /\ pc[r] = "apply" /\ call[r].op.kind = "update" /\ Matches(call[r].op)
  /\ LET o == call[r].op
         v == rows[o.task].version + 1
     IN  Put(r, Change("updated", o.task, v),
             [rows[o.task] EXCEPT !.version = v, !.status = o.status])

Delete(r) ==
  /\ pc[r] = "apply" /\ call[r].op.kind = "delete" /\ Matches(call[r].op)
  /\ LET t == call[r].op.task
     IN  Put(r, Change("deleted", t, rows[t].version), [rows[t] EXCEPT !.state = "deleted"])

\* ErrNotFound and ErrConflict.
Miss(r) ==
  /\ pc[r] = "apply" /\ call[r].op.kind # "create" /\ ~Matches(call[r].op)
  /\ Reply(r, IF rows[call[r].op.task].state = "stored" THEN "409" ELSE "404", {})
  /\ Step(r, "abandon")
  /\ UNCHANGED <<clock, rows, keys, call, stamp, event, changes, walk>>

\* The input is refused, the client has gone, or the handler panics, before
\* anything is written.
Fails(r) ==
  /\ pc[r] \in {"stamp", "apply"}
  /\ Reply(r, "error", {})
  /\ Step(r, "abandon")
  /\ UNCHANGED <<clock, rows, keys, call, stamp, event, changes, walk>>

-----------------------------------------------------------------------------
(* The middleware, after the handler.                                      *)

\* Complete writes the response into whatever record the key has now.
Complete(r) ==
  /\ pc[r] = "complete"
  /\ keys' = IF Keyed(r) /\ keys[call[r].key].state # "absent"
             THEN [keys EXCEPT ![call[r].key].state = "completed",
                               ![call[r].key].event = event[r]]
             ELSE keys
  /\ Step(r, "done")
  /\ UNCHANGED <<clock, rows, call, stamp, event, answer, changes, walk>>

\* Mutant: a panic leaves the key behind.
AbandonNothing(r) ==
  /\ pc[r] = "abandon"
  /\ Step(r, "done")
  /\ UNCHANGED <<clock, rows, keys, call, stamp, event, answer, changes, walk>>

\* Abandon deletes it, also from a panic.
Abandon(r) ==
  /\ pc[r] = "abandon"
  /\ keys' = IF Keyed(r) THEN [keys EXCEPT ![call[r].key] = NoRecord] ELSE keys
  /\ Step(r, "done")
  /\ UNCHANGED <<clock, rows, call, stamp, event, answer, changes, walk>>

\* A key's TTL passes.
Expire(k) ==
  /\ keys[k].live
  /\ Slow \/ \A r \in Requests : Holds(r) => call[r].key # k
  /\ keys' = [keys EXCEPT ![k].live = FALSE]
  /\ UNCHANGED <<clock, rows, call, pc, stamp, event, answer, changes, walk>>

\* MemoryStore.Purge drops the expired records under the lock.
Unexpired == [k \in Keys |-> IF keys[k].live THEN keys[k] ELSE NoRecord]

Purge ==
  /\ keys' = Unexpired /\ keys' # keys
  /\ UNCHANGED <<clock, rows, call, pc, stamp, event, answer, changes, walk>>

Tick ==
  /\ clock < MaxTime
  /\ clock' = clock + 1
  /\ UNCHANGED <<rows, keys, call, pc, stamp, event, answer, changes, walk>>

Init ==
  /\ clock = 1
  /\ rows = [t \in Tasks |-> NoRow]
  /\ keys = [k \in Keys |-> NoRecord]
  /\ call \in [Requests -> [op : Ops, key : Keys \cup {NoKey}]]
  /\ pc = [r \in Requests |-> "new"]
  /\ stamp = [r \in Requests |-> [id |-> 0, at |-> 0]]
  /\ event = [r \in Requests |-> {}]
  /\ answer = [r \in Requests |-> Answer("none", {})]
  /\ changes = {}
  /\ walk = NoWalk

Next ==
  \/ \E r \in Requests : \/ Unkeyed(r) \/ Reserve(r) \/ Stamp(r) \/ Create(r) \/ Update(r)
                         \/ Delete(r) \/ Miss(r) \/ Fails(r) \/ Complete(r) \/ Abandon(r)
  \/ \E k \in Keys : Expire(k)
  \/ \E filter \in {0, 1, Everything} : StartWalk(filter)
  \/ List \/ Purge \/ Tick

Spec == Init /\ [][Next]_vars

-----------------------------------------------------------------------------
\* What a key remembers: a change, from the moment it was made.
Remembered(k) ==
  IF ~keys[k].live THEN {}
  ELSE {[op |-> o, event |-> e] : o \in keys[k].op, e \in keys[k].event}
         \cup UNION {{[op |-> call[r].op, event |-> e] : e \in event[r]} :
                       r \in {q \in Requests : pc[q] = "complete" /\ call[q].key = k}}

AbstractTasks == [t \in Tasks |-> [state |-> rows[t].state, version |-> rows[t].version]]
AbstractKeys  == [k \in Keys |-> Remembered(k)]

A == INSTANCE AtomicWrites WITH tasks <- AbstractTasks, events <- changes, keys <- AbstractKeys

(***************************************************************************)
(* The memory backend gives the guarantee the Postgres one gives: a write  *)
(* and what its key remembers are one atomic step, a key that is           *)
(* remembered executes nothing, and an update that names a version never   *)
(* overwrites another.                                                     *)
(***************************************************************************)
ImplementsAtomicWrites == A!Spec

Does(o, e) ==
  \/ o.kind = "create" /\ e.kind = "created"
  \/ o.kind = "update" /\ e.kind = "updated" /\ e.task = o.task
       /\ o.expect \in {0, e.version - 1}
  \/ o.kind = "delete" /\ e.kind = "deleted" /\ e.task = o.task

(***************************************************************************)
(* A success tells the truth, first hand or replayed: what it reports has  *)
(* happened and is what this very request asked for.                       *)
(***************************************************************************)
TruthfulAnswers ==
  \A r \in Requests : pc[r] = "done" /\ answer[r].code = "2xx" =>
    \E e \in changes : answer[r].event = {e} /\ Does(call[r].op, e)

(***************************************************************************)
(* No key stays reserved by nobody: while a record says in progress there  *)
(* is a request that will complete or abandon it, so a retry is not        *)
(* refused with 409 until the TTL.                                         *)
(***************************************************************************)
KeyHasOwner ==
  \A k \in Keys : keys[k].state = "in_progress" => \E r \in Requests : Holds(r) /\ call[r].key = k

(***************************************************************************)
(* Walking the pages returns every task that was there and matched all the *)
(* time exactly once, and none twice, whatever is written between two      *)
(* pages and however many tasks share an instant.                          *)
(***************************************************************************)
WalkComplete ==
  /\ ~walk.twice
  /\ walk.pc = "done" => walk.stayed \subseteq walk.got
=============================================================================
