------------------------------- MODULE Writes -------------------------------
(***************************************************************************)
(* The write path over Postgres: the idempotency middleware opens a        *)
(* transaction and reserves the key, the task repository joins it, or      *)
(* opens its own for a request without a key, changes a task and queues    *)
(* the event, the middleware stores the response and commits, and only     *)
(* then are workers notified.                                              *)
(*                                                                         *)
(* Each statement of each request is a step.  What an open transaction     *)
(* has written stays in the variables of its request until Commit; the     *)
(* rows it has touched are locked against everybody else until it ends.    *)
(***************************************************************************)
EXTENDS Naturals, FiniteSets

CONSTANTS
  Requests,   \* deliveries of a request; a client's retry is another one
  Tasks,      \* task ids, the ones newID has yet to draw included
  Keys,       \* values of Idempotency-Key
  NoKey,      \* the request carries none
  Ops         \* what a request asks for, which is what its fingerprint hashes

ASSUME WritesAssumption ==
  /\ NoKey \notin Keys
  /\ Ops \subseteq
       [kind : {"create"}] \cup [kind : {"update"}, task : Tasks, expect : Nat]
         \cup [kind : {"delete"}, task : Tasks]

VARIABLES
  tasks,      \* the tasks table
  jobs,       \* the rows of the jobs table, with the event each carries
  keys,       \* the idempotency_keys table
  call,       \* what each request asks, under which key
  pc,         \* the statement each request is about to issue
  event,      \* the change a request has made, with its event
  inserted,   \* whether its event has become a job row
  answer,     \* what the client is told
  committed,  \* history: the requests whose transaction committed
  notified    \* the events whose notification was sent

tables == <<tasks, jobs, keys, committed>>
vars == <<tables, call, pc, event, inserted, answer, notified>>

Events == [kind : {"created", "updated", "deleted"}, task : Tasks, version : Nat]
Event(kind, t, v) == [kind |-> kind, task |-> t, version |-> v]

\* The row an event's change leaves behind.
After(e) == [state   |-> IF e.kind = "deleted" THEN "deleted" ELSE "stored",
             version |-> e.version]

\* Mutant: the id is task and version only.
EventIDWithoutName(e) == <<e.task, e.version>>

\* X-Event-Id, and the unique_key of the job.
EventID(e) == <<e.kind, e.task, e.version>>

NoRecord == [op |-> {}, event |-> {}]
Record(o, E) == [op |-> {o}, event |-> E]

Answer(code, E) == [code |-> code, event |-> E]
NoAnswer == Answer("none", {})

Keyed(r) == call[r].key # NoKey

\* A transaction is open, and holds what it has written.
Open(r) == pc[r] \in {"write", "enqueue", "complete", "commit"}
KeyFree(r) ==
  \A q \in Requests \ {r} : ~(Open(q) /\ call[q].key = call[r].key)
TaskFree(r, t) ==
  \A q \in Requests \ {r} : ~(Open(q) /\ \E e \in event[q] : e.task = t)

-----------------------------------------------------------------------------
(* The middleware, up to the handler.                                      *)

Step(r, to) == pc' = [pc EXCEPT ![r] = to]

\* A request with a key starts with its reservation, one without goes
\* straight to the handler.
Start(r) == IF Keyed(r) THEN "reserve" ELSE "write"

\* The insert succeeds.  It waits for any transaction that holds the key.
Reserve(r) ==
  /\ pc[r] = "reserve" /\ KeyFree(r) /\ keys[call[r].key] = NoRecord
  /\ Step(r, "write")
  /\ UNCHANGED <<tables, call, event, inserted, answer, notified>>

\* The request is over: what its transaction wrote is gone, unless committed.
End(r, a) ==
  /\ Step(r, "done")
  /\ answer' = [answer EXCEPT ![r] = a]
  /\ event' = [event EXCEPT ![r] = IF r \in committed' THEN @ ELSE {}]
  /\ inserted' = [inserted EXCEPT ![r] = r \in committed' /\ @]
  /\ UNCHANGED call

\* Mutant: the fingerprint is not compared.
ReplayAnyway(r) ==
  /\ pc[r] = "reserve" /\ KeyFree(r) /\ keys[call[r].key] # NoRecord
  /\ UNCHANGED <<tables, notified>>
  /\ End(r, Answer("replayed", keys[call[r].key].event))

\* The insert conflicts: the key was used, for this request or another.  A
\* row that committed is complete, so "still in progress" is never found.
Replay(r) ==
  /\ pc[r] = "reserve" /\ KeyFree(r) /\ keys[call[r].key] # NoRecord
  /\ UNCHANGED <<tables, notified>>
  /\ End(r, LET seen == keys[call[r].key] IN
            IF call[r].op \in seen.op THEN Answer("replayed", seen.event)
            ELSE Answer("mismatch", {}))

-----------------------------------------------------------------------------
(* The repository.                                                         *)

Wrote(r, e) ==
  /\ event' = [event EXCEPT ![r] = {e}]
  /\ Step(r, "enqueue")
  /\ UNCHANGED <<tables, call, inserted, answer, notified>>

\* newID draws an id nobody has.
Create(r) ==
  /\ pc[r] = "write" /\ call[r].op.kind = "create"
  /\ \E t \in Tasks :
       tasks[t].state = "unused" /\ TaskFree(r, t) /\ Wrote(r, Event("created", t, 1))

\* The WHERE clause of the update and of the delete.
Matches(o) ==
  /\ tasks[o.task].state = "stored"
  /\ o.kind = "update" => o.expect \in {0, tasks[o.task].version}

\* Mutant: read, then write; the row is not locked in between.
UpdateUnlocked(r) ==
  /\ pc[r] = "write" /\ call[r].op.kind = "update" /\ Matches(call[r].op)
  /\ LET t == call[r].op.task IN Wrote(r, Event("updated", t, tasks[t].version + 1))

\* A matching row that another transaction has changed is waited for.
Update(r) ==
  /\ pc[r] = "write" /\ call[r].op.kind = "update" /\ Matches(call[r].op)
  /\ LET t == call[r].op.task IN
     TaskFree(r, t) /\ Wrote(r, Event("updated", t, tasks[t].version + 1))

Delete(r) ==
  /\ pc[r] = "write" /\ call[r].op.kind = "delete" /\ Matches(call[r].op)
  /\ LET t == call[r].op.task IN
     TaskFree(r, t) /\ Wrote(r, Event("deleted", t, tasks[t].version))

\* Mutant: the response is not stored, and the transaction not abandoned.
MissStaysOpen(r) ==
  /\ pc[r] = "write" /\ call[r].op.kind # "create" /\ ~Matches(call[r].op)
  /\ answer' = [answer EXCEPT ![r] = Answer("refused", {})]
  /\ UNCHANGED <<tables, call, pc, event, inserted, notified>>

\* No row matches what is committed: not found, or the version moved.
Miss(r) ==
  /\ pc[r] = "write" /\ call[r].op.kind # "create" /\ ~Matches(call[r].op)
  /\ UNCHANGED <<tables, notified>>
  /\ End(r, Answer("refused", {}))

\* Mutant: a joined transaction is treated like an own one, and notified for.
EnqueueNotifies(r) ==
  /\ pc[r] = "enqueue"
  /\ \E e \in event[r] :
       inserted' = [inserted EXCEPT ![r] =
                      ~\E x \in jobs : x.live /\ EventID(x.event) = EventID(e)]
  /\ notified' = notified \cup event[r]
  /\ Step(r, IF Keyed(r) THEN "complete" ELSE "commit")
  /\ UNCHANGED <<tables, call, event, answer>>

\* outbox.Enqueue: dropped if a live job has the unique key; an uncommitted
\* one is waited for.
Enqueue(r) ==
  /\ pc[r] = "enqueue"
  /\ \E e \in event[r] :
       /\ \A q \in Requests \ {r} : Open(q) /\ inserted[q] =>
            \A d \in event[q] : EventID(d) # EventID(e)
       /\ inserted' = [inserted EXCEPT ![r] =
                         ~\E x \in jobs : x.live /\ EventID(x.event) = EventID(e)]
  /\ Step(r, IF Keyed(r) THEN "complete" ELSE "commit")
  /\ UNCHANGED <<tables, call, event, answer, notified>>

-----------------------------------------------------------------------------
(* The end of the transaction.                                             *)

\* completeSQL stores the response in the reserved row.
Complete(r) ==
  /\ pc[r] = "complete"
  /\ Step(r, "commit")
  /\ UNCHANGED <<tables, call, event, inserted, answer, notified>>

Install(r) ==
  /\ pc[r] = "commit"
  /\ committed' = committed \cup {r}
  /\ tasks' = [t \in Tasks |-> IF \E e \in event[r] : e.task = t
                               THEN After(CHOOSE e \in event[r] : e.task = t)
                               ELSE tasks[t]]
  /\ jobs' = IF inserted[r] THEN jobs \cup {[event |-> e, live |-> TRUE] : e \in event[r]}
             ELSE jobs
  /\ keys' = [k \in Keys |-> IF k = call[r].key THEN Record(call[r].op, event[r])
                             ELSE keys[k]]

Commit(r) ==
  /\ Install(r)
  /\ Step(r, "notify")
  /\ UNCHANGED <<call, event, inserted, answer, notified>>

\* The commit took place and its answer was lost: no hooks, an error.
CommitLost(r) ==
  /\ Install(r) /\ UNCHANGED notified
  /\ End(r, Answer("error", {}))

\* The notification, own or deferred; its error is ignored.  Then the answer.
Notify(r) ==
  /\ pc[r] = "notify"
  /\ UNCHANGED tables /\ notified' \in {notified, notified \cup event[r]}
  /\ End(r, Answer("done", event[r]))

\* A statement fails, or the handler does: the unit is abandoned, or the own
\* transaction rolls back, and the client is told.  Or the process dies, also
\* after the commit, and the client is not told.
Fails(r) ==
  /\ pc[r] # "done"
  /\ UNCHANGED <<tables, notified>>
  /\ End(r, Answer("error", {}))

-----------------------------------------------------------------------------
(* The purge, and the queue that works the jobs off.                       *)

\* The keys whose TTL has passed are deleted; until then they are replayed.
PurgeKeys(K) ==
  /\ K # {} /\ \A k \in K : keys[k] # NoRecord
  /\ keys' = [k \in Keys |-> IF k \in K THEN NoRecord ELSE keys[k]]
  /\ UNCHANGED <<tasks, jobs, committed, call, pc, event, inserted, answer, notified>>

\* A job reaches a final state, and its unique key is free again.
JobEnds(x) ==
  /\ x \in jobs /\ x.live
  /\ jobs' = (jobs \ {x}) \cup {[x EXCEPT !.live = FALSE]}
  /\ UNCHANGED <<tasks, keys, committed, call, pc, event, inserted, answer, notified>>

-----------------------------------------------------------------------------

\* Bound: no more creations than ids.
Init ==
  /\ tasks = [t \in Tasks |-> [state |-> "unused", version |-> 0]]
  /\ jobs = {} /\ keys = [k \in Keys |-> NoRecord]
  /\ call \in [Requests -> [op : Ops, key : Keys \cup {NoKey}]]
  /\ Cardinality({r \in Requests : call[r].op.kind = "create"}) <= Cardinality(Tasks)
  /\ pc = [r \in Requests |-> Start(r)]
  /\ event = [r \in Requests |-> {}] /\ inserted = [r \in Requests |-> FALSE]
  /\ answer = [r \in Requests |-> NoAnswer]
  /\ committed = {} /\ notified = {}

Proceed(r) ==
  \/ Reserve(r) \/ Replay(r) \/ Create(r) \/ Update(r) \/ Delete(r) \/ Miss(r)
  \/ Enqueue(r) \/ Complete(r) \/ Commit(r) \/ CommitLost(r) \/ Notify(r)

Next ==
  \/ \E r \in Requests : Proceed(r) \/ Fails(r)
  \/ \E K \in SUBSET Keys : PurgeKeys(K)
  \/ \E x \in jobs : JobEnds(x)

Spec == Init /\ [][Next]_vars

\* Statements whose locks are free end: they answer, or fail.
FairSpec == Spec /\ \A r \in Requests : WF_vars(Proceed(r))

-----------------------------------------------------------------------------

TypeOK ==
  /\ tasks \in [Tasks -> [state : {"unused", "stored", "deleted"}, version : Nat]]
  /\ jobs \subseteq [event : Events, live : BOOLEAN]
  /\ keys \in [Keys -> [op : SUBSET Ops, event : SUBSET Events]]
  /\ call \in [Requests -> [op : Ops, key : Keys \cup {NoKey}]]
  /\ pc \in [Requests -> {"reserve", "write", "enqueue", "complete", "commit",
                          "notify", "done"}]
  /\ event \in [Requests -> SUBSET Events] /\ inserted \in [Requests -> BOOLEAN]
  /\ committed \subseteq Requests /\ notified \subseteq Events
  /\ \A r \in Requests : answer[r].event \subseteq Events
  /\ \A r \in Requests :
       event[r] = {} <=> \/ pc[r] \in {"reserve", "write"}
                         \/ pc[r] = "done" /\ r \notin committed

\* The tables as AtomicWrites sees them.
AbstractEvents == {x.event : x \in jobs}
AbstractKeys ==
  [k \in Keys |-> {[op |-> o, event |-> e] : o \in keys[k].op, e \in keys[k].event}]

A == INSTANCE AtomicWrites WITH events <- AbstractEvents, keys <- AbstractKeys

(***************************************************************************)
(* Every write is atomic: task, event and key change together, as if the   *)
(* request had run alone at its commit.                                    *)
(***************************************************************************)
ImplementsAtomicWrites == A!Spec

(***************************************************************************)
(* Every change is delivered under an id of its own: committed changes and *)
(* jobs correspond one to one, and no two share an X-Event-Id, which the   *)
(* receiver deduplicates on.                                               *)
(***************************************************************************)
EventPerChange ==
  /\ \A r \in committed : \E x \in jobs : event[r] = {x.event}
  /\ \A x \in jobs : \E r \in committed : event[r] = {x.event}
  /\ \A x, y \in jobs : EventID(x.event) = EventID(y.event) => x = y
  /\ \A r, s \in committed : event[r] = event[s] => r = s

(***************************************************************************)
(* What the client is told is true: a success was committed, a replay is   *)
(* the result of the same request under the same key, and a refusal has    *)
(* changed nothing.                                                        *)
(***************************************************************************)
TruthfulAnswers ==
  \A r \in Requests :
    /\ answer[r].code = "done" => r \in committed /\ answer[r].event = event[r]
    /\ answer[r].code = "replayed" =>
         \E q \in committed : call[q] = call[r] /\ answer[r].event = event[q]
    /\ answer[r].code \in {"mismatch", "refused", "replayed"} => r \notin committed

\* A worker that a notification wakes finds the job it was woken for.
NotifiedIsVisible == notified \subseteq {x.event : x \in jobs}

(***************************************************************************)
(* A request is answered: waiting for a key or a task ends, because every  *)
(* transaction that holds one ends.                                        *)
(***************************************************************************)
RequestAnswered == <>(\A r \in Requests : pc[r] = "done")

=============================================================================
