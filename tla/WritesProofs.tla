---------------------------- MODULE WritesProofs ----------------------------
(***************************************************************************)
(* Proofs about Writes, for every number of requests, tasks, keys and      *)
(* operations.                                                             *)
(*                                                                         *)
(* The argument is about the change an open transaction carries.  It was   *)
(* computed from rows that nobody else could change since (Pending), so it *)
(* still fits them when it is installed; every event that is queued lies   *)
(* behind the row it is about (Queued), so a change that fits is new, its  *)
(* event is not dropped as a duplicate, and a commit is one whole step of  *)
(* AtomicWrites.                                                           *)
(***************************************************************************)
EXTENDS Writes, TLAPS

USE WritesAssumption

Codes == {"none", "done", "replayed", "mismatch", "refused", "error"}
Places == {"reserve", "write", "enqueue", "complete", "commit", "notify", "done"}

TypeInv ==
  /\ tasks \in [Tasks -> [state : {"unused", "stored", "deleted"}, version : Nat]]
  /\ jobs \subseteq [event : Events, live : BOOLEAN]
  /\ keys \in [Keys -> [op : SUBSET Ops, event : SUBSET Events]]
  /\ call \in [Requests -> [op : Ops, key : Keys \cup {NoKey}]]
  /\ pc \in [Requests -> Places]
  /\ event \in [Requests -> SUBSET Events]
  /\ inserted \in [Requests -> BOOLEAN]
  /\ answer \in [Requests -> [code : Codes, event : SUBSET Events]]
  /\ committed \subseteq Requests /\ notified \subseteq Events

\* The request has changed a row in a transaction that is still open.
Carries(r) == pc[r] \in {"enqueue", "complete", "commit"}

\* The change e is the next one of its task.
Fits(e) ==
  \/ e.kind = "created" /\ tasks[e.task].state = "unused" /\ e.version = 1
  \/ e.kind = "updated" /\ tasks[e.task].state = "stored"
       /\ e.version = tasks[e.task].version + 1
  \/ e.kind = "deleted" /\ tasks[e.task].state = "stored"
       /\ e.version = tasks[e.task].version

\* The change e is one the request with operation o makes.
Asked(o, e) ==
  \/ o.kind = "create" /\ e.kind = "created"
  \/ o.kind = "update" /\ e.kind = "updated" /\ o.task = e.task
       /\ o.expect \in {0, e.version - 1}
  \/ o.kind = "delete" /\ e.kind = "deleted" /\ o.task = e.task

\* The change e has been made.
Past(e) ==
  \/ e.kind = "created" /\ tasks[e.task].state # "unused"
  \/ e.kind = "updated" /\ tasks[e.task].state # "unused"
       /\ e.version <= tasks[e.task].version
  \/ e.kind = "deleted" /\ tasks[e.task].state = "deleted"

\* What a transaction has in hand, request by request.
Pending ==
  \A r \in Requests :
    /\ Carries(r) => \E e \in event[r] : event[r] = {e} /\ Fits(e) /\ Asked(call[r].op, e)
    /\ pc[r] \in {"reserve", "write"} => event[r] = {}
    /\ pc[r] \in {"complete", "commit"} => inserted[r]
    /\ pc[r] = "notify" => r \in committed
    /\ r \in committed => pc[r] \in {"notify", "done"}
    /\ pc[r] = "done" /\ r \notin committed => event[r] = {}
    /\ pc[r] = "reserve" => Keyed(r)

\* Rows and keys are locked until the transaction ends.
Locked ==
  \A q, r \in Requests : q # r =>
    /\ Carries(q) /\ Carries(r) =>
         \A d \in event[q], e \in event[r] : d.task # e.task
    /\ Open(q) /\ Open(r) /\ Keyed(q) => call[q].key # call[r].key

\* An open transaction's key is not in the table yet.
Reserved == \A r \in Requests : Open(r) /\ Keyed(r) => keys[call[r].key] = NoRecord

\* What a key remembers is a committed request of that key.
Remembered ==
  \A k \in Keys : keys[k] # NoRecord =>
    \E q \in committed : /\ call[q].key = k /\ keys[k].op = {call[q].op}
                         /\ keys[k].event = event[q]

Queued == \A x \in jobs : Past(x.event)

\* Only a request that is over has an answer.
AnsweredLast == \A r \in Requests : answer[r].code # "none" => pc[r] = "done"

Inv ==
  /\ TypeInv /\ Pending /\ Locked /\ Reserved /\ Remembered /\ Queued /\ AnsweredLast
  /\ EventPerChange /\ TruthfulAnswers /\ NotifiedIsVisible

-----------------------------------------------------------------------------
(* What the operators of Writes give.                                      *)

\* The id of an event names the event.
LEMMA EventIDInjective ==
  ASSUME NEW d \in Events, NEW e \in Events, EventID(d) = EventID(e)
  PROVE  d = e
  BY DEF Events, EventID

\* A change that fits has not been made.
LEMMA FitsIsNew ==
  ASSUME TypeInv, NEW d \in Events, NEW e \in Events, Past(d), Fits(e)
  PROVE  d # e
  BY DEF TypeInv, Events, Past, Fits

\* What the repository writes is the next change of a row that is free.
LEMMA RepositoryWrites ==
  ASSUME TypeInv, NEW r \in Requests, Create(r) \/ Update(r) \/ Delete(r)
  PROVE  \E e \in Events : /\ pc[r] = "write" /\ Wrote(r, e)
                           /\ Fits(e) /\ Asked(call[r].op, e) /\ TaskFree(r, e.task)
<1>1. call[r].op \in Ops
  BY DEF TypeInv
<1>2. CASE Create(r)
  <2>1. PICK t \in Tasks : /\ tasks[t].state = "unused" /\ TaskFree(r, t)
                           /\ Wrote(r, Event("created", t, 1))
    BY <1>2 DEF Create
  <2>2. QED
    BY <1>2, <2>1 DEF Create, Event, Events, Fits, Asked
<1>3. CASE Update(r)
  <2> DEFINE t == call[r].op.task
             e == Event("updated", t, tasks[t].version + 1)
  <2>1. t \in Tasks /\ call[r].op.expect \in Nat /\ call[r].op.kind = "update"
    BY <1>1, <1>3 DEF Update
  <2>2. tasks[t].version \in Nat
    BY <2>1 DEF TypeInv
  <2>3. e \in Events /\ e.kind = "updated" /\ e.task = t /\ e.version = tasks[t].version + 1
    BY <2>1, <2>2 DEF Event, Events
  <2>4. pc[r] = "write" /\ Matches(call[r].op) /\ TaskFree(r, t) /\ Wrote(r, e)
    BY <1>3 DEF Update
  <2> HIDE DEF e
  <2>5. Fits(e) /\ Asked(call[r].op, e)
    <3>1. e.version - 1 = tasks[t].version /\ call[r].op.expect \in {0, tasks[t].version}
      BY <2>1, <2>2, <2>3, <2>4 DEF Matches
    <3>2. QED
      BY <2>1, <2>3, <2>4, <3>1 DEF Matches, Fits, Asked
  <2>6. QED
    BY <2>3, <2>4, <2>5
<1>4. CASE Delete(r)
  <2> DEFINE t == call[r].op.task
             e == Event("deleted", t, tasks[t].version)
  <2>1. t \in Tasks /\ call[r].op.kind = "delete"
    BY <1>1, <1>4 DEF Delete
  <2>2. tasks[t].version \in Nat
    BY <2>1 DEF TypeInv
  <2>3. e \in Events /\ e.kind = "deleted" /\ e.task = t /\ e.version = tasks[t].version
    BY <2>1, <2>2 DEF Event, Events
  <2>4. pc[r] = "write" /\ Matches(call[r].op) /\ TaskFree(r, t) /\ Wrote(r, e)
    BY <1>4 DEF Delete
  <2>5. Fits(e) /\ Asked(call[r].op, e)
    BY <2>1, <2>2, <2>3, <2>4 DEF Matches, Fits, Asked
  <2>6. QED
    BY <2>3, <2>4, <2>5
<1>5. QED
  BY <1>2, <1>3, <1>4

\* An event that is queued in a transaction always becomes a job.
LEMMA EnqueueInserts ==
  ASSUME Inv, NEW r \in Requests, Enqueue(r)
  PROVE  inserted' = [inserted EXCEPT ![r] = TRUE]
<1>1. PICK e \in event[r] : Fits(e) /\ event[r] = {e}
  BY DEF Inv, Pending, Enqueue, Carries
<1>2. e \in Events /\ \A x \in jobs : x.event \in Events /\ Past(x.event)
  BY DEF Inv, TypeInv, Queued
<1>3. \A x \in jobs : EventID(x.event) # EventID(e)
  BY <1>1, <1>2, FitsIsNew, EventIDInjective DEF Inv
<1>4. QED
  BY <1>1, <1>3 DEF Enqueue

\* What a commit installs: one change, its job, and what its key remembers.
LEMMA InstallsOne ==
  ASSUME Inv, NEW r \in Requests, Install(r)
  PROVE  \E e \in Events :
           /\ event[r] = {e} /\ Fits(e) /\ Asked(call[r].op, e)
           /\ \A x \in jobs : x.event # e
           /\ tasks' = [tasks EXCEPT ![e.task] = After(e)]
           /\ jobs' = jobs \cup {[event |-> e, live |-> TRUE]}
<1>1. PICK e \in event[r] : event[r] = {e} /\ Fits(e) /\ Asked(call[r].op, e)
  BY DEF Inv, Pending, Install, Carries
<1>2. e \in Events /\ inserted[r]
  BY DEF Inv, TypeInv, Pending, Install
<1>3. \A x \in jobs : x.event # e
  BY <1>1, <1>2, FitsIsNew DEF Inv, TypeInv, Queued
<1>4. tasks' = [tasks EXCEPT ![e.task] = After(e)]
  <2>1. \A t \in Tasks : t = e.task => (CHOOSE d \in event[r] : d.task = t) = e
    BY <1>1
  <2>2. \A t \in Tasks : tasks'[t] = IF t = e.task THEN After(e) ELSE tasks[t]
    BY <1>1, <2>1 DEF Install
  <2>3. QED
    BY <2>2 DEF Install, Inv, TypeInv
<1>5. jobs' = jobs \cup {[event |-> e, live |-> TRUE]}
  BY <1>1, <1>2 DEF Install
<1>6. QED
  BY <1>1, <1>2, <1>3, <1>4, <1>5

-----------------------------------------------------------------------------
(* Every action keeps the invariant.                                       *)

\* Before the first request there is nothing to account for.
LEMMA InitInv == Init => Inv
<1> SUFFICES ASSUME Init PROVE Inv
  OBVIOUS
<1>1. TypeInv
  BY DEF Init, TypeInv, Start, Places, Codes, NoRecord, NoAnswer, Answer
<1>2. \A r \in Requests : pc[r] = IF Keyed(r) THEN "reserve" ELSE "write"
  BY DEF Init, Start
<1>3. Pending /\ Locked /\ Reserved
  BY <1>1, <1>2 DEF Init, TypeInv, Pending, Locked, Reserved, Carries, Open
<1>4. Remembered /\ Queued /\ AnsweredLast
  BY DEF Init, Remembered, Queued, AnsweredLast, NoAnswer, Answer
<1>5. EventPerChange /\ TruthfulAnswers /\ NotifiedIsVisible
  BY DEF Init, EventPerChange, TruthfulAnswers, NotifiedIsVisible, NoAnswer, Answer
<1>6. QED
  BY <1>1, <1>3, <1>4, <1>5 DEF Inv

\* What holds of committed requests, jobs and answers only looks at these.
LEMMA NothingCommitted ==
  ASSUME Inv, UNCHANGED <<tables, call, answer, notified>>,
         \A q \in committed : event'[q] = event[q]
  PROVE  Remembered' /\ Queued' /\ EventPerChange' /\ TruthfulAnswers' /\ NotifiedIsVisible'
<1> USE DEF Inv, tables
<1>1. Remembered'
  BY DEF Remembered
<1>2. Queued' /\ NotifiedIsVisible'
  BY DEF Queued, Past, NotifiedIsVisible
<1>3. EventPerChange'
  BY DEF EventPerChange
<1>4. TruthfulAnswers'
  BY DEF TruthfulAnswers
<1>5. QED
  BY <1>1, <1>2, <1>3, <1>4

\* A reservation takes a key that nobody has.
LEMMA ReserveKeeps ==
  ASSUME Inv, NEW r \in Requests, Reserve(r)
  PROVE  Inv'
<1> USE DEF Inv, Reserve, Step, tables
<1>1. TypeInv'
  BY DEF TypeInv, Places
<1>2. pc'[r] = "write" /\ \A q \in Requests \ {r} : pc'[q] = pc[q]
  BY DEF TypeInv
<1>3. Pending'
  BY <1>2 DEF TypeInv, Pending, Carries, Fits, Asked, Keyed
<1>4. Locked'
  BY <1>2 DEF Locked, Carries, Open, Keyed, KeyFree
<1>5. Reserved'
  BY <1>2 DEF Reserved, Open, Keyed
<1>6. AnsweredLast'
  BY <1>2 DEF AnsweredLast
<1>7. QED
  BY <1>1, <1>3, <1>4, <1>5, <1>6, NothingCommitted

\* A write carries a change that fits its task, and locks the row.
LEMMA WroteKeeps ==
  ASSUME Inv, NEW r \in Requests, NEW e \in Events,
         pc[r] = "write", Wrote(r, e), Fits(e), Asked(call[r].op, e), TaskFree(r, e.task)
  PROVE  Inv'
<1> USE DEF Inv, Wrote, Step, tables
<1>1. TypeInv'
  BY DEF TypeInv, Places
<1>2. /\ pc'[r] = "enqueue" /\ \A q \in Requests \ {r} : pc'[q] = pc[q]
      /\ event'[r] = {e} /\ \A q \in Requests \ {r} : event'[q] = event[q]
  BY DEF TypeInv
<1>3. r \notin committed
  BY DEF Pending
<1>4. Pending'
  <2>1. Fits(e)' /\ Asked(call[r].op, e)'
    BY DEF Fits, Asked
  <2>2. \A q \in Requests \ {r} : \A d \in event[q] :
          (Fits(d) => Fits(d)') /\ (Asked(call[q].op, d) => Asked(call[q].op, d)')
    BY DEF Fits, Asked
  <2>3. QED
    BY <1>2, <1>3, <2>1, <2>2 DEF Pending, Carries, Keyed
<1>5. Locked'
  BY <1>2 DEF Locked, Carries, Open, Keyed, TaskFree
<1>6. Reserved'
  BY <1>2 DEF Reserved, Open, Keyed
<1>7. AnsweredLast'
  BY <1>2 DEF AnsweredLast
<1>8. \A q \in committed : event'[q] = event[q]
  BY <1>2, <1>3 DEF TypeInv
<1>9. QED
  BY <1>1, <1>4, <1>5, <1>6, <1>7, <1>8, NothingCommitted

\* The change is new, so its event is inserted.
LEMMA EnqueueKeeps ==
  ASSUME Inv, NEW r \in Requests, Enqueue(r)
  PROVE  Inv'
<1> USE DEF Inv, Step, tables
<1>1. inserted' = [inserted EXCEPT ![r] = TRUE]
  BY EnqueueInserts
<1>2. /\ pc[r] = "enqueue"
      /\ pc' = [pc EXCEPT ![r] = IF Keyed(r) THEN "complete" ELSE "commit"]
      /\ UNCHANGED <<tables, call, event, answer, notified>>
  BY DEF Enqueue
<1>3. TypeInv'
  BY <1>1, <1>2 DEF TypeInv, Places
<1>4. /\ pc'[r] \in {"complete", "commit"} /\ inserted'[r]
      /\ \A q \in Requests \ {r} : pc'[q] = pc[q] /\ inserted'[q] = inserted[q]
  BY <1>1, <1>2 DEF TypeInv
<1>5. Pending'
  BY <1>2, <1>4 DEF Pending, Carries, Fits, Asked, Keyed
<1>6. Locked' /\ Reserved'
  BY <1>2, <1>4 DEF Locked, Reserved, Carries, Open, Keyed
<1>7. AnsweredLast'
  BY <1>2, <1>4 DEF AnsweredLast
<1>8. QED
  BY <1>2, <1>3, <1>5, <1>6, <1>7, NothingCommitted

\* The response that is stored is that of the change in hand.
LEMMA CompleteKeeps ==
  ASSUME Inv, NEW r \in Requests, Complete(r)
  PROVE  Inv'
<1> USE DEF Inv, Complete, Step, tables
<1>1. TypeInv'
  BY DEF TypeInv, Places
<1>2. pc'[r] = "commit" /\ \A q \in Requests \ {r} : pc'[q] = pc[q]
  BY DEF TypeInv
<1>3. Pending'
  BY <1>2 DEF Pending, Carries, Fits, Asked, Keyed
<1>4. Locked' /\ Reserved'
  BY <1>2 DEF Locked, Reserved, Carries, Open, Keyed
<1>5. AnsweredLast'
  BY <1>2 DEF AnsweredLast
<1>6. QED
  BY <1>1, <1>3, <1>4, <1>5, NothingCommitted

\* A request ends without a commit of its own in this step.
LEMMA EndKeeps ==
  ASSUME Inv, NEW r \in Requests, pc[r] # "done", NEW a, End(r, a), UNCHANGED tables,
         a \in [code : Codes, event : SUBSET Events],
         notified' = notified \/ (pc[r] = "notify" /\ notified' = notified \cup event[r]),
         a.code = "done" => pc[r] = "notify" /\ a.event = event[r],
         a.code = "replayed" => \E q \in committed : call[q] = call[r] /\ a.event = event[q],
         a.code \in {"mismatch", "refused", "replayed"} => pc[r] # "notify"
  PROVE  Inv'
<1> USE DEF Inv, tables
<1>1. /\ pc' = [pc EXCEPT ![r] = "done"] /\ answer' = [answer EXCEPT ![r] = a]
      /\ event' = [event EXCEPT ![r] = IF r \in committed THEN @ ELSE {}]
      /\ inserted' = [inserted EXCEPT ![r] = r \in committed /\ @]
      /\ UNCHANGED call
  BY DEF End, Step
<1>2. notified' \subseteq Events
  BY DEF TypeInv
<1>3. TypeInv'
  BY <1>1, <1>2 DEF TypeInv, Places
<1>4. /\ pc'[r] = "done" /\ answer'[r] = a
      /\ event'[r] = IF r \in committed THEN event[r] ELSE {}
      /\ \A q \in Requests \ {r} : /\ pc'[q] = pc[q] /\ event'[q] = event[q]
                                   /\ inserted'[q] = inserted[q] /\ answer'[q] = answer[q]
  BY <1>1 DEF TypeInv
<1>5. Pending'
  <2>1. \A q \in Requests \ {r} : \A d \in event[q] :
          (Fits(d) => Fits(d)') /\ (Asked(call[q].op, d) => Asked(call[q].op, d)')
    BY <1>1 DEF Fits, Asked
  <2>2. ASSUME NEW q \in Requests \ {r}, Carries(q)'
        PROVE  \E e \in event'[q] : event'[q] = {e} /\ Fits(e)' /\ Asked(call[q].op, e)'
    <3>1. PICK e \in event[q] : event[q] = {e} /\ Fits(e) /\ Asked(call[q].op, e)
      BY <1>4, <2>2 DEF Pending, Carries
    <3>2. QED
      BY <1>4, <2>1, <3>1
  <2>3. ~Carries(r)'
    BY <1>4 DEF Carries
  <2>4. QED
    BY <1>1, <1>4, <2>2, <2>3 DEF Pending, Keyed
<1>6. Locked' /\ Reserved'
  BY <1>1, <1>4 DEF Locked, Reserved, Carries, Open, Keyed
<1>7. \A q \in committed : event'[q] = event[q]
  BY <1>4 DEF TypeInv
<1>8. Remembered' /\ Queued'
  BY <1>1, <1>7 DEF Remembered, Queued, Past
<1>9. AnsweredLast'
  BY <1>4 DEF AnsweredLast
<1>10. EventPerChange'
  BY <1>7 DEF EventPerChange
<1>11. TruthfulAnswers'
  <2>1. r \in committed <=> pc[r] = "notify"
    BY DEF Pending
  <2>2. ASSUME NEW q \in Requests \ {r}
        PROVE  /\ answer'[q].code = "done" => q \in committed /\ answer'[q].event = event'[q]
               /\ answer'[q].code = "replayed" =>
                    \E p \in committed : call[p] = call[q] /\ answer'[q].event = event'[p]
               /\ answer'[q].code \in {"mismatch", "refused", "replayed"} => q \notin committed
    BY <1>4, <1>7 DEF TruthfulAnswers
  <2>3. /\ answer'[r].code = "done" => r \in committed /\ answer'[r].event = event'[r]
        /\ answer'[r].code = "replayed" =>
             \E p \in committed : call[p] = call[r] /\ answer'[r].event = event'[p]
        /\ answer'[r].code \in {"mismatch", "refused", "replayed"} => r \notin committed
    BY <1>4, <1>7, <2>1
  <2>4. QED
    BY <1>1, <2>2, <2>3 DEF TruthfulAnswers
<1>12. NotifiedIsVisible'
  <2>1. pc[r] = "notify" => \E x \in jobs : event[r] = {x.event}
    BY DEF Pending, EventPerChange
  <2>2. QED
    BY <2>1 DEF NotifiedIsVisible
<1>13. QED
  BY <1>3, <1>5, <1>6, <1>8, <1>9, <1>10, <1>11, <1>12

\* A replay answers with a change that was committed under its key.
LEMMA ReplayKeeps ==
  ASSUME Inv, NEW r \in Requests, Replay(r)
  PROVE  Inv'
<1> DEFINE seen == keys[call[r].key]
           a == IF call[r].op \in seen.op THEN Answer("replayed", seen.event)
                ELSE Answer("mismatch", {})
<1>1. /\ pc[r] = "reserve" /\ seen # NoRecord /\ UNCHANGED <<tables, notified>>
      /\ End(r, a)
  BY DEF Replay
<1>2. call[r].key \in Keys
  BY <1>1 DEF Inv, TypeInv, Pending, Keyed
<1>3. PICK q \in committed : /\ call[q].key = call[r].key /\ seen.op = {call[q].op}
                             /\ seen.event = event[q]
  BY <1>1, <1>2 DEF Inv, Remembered
<1>4. q \in Requests /\ event[q] \subseteq Events
  BY DEF Inv, TypeInv
<1>5. call[q].op = call[r].op => call[q] = call[r]
  BY <1>3, <1>4 DEF Inv, TypeInv
<1>6. /\ a \in [code : Codes, event : SUBSET Events]
      /\ a.code \in {"replayed", "mismatch"}
      /\ a.code = "replayed" => call[q] = call[r] /\ a.event = event[q]
  BY <1>3, <1>4, <1>5 DEF Answer, Codes
<1> HIDE DEF a
<1>7. QED
  BY <1>1, <1>6, EndKeeps

\* A refusal and an error leave nothing behind.
LEMMA RefusalKeeps ==
  ASSUME Inv, NEW r \in Requests, Miss(r) \/ Fails(r)
  PROVE  Inv'
<1>1. CASE Miss(r)
  <2> DEFINE a == Answer("refused", {})
  <2>1. a \in [code : Codes, event : SUBSET Events] /\ a.code = "refused"
    BY DEF Answer, Codes
  <2>2. pc[r] = "write" /\ UNCHANGED <<tables, notified>> /\ End(r, a)
    BY <1>1 DEF Miss
  <2> HIDE DEF a
  <2>3. QED
    BY <2>1, <2>2, EndKeeps
<1>2. CASE Fails(r)
  <2> DEFINE a == Answer("error", {})
  <2>1. a \in [code : Codes, event : SUBSET Events] /\ a.code = "error"
    BY DEF Answer, Codes
  <2>2. pc[r] # "done" /\ UNCHANGED <<tables, notified>> /\ End(r, a)
    BY <1>2 DEF Fails
  <2> HIDE DEF a
  <2>3. QED
    BY <2>1, <2>2, EndKeeps
<1>3. QED
  BY <1>1, <1>2

\* A notification is sent for a job that is committed.
LEMMA NotifyKeeps ==
  ASSUME Inv, NEW r \in Requests, Notify(r)
  PROVE  Inv'
<1> DEFINE a == Answer("done", event[r])
<1>1. /\ a \in [code : Codes, event : SUBSET Events] /\ a.code = "done"
      /\ a.event = event[r]
  BY DEF Answer, Codes, Inv, TypeInv
<1>2. /\ pc[r] = "notify" /\ UNCHANGED tables /\ End(r, a)
      /\ notified' \in {notified, notified \cup event[r]}
  BY DEF Notify
<1> HIDE DEF a
<1>3. QED
  BY <1>1, <1>2, EndKeeps

\* The commit, whether or not its answer arrives.
LEMMA InstallKeeps ==
  ASSUME Inv, NEW r \in Requests, Install(r), UNCHANGED <<call, event, inserted, notified>>,
         NEW p \in {"notify", "done"}, Step(r, p),
         answer' = answer \/ (p = "done" /\ answer' = [answer EXCEPT ![r] = Answer("error", {})])
  PROVE  Inv'
<1> USE DEF Inv
<1>1. PICK e \in Events :
        /\ event[r] = {e} /\ Fits(e) /\ Asked(call[r].op, e)
        /\ \A x \in jobs : x.event # e
        /\ tasks' = [tasks EXCEPT ![e.task] = After(e)]
        /\ jobs' = jobs \cup {[event |-> e, live |-> TRUE]}
  BY InstallsOne
<1>2. /\ pc[r] = "commit" /\ committed' = committed \cup {r}
      /\ keys' = [k \in Keys |-> IF k = call[r].key THEN Record(call[r].op, event[r])
                                 ELSE keys[k]]
  BY DEF Install
<1> DEFINE n == [event |-> e, live |-> TRUE]
<1>job. n \in [event : Events, live : BOOLEAN] /\ n.event = e /\ jobs' = jobs \cup {n}
  BY <1>1
<1> HIDE DEF n
<1>3. e.task \in Tasks /\ e.version \in Nat /\ e.kind \in {"created", "updated", "deleted"}
  BY DEF Events
<1>4. After(e) \in [state : {"unused", "stored", "deleted"}, version : Nat]
  BY <1>3 DEF After
<1>5. TypeInv'
  <2>1. tasks' \in [Tasks -> [state : {"unused", "stored", "deleted"}, version : Nat]]
    BY <1>1, <1>3, <1>4 DEF TypeInv
  <2>2. keys' \in [Keys -> [op : SUBSET Ops, event : SUBSET Events]]
    BY <1>2 DEF TypeInv, Record
  <2>3. answer' \in [Requests -> [code : Codes, event : SUBSET Events]]
    BY DEF TypeInv, Answer, Codes
  <2>4. jobs' \subseteq [event : Events, live : BOOLEAN]
    BY <1>job DEF TypeInv
  <2>5. pc' \in [Requests -> Places]
    BY DEF TypeInv, Step, Places
  <2>6. QED
    BY <1>2, <2>1, <2>2, <2>3, <2>4, <2>5 DEF TypeInv
<1>6. /\ pc'[r] = p /\ r \notin committed
      /\ \A q \in Requests \ {r} : pc'[q] = pc[q] /\ answer'[q] = answer[q]
      /\ answer'[r].code \in {"none", "error"}
  BY <1>2 DEF TypeInv, Step, Pending, AnsweredLast, Answer
<1>7. /\ tasks'[e.task] = After(e)
      /\ \A t \in Tasks \ {e.task} : tasks'[t] = tasks[t]
  BY <1>1, <1>3 DEF TypeInv
<1>8. ASSUME NEW q \in Requests \ {r}, Carries(q)
      PROVE  \E d \in event[q] : event[q] = {d} /\ Fits(d)' /\ Asked(call[q].op, d)
  <2>1. PICK d \in event[q] : event[q] = {d} /\ Fits(d) /\ Asked(call[q].op, d)
    BY <1>8 DEF Pending
  <2>2. d.task # e.task
    <3>1. Carries(r) /\ e \in event[r] /\ q # r
      BY <1>1, <1>2 DEF Carries
    <3>2. QED
      BY <1>8, <2>1, <3>1 DEF Locked
  <2>5. d.task \in Tasks
    BY <2>1 DEF TypeInv, Events
  <2>3. Fits(d)'
    BY <1>7, <2>1, <2>2, <2>5 DEF Fits
  <2>4. QED
    BY <2>1, <2>3
<1>9. Pending'
  <2>1. \A q \in Requests : ~Carries(r)' /\ (Carries(q)' => q # r /\ Carries(q))
    BY <1>6 DEF Carries
  <2>2. \A q \in Requests, d \in Events : Asked(call[q].op, d) => Asked(call[q].op, d)'
    BY DEF Asked
  <2>3. \A q \in Requests : Carries(q)' =>
          \E d \in event'[q] : event'[q] = {d} /\ Fits(d)' /\ Asked(call[q].op, d)'
    BY <1>8, <2>1 DEF Asked
  <2>4. QED
    BY <1>2, <1>6, <2>3 DEF Pending, Keyed
<1>10. Locked'
  BY <1>6 DEF Locked, Carries, Open, Keyed
<1>11. Reserved'
  BY <1>2, <1>6 DEF Reserved, Locked, Open, Keyed, TypeInv
<1>12. Remembered'
  BY <1>2 DEF Remembered, Record, TypeInv
<1>13. Queued'
  <2>1. Past(e)'
    BY <1>1, <1>3, <1>7 DEF Past, Fits, After
  <2>2. ASSUME NEW x \in jobs PROVE Past(x.event)'
    <3>1. Past(x.event) /\ x.event \in Events
      BY DEF Queued, TypeInv
    <3>2. CASE x.event.task = e.task
      BY <1>1, <1>3, <1>7, <3>1, <3>2 DEF Past, Fits, After, Events, TypeInv
    <3>3. CASE x.event.task # e.task
      BY <1>7, <3>1, <3>3 DEF Past, Events
    <3>4. QED
      BY <3>2, <3>3
  <2>3. QED
    BY <1>1, <2>1, <2>2 DEF Queued
<1>14. AnsweredLast'
  BY <1>2, <1>6 DEF AnsweredLast, TypeInv, Step, Answer
<1>15. EventPerChange'
  <2>1. \A q \in committed' : \E x \in jobs' : event[q] = {x.event}
    BY <1>1, <1>2, <1>job DEF EventPerChange
  <2>2. \A x \in jobs' : \E q \in committed' : event[q] = {x.event}
    BY <1>1, <1>2, <1>job DEF EventPerChange
  <2>3. \A x, y \in jobs' : EventID(x.event) = EventID(y.event) => x = y
    <3> SUFFICES ASSUME NEW x \in jobs', NEW y \in jobs', EventID(x.event) = EventID(y.event)
                 PROVE  x = y
      OBVIOUS
    <3>1. x.event = y.event
      BY <1>5, EventIDInjective DEF TypeInv
    <3>2. QED
      BY <1>1, <1>job, <3>1 DEF EventPerChange
  <2>4. \A q \in committed : event[q] # event[r]
    <3> SUFFICES ASSUME NEW q \in committed, event[q] = event[r] PROVE FALSE
      OBVIOUS
    <3>1. PICK x \in jobs : event[q] = {x.event}
      BY DEF EventPerChange
    <3>2. QED
      BY <1>1, <3>1
  <2>5. \A q, s \in committed' : event[q] = event[s] => q = s
    BY <1>2, <2>4 DEF EventPerChange
  <2>6. QED
    BY <2>1, <2>2, <2>3, <2>5 DEF EventPerChange
<1>16. TruthfulAnswers'
  <2>1. ASSUME NEW q \in Requests
        PROVE  /\ answer'[q].code = "done" => q \in committed' /\ answer'[q].event = event[q]
               /\ answer'[q].code = "replayed" =>
                    \E s \in committed' : call[s] = call[q] /\ answer'[q].event = event[s]
               /\ answer'[q].code \in {"mismatch", "refused", "replayed"} => q \notin committed'
    BY <1>2, <1>6 DEF TruthfulAnswers
  <2>2. QED
    BY <2>1 DEF TruthfulAnswers
<1>17. NotifiedIsVisible'
  BY <1>1 DEF NotifiedIsVisible
<1>18. QED
  BY <1>5, <1>9, <1>10, <1>11, <1>12, <1>13, <1>14, <1>15, <1>16, <1>17

\* The second half of CommitLost rolls nothing back.
LEMMA CommitKeeps ==
  ASSUME Inv, NEW r \in Requests, Commit(r) \/ CommitLost(r)
  PROVE  Inv'
<1>1. CASE Commit(r)
  BY <1>1, InstallKeeps DEF Commit
<1>2. CASE CommitLost(r)
  <2>1. inserted[r] /\ r \in committed'
    BY <1>2 DEF Inv, Pending, CommitLost, Install
  <2>2. event' = event /\ inserted' = inserted /\ call' = call
    BY <1>2, <2>1 DEF CommitLost, End, Inv, TypeInv
  <2>3. QED
    BY <1>2, <2>2, InstallKeeps DEF CommitLost, End
<1>3. QED
  BY <1>1, <1>2

\* Keys that are purged belong to no open transaction.
LEMMA PurgeKeysKeeps ==
  ASSUME Inv, NEW K \in SUBSET Keys, PurgeKeys(K)
  PROVE  Inv'
<1> USE DEF Inv, PurgeKeys
<1>1. TypeInv'
  BY DEF TypeInv, NoRecord
<1>2. Pending'
  BY DEF Pending, Carries, Fits, Asked, Keyed
<1>3. Locked' /\ Reserved'
  BY DEF Locked, Reserved, Carries, Open, Keyed, TypeInv
<1>4. Remembered'
  BY DEF Remembered
<1>5. Queued' /\ AnsweredLast'
  BY DEF Queued, Past, AnsweredLast
<1>6. EventPerChange' /\ TruthfulAnswers' /\ NotifiedIsVisible'
  BY DEF EventPerChange, TruthfulAnswers, NotifiedIsVisible
<1>7. QED
  BY <1>1, <1>2, <1>3, <1>4, <1>5, <1>6

\* A job that ends stays in the table.
LEMMA JobEndsKeeps ==
  ASSUME Inv, NEW x \in jobs, JobEnds(x)
  PROVE  Inv'
<1> USE DEF Inv, JobEnds
<1> DEFINE y == [x EXCEPT !.live = FALSE]
<1>1. /\ x \in [event : Events, live : BOOLEAN]
      /\ y \in [event : Events, live : BOOLEAN] /\ y.event = x.event
      /\ jobs' = (jobs \ {x}) \cup {y}
  BY DEF TypeInv
<1> HIDE DEF y
<1>2. TypeInv'
  BY <1>1 DEF TypeInv
<1>3. Pending'
  BY DEF Pending, Carries, Fits, Asked, Keyed
<1>4. Locked' /\ Reserved'
  BY DEF Locked, Reserved, Carries, Open, Keyed
<1>5. Remembered' /\ AnsweredLast' /\ TruthfulAnswers'
  BY DEF Remembered, AnsweredLast, TruthfulAnswers
<1>6. Queued'
  BY <1>1 DEF Queued, Past
<1>7. EventPerChange'
  <2>1. ASSUME NEW r \in committed PROVE \E z \in jobs' : event[r] = {z.event}
    <3>1. PICK z \in jobs : event[r] = {z.event}
      BY DEF EventPerChange
    <3>2. y \in jobs' /\ (z # x => z \in jobs')
      BY <1>1
    <3>3. QED
      BY <1>1, <3>1, <3>2
  <2>2. ASSUME NEW z \in jobs' PROVE \E r \in committed : event[r] = {z.event}
    <3>1. z \in jobs \/ z.event = x.event
      BY <1>1
    <3>2. PICK u \in jobs : u.event = z.event
      BY <3>1
    <3>3. PICK r \in committed : event[r] = {u.event}
      BY DEF EventPerChange
    <3>4. QED
      BY <3>2, <3>3
  <2>3. \A u, z \in jobs' : EventID(u.event) = EventID(z.event) => u = z
    BY <1>1 DEF EventPerChange
  <2>4. QED
    BY <2>1, <2>2, <2>3 DEF EventPerChange
<1>8. NotifiedIsVisible'
  BY <1>1 DEF NotifiedIsVisible
<1>9. QED
  BY <1>2, <1>3, <1>4, <1>5, <1>6, <1>7, <1>8

\* The invariant is inductive.
LEMMA StepInv == Inv /\ [Next]_vars => Inv'
<1> SUFFICES ASSUME Inv, [Next]_vars PROVE Inv'
  OBVIOUS
<1>1. ASSUME NEW r \in Requests, Proceed(r) PROVE Inv'
  BY <1>1, ReserveKeeps, ReplayKeeps, RepositoryWrites, WroteKeeps, RefusalKeeps, EnqueueKeeps,
     CompleteKeeps, CommitKeeps, NotifyKeeps DEF Proceed, Inv
<1>2. ASSUME NEW r \in Requests, Fails(r) PROVE Inv'
  BY <1>2, RefusalKeeps
<1>3. ASSUME NEW K \in SUBSET Keys, PurgeKeys(K) PROVE Inv'
  BY <1>3, PurgeKeysKeeps
<1>4. ASSUME NEW x \in jobs, JobEnds(x) PROVE Inv'
  BY <1>4, JobEndsKeeps
<1>5. CASE UNCHANGED vars
  <2> USE <1>5 DEF vars, tables, Inv
  <2>1. TypeInv'
    BY DEF TypeInv
  <2>2. Pending' /\ Locked' /\ Reserved'
    BY DEF Pending, Locked, Reserved, Carries, Open, Keyed, Fits, Asked
  <2>3. AnsweredLast'
    BY DEF AnsweredLast
  <2>4. QED
    BY <2>1, <2>2, <2>3, NothingCommitted
<1>6. QED
  BY <1>1, <1>2, <1>3, <1>4, <1>5 DEF Next

\* So it holds in every state.
LEMMA InvInvariant == Spec => []Inv
  BY InitInv, StepInv, PTL DEF Spec

-----------------------------------------------------------------------------
(* The theorems.                                                           *)

(***************************************************************************)
(* Every committed change has exactly one job and an X-Event-Id of its     *)
(* own: outbox.Enqueue never drops the event of a change as a duplicate,   *)
(* whichever requests run beside it and whichever jobs have ended.         *)
(***************************************************************************)
THEOREM EventsCorrect == Spec => []EventPerChange
<1>1. Inv => EventPerChange
  BY DEF Inv
<1>2. QED
  BY <1>1, InvInvariant, PTL

(***************************************************************************)
(* The client is told the truth: a success was committed, a replay is the  *)
(* stored result of the same request, a refusal has changed nothing,       *)
(* whichever statement of the middleware or the repository fails.          *)
(***************************************************************************)
THEOREM AnswersCorrect == Spec => []TruthfulAnswers
<1>1. Inv => TruthfulAnswers
  BY DEF Inv
<1>2. QED
  BY <1>1, InvInvariant, PTL

(***************************************************************************)
(* Workers are notified of visible jobs only: the after-commit hooks of    *)
(* postgres.InTx never run ahead of the commit.                            *)
(***************************************************************************)
THEOREM NotificationsCorrect == Spec => []NotifiedIsVisible
<1>1. Inv => NotifiedIsVisible
  BY DEF Inv
<1>2. QED
  BY <1>1, InvInvariant, PTL

-----------------------------------------------------------------------------
(* Writes implements AtomicWrites.                                         *)

\* A step that leaves the tables alone is a stutter.
LEMMA TablesUnchanged ==
  ASSUME UNCHANGED tables
  PROVE  UNCHANGED A!vars
  BY DEF tables, A!vars, AbstractEvents, AbstractKeys

\* What a commit does to the keys.
LEMMA KeyRemembers ==
  ASSUME Inv, NEW r \in Requests, Install(r), NEW e, event[r] = {e}
  PROVE  LET k == call[r].key IN
         \/ k = NoKey /\ AbstractKeys' = AbstractKeys
         \/ /\ k # NoKey /\ AbstractKeys[k] = {}
            /\ AbstractKeys' = [AbstractKeys EXCEPT ![k] = {[op |-> call[r].op, event |-> e]}]
<1> DEFINE k == call[r].key
<1>1. /\ pc[r] = "commit" /\ k \in Keys \cup {NoKey}
      /\ keys' = [l \in Keys |-> IF l = k THEN Record(call[r].op, event[r]) ELSE keys[l]]
  BY DEF Install, Inv, TypeInv
<1> HIDE DEF k
<1>2. CASE k = NoKey
  <2>1. \A l \in Keys : keys'[l] = keys[l]
    BY <1>1, <1>2
  <2>2. QED
    BY <1>2, <2>1 DEF AbstractKeys, k
<1>3. CASE k # NoKey
  <2>1. k \in Keys /\ keys[k] = NoRecord
    BY <1>1, <1>3 DEF Inv, Reserved, Open, Keyed, k
  <2>2. AbstractKeys[k] = {}
    BY <2>1 DEF AbstractKeys, NoRecord
  <2>3. keys'[k] = Record(call[r].op, {e}) /\ \A l \in Keys \ {k} : keys'[l] = keys[l]
    BY <1>1, <2>1
  <2>4. {[op |-> o, event |-> d] : o \in keys'[k].op, d \in keys'[k].event}
           = {[op |-> call[r].op, event |-> e]}
    BY <2>3 DEF Record
  <2>5. AbstractKeys' = [AbstractKeys EXCEPT ![k] = {[op |-> call[r].op, event |-> e]}]
    <3> DEFINE F(l) == {[op |-> o, event |-> d] : o \in keys[l].op, d \in keys[l].event}
               G(l) == {[op |-> o, event |-> d] : o \in keys'[l].op, d \in keys'[l].event}
               new == {[op |-> call[r].op, event |-> e]}
    <3>1. G(k) = new
      BY <2>4
    <3>5. ASSUME NEW l \in Keys \ {k} PROVE G(l) = F(l)
      <4>1. keys'[l] = keys[l]
        BY <2>3
      <4>2. QED
        BY <4>1
    <3>2. AbstractKeys = [l \in Keys |-> F(l)] /\ AbstractKeys' = [l \in Keys |-> G(l)]
      BY DEF AbstractKeys
    <3> HIDE DEF F, G, new
    <3>3. AbstractKeys' = [AbstractKeys EXCEPT ![k] = new]
      BY <2>1, <3>1, <3>2, <3>5
    <3>4. QED
      BY <3>3 DEF new
  <2>6. QED
    BY <1>3, <2>2, <2>5 DEF k
<1>4. QED
  BY <1>2, <1>3

\* A commit is the whole write.
LEMMA CommitIsWrite ==
  ASSUME Inv, NEW r \in Requests, Install(r)
  PROVE  A!Next
<1>1. PICK c \in Events :
        /\ event[r] = {c} /\ Fits(c) /\ Asked(call[r].op, c)
        /\ \A x \in jobs : x.event # c
        /\ tasks' = [tasks EXCEPT ![c.task] = After(c)]
        /\ jobs' = jobs \cup {[event |-> c, live |-> TRUE]}
  BY InstallsOne
<1>2. PICK ask \in Ops, key \in Keys \cup {NoKey} : ask = call[r].op /\ key = call[r].key
  BY DEF Inv, TypeInv
<1>3. /\ c.task \in Tasks /\ c.version \in Nat /\ tasks[c.task].version \in Nat
      /\ c = [kind |-> c.kind, task |-> c.task, version |-> c.version]
  BY DEF Events, Inv, TypeInv
<1>4. c \notin AbstractEvents /\ AbstractEvents' = AbstractEvents \cup {c}
  <2> DEFINE n == [event |-> c, live |-> TRUE]
  <2>1. n.event = c /\ jobs' = jobs \cup {n}
    BY <1>1
  <2> HIDE DEF n
  <2>2. QED
    BY <1>1, <2>1 DEF AbstractEvents
<1>5. \/ key = NoKey /\ AbstractKeys' = AbstractKeys
      \/ /\ key # NoKey /\ AbstractKeys[key] = {}
         /\ AbstractKeys' = [AbstractKeys EXCEPT ![key] = {[op |-> ask, event |-> c]}]
  BY <1>1, <1>2, KeyRemembers
<1>6. A!Change(c.task, c.kind, After(c).state, c.version, ask, key)
  <2>1. tasks' = [tasks EXCEPT ![c.task] = [state |-> After(c).state, version |-> c.version]]
    BY <1>1 DEF After
  <2> DEFINE f == [kind |-> c.kind, task |-> c.task, version |-> c.version]
  <2>2. f \notin AbstractEvents /\ AbstractEvents' = AbstractEvents \cup {f}
    BY <1>3, <1>4
  <2>3. \/ key = NoKey /\ UNCHANGED AbstractKeys
        \/ /\ key # NoKey /\ AbstractKeys[key] = {}
           /\ AbstractKeys' = [AbstractKeys EXCEPT ![key] = {[op |-> ask, event |-> f]}]
    BY <1>3, <1>5
  <2>4. QED
    BY <2>1, <2>2, <2>3 DEF A!Change
<1>7. CASE c.kind = "created"
  <2>1. /\ ask.kind = "create" /\ tasks[c.task].state = "unused" /\ After(c).state = "stored"
        /\ c.version = 1
    BY <1>1, <1>2, <1>7 DEF Asked, Fits, After
  <2>2. A!Create(ask, key)
    BY <1>3, <1>6, <1>7, <2>1 DEF A!Create
  <2>3. QED
    BY <2>2 DEF A!Next
<1>8. CASE c.kind = "updated"
  <2>1. /\ ask.kind = "update" /\ ask.task = c.task /\ tasks[ask.task].state = "stored"
        /\ c.version = tasks[ask.task].version + 1 /\ ask.expect \in {0, c.version - 1}
    BY <1>1, <1>2, <1>8 DEF Asked, Fits
  <2>2. c.version - 1 = tasks[ask.task].version
    BY <1>3, <2>1
  <2>3. After(c).state = "stored"
    BY <1>8 DEF After
  <2>4. A!Update(ask, key)
    BY <1>6, <1>8, <2>1, <2>2, <2>3 DEF A!Update
  <2>5. QED
    BY <2>4 DEF A!Next
<1>9. CASE c.kind = "deleted"
  <2>1. /\ ask.kind = "delete" /\ ask.task = c.task /\ tasks[ask.task].state = "stored"
        /\ c.version = tasks[ask.task].version /\ After(c).state = "deleted"
    BY <1>1, <1>2, <1>9 DEF Asked, Fits, After
  <2>2. A!Delete(ask, key)
    BY <1>6, <1>9, <2>1 DEF A!Delete
  <2>3. QED
    BY <2>2 DEF A!Next
<1>10. QED
  BY <1>1, <1>7, <1>8, <1>9 DEF Fits

(***************************************************************************)
(* Every write is atomic: whatever statements of how many requests         *)
(* interleave, fail or lose their answers, task, event and key change in   *)
(* one step, a key that is remembered executes nothing, and an update that *)
(* names a version overwrites nobody's.                                    *)
(***************************************************************************)
THEOREM AtomicWritesRefinement == Spec => ImplementsAtomicWrites
<1>1. Init => A!Init
  BY DEF Init, A!Init, NoRecord, AbstractEvents, AbstractKeys
<1>2. Inv /\ [Next]_vars => [A!Next]_(A!vars)
  <2> SUFFICES ASSUME Inv, [Next]_vars PROVE A!Next \/ UNCHANGED A!vars
    OBVIOUS
  <2>1. ASSUME NEW r \in Requests, Proceed(r) \/ Fails(r)
        PROVE  A!Next \/ UNCHANGED A!vars
    <3>1. CASE Install(r)
      BY <3>1, CommitIsWrite
    <3>2. CASE ~Install(r)
      <4>1. UNCHANGED tables
        BY <2>1, <3>2 DEF Proceed, Reserve, Replay, Create, Update, Delete, Wrote, Miss, Enqueue,
           Complete, Commit, CommitLost, Notify, Fails
      <4>2. QED
        BY <4>1, TablesUnchanged
    <3>3. QED
      BY <3>1, <3>2
  <2>2. ASSUME NEW K \in SUBSET Keys, PurgeKeys(K)
        PROVE  A!Next
    <3>1. \A k \in Keys : keys'[k] = IF k \in K THEN NoRecord ELSE keys[k]
      BY <2>2 DEF PurgeKeys
    <3>2. AbstractKeys' = [k \in Keys |-> IF k \in K THEN {} ELSE AbstractKeys[k]]
      BY <3>1 DEF AbstractKeys, NoRecord
    <3>3. A!Forget
      BY <2>2, <3>2 DEF PurgeKeys, A!Forget, AbstractEvents
    <3>4. QED
      BY <3>3 DEF A!Next
  <2>3. ASSUME NEW x \in jobs, JobEnds(x)
        PROVE  UNCHANGED A!vars
    <3> DEFINE y == [x EXCEPT !.live = FALSE]
    <3>1. x \in [event : Events, live : BOOLEAN]
      BY DEF Inv, TypeInv
    <3>2. y.event = x.event
      BY <3>1
    <3>3. jobs' = (jobs \ {x}) \cup {y}
      BY <2>3 DEF JobEnds
    <3> HIDE DEF y
    <3>4. AbstractEvents' = AbstractEvents
      BY <3>2, <3>3 DEF AbstractEvents
    <3>5. QED
      BY <2>3, <3>4 DEF JobEnds, A!vars, AbstractKeys
  <2>4. CASE UNCHANGED vars
    BY <2>4, TablesUnchanged DEF vars
  <2>5. QED
    BY <2>1, <2>2, <2>3, <2>4 DEF Next
<1>3. QED
  BY <1>1, <1>2, InvInvariant, PTL DEF Spec, ImplementsAtomicWrites, A!Spec
=============================================================================
