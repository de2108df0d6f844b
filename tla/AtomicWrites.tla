---------------------------- MODULE AtomicWrites ----------------------------
(***************************************************************************)
(* What a client of the write path is promised: a write happens at once.   *)
(* In one step the task changes, its event is queued and, for a keyed      *)
(* request, the key remembers the request and its result; a key that is    *)
(* remembered executes nothing.  No step does a part of this.              *)
(***************************************************************************)
EXTENDS Naturals

CONSTANTS Tasks, Keys, NoKey, Ops

VARIABLES
  tasks,    \* the task rows
  events,   \* every event ever queued
  keys      \* what each key remembers

vars == <<tasks, events, keys>>

Init ==
  /\ tasks = [t \in Tasks |-> [state |-> "unused", version |-> 0]]
  /\ events = {}
  /\ keys = [k \in Keys |-> {}]

Change(t, kind, state, version, o, k) ==
  LET e == [kind |-> kind, task |-> t, version |-> version] IN
  /\ tasks' = [tasks EXCEPT ![t] = [state |-> state, version |-> version]]
  /\ e \notin events /\ events' = events \cup {e}
  /\ \/ k = NoKey /\ UNCHANGED keys
     \/ /\ k # NoKey /\ keys[k] = {}
        /\ keys' = [keys EXCEPT ![k] = {[op |-> o, event |-> e]}]

Create(o, k) ==
  /\ o.kind = "create"
  /\ \E t \in Tasks : tasks[t].state = "unused" /\ Change(t, "created", "stored", 1, o, k)

\* Nobody else's update is overwritten by a request that names a version.
Update(o, k) ==
  /\ o.kind = "update" /\ tasks[o.task].state = "stored"
  /\ o.expect \in {0, tasks[o.task].version}
  /\ Change(o.task, "updated", "stored", tasks[o.task].version + 1, o, k)

Delete(o, k) ==
  /\ o.kind = "delete" /\ tasks[o.task].state = "stored"
  /\ Change(o.task, "deleted", "deleted", tasks[o.task].version, o, k)

Forget ==
  /\ \E K \in SUBSET Keys : keys' = [k \in Keys |-> IF k \in K THEN {} ELSE keys[k]]
  /\ UNCHANGED <<tasks, events>>

Next ==
  \/ \E o \in Ops : \E k \in Keys \cup {NoKey} : Create(o, k) \/ Update(o, k) \/ Delete(o, k)
  \/ Forget

Spec == Init /\ [][Next]_vars

=============================================================================
