---------------------------- MODULE MemoryProofs ----------------------------
(***************************************************************************)
(* Proofs about Memory, for every number of requests, tasks and keys,      *)
(* every page size and every length of time.                               *)
(*                                                                         *)
(* Three arguments.  A record in progress has an owner because whoever     *)
(* stops holding a key takes its record out of progress (KeyHasOwner is    *)
(* inductive).  Where no request outlives its key's TTL, a holder is the   *)
(* only one of its key and the record is its own (Owned), so what it       *)
(* completes is what it did, and a write is one step of AtomicWrites.  And *)
(* a walk is complete because the order of the list never changes for a    *)
(* task that is in it: what the walker got lies before its cursor and what *)
(* it still has to get lies behind (Walked).                               *)
(***************************************************************************)
EXTENDS Memory, FiniteSetTheorems, WellFoundedInduction, TLAPS

Kinds   == {"created", "updated", "deleted"}
Changes == [kind : Kinds, task : Tasks, version : Nat]
Places  == {"new", "stamp", "apply", "complete", "abandon", "done"}
Codes   == {"none", "2xx", "422", "409 in progress", "409", "404", "error"}
Rows    == [state : {"unused", "stored", "deleted"}, version : Nat, created : Nat,
            status : {0, 1}]
Records == [state : {"absent", "in_progress", "completed"}, op : SUBSET Ops,
            event : SUBSET Changes, live : BOOLEAN]
Walks   == [pc : {"idle", "walking", "done"}, filter : {0, 1, Everything},
            cursor : [created : Nat, id : Nat], got : SUBSET Tasks, twice : BOOLEAN,
            stayed : SUBSET Tasks]

TypeInv ==
  /\ clock \in Nat \ {0}
  /\ rows \in [Tasks -> Rows]
  /\ keys \in [Keys -> Records]
  /\ call \in [Requests -> [op : Ops, key : Keys \cup {NoKey}]]
  /\ pc \in [Requests -> Places]
  /\ stamp \in [Requests -> [id : Nat, at : Nat]]
  /\ event \in [Requests -> SUBSET Changes]
  /\ answer \in [Requests -> [code : Codes, event : SUBSET Changes]]
  /\ changes \subseteq Changes
  /\ walk \in Walks

\* A create that is about to enter the table has an id of its own, and a date.
Stamped ==
  \A r \in Requests : pc[r] = "apply" /\ call[r].op.kind = "create" =>
    /\ stamp[r].id \in Tasks /\ rows[stamp[r].id].state = "unused" /\ stamp[r].at >= 1
    /\ \A q \in Requests \ {r} : stamp[q].id # stamp[r].id

\* The dates of tasks lie behind the cursor of the first page.
Dated == \A t \in Tasks : rows[t].state # "unused" => rows[t].created >= 1

\* The change e lies in the past of its task.
Past(e) ==
  \/ e.kind = "created" /\ rows[e.task].state # "unused"
  \/ e.kind = "updated" /\ rows[e.task].state # "unused" /\ e.version <= rows[e.task].version
  \/ e.kind = "deleted" /\ rows[e.task].state = "deleted"

AllPast == \A e \in changes : Past(e)

Walked ==
  /\ ~walk.twice
  /\ \A t \in walk.got : rows[t].state # "unused"
  /\ walk.pc = "walking" =>
       /\ walk.stayed \subseteq Selected(rows, walk.filter)
       /\ \A t \in walk.got : ~After(walk.cursor, t)
       /\ \A t \in walk.stayed \ walk.got : After(walk.cursor, t)
  /\ walk.pc = "done" => walk.stayed \subseteq walk.got

\* The inductive invariant, whatever the time a request takes.
Inv == TypeInv /\ Stamped /\ Dated /\ AllPast /\ Walked /\ KeyHasOwner

\* Where requests end in time: a key has one holder, and the record is the holder's.
Owned ==
  \A r \in Requests : Holds(r) =>
    /\ keys[call[r].key] = InProgress(call[r].op)
    /\ \A q \in Requests : Holds(q) /\ call[q].key = call[r].key => q = r

\* Of the changes in H, E is the one that the operation asked for.
Truthful(H, o, E) == \E e \in H : E = {e} /\ Does(o, e)

\* A completed record remembers what was done under its key.
Sound(H, record) ==
  /\ record.state = "completed" =>
       \E o \in Ops : record.op = {o} /\ Truthful(H, o, record.event)
  /\ record.live => record.state # "absent"

Kept == \A k \in Keys : Sound(changes, keys[k])

\* What a request is about to answer, and has answered, is true.
Answered ==
  \A r \in Requests :
    /\ pc[r] = "complete" =>
         answer[r] = Answer("2xx", event[r]) /\ Truthful(changes, call[r].op, event[r])
    /\ pc[r] = "abandon" => answer[r].code # "2xx"
    /\ pc[r] = "done" /\ answer[r].code = "2xx" => Truthful(changes, call[r].op, answer[r].event)

TimelyInv == Owned /\ Kept /\ Answered

-----------------------------------------------------------------------------
(* Pages.  M is what a List has found.                                     *)

\* What is assumed of the constants, ready for use.
LEMMA Constants ==
  /\ Tasks \subseteq Nat /\ IsFiniteSet(Tasks)
  /\ NoKey \notin Keys /\ Slow \in BOOLEAN
  /\ Limit \in Nat /\ Limit > 0
BY MemoryAssumption DEF Limit, DefaultPageSize, MaxPageSize

\* A set of numbers has a smallest one.
LEMMA Smallest ==
  ASSUME NEW S \in SUBSET Nat, S # {}
  PROVE  \E x \in S : \A y \in S : x <= y
<1> DEFINE R == OpToRel(<, Nat)
<1>1. \A x, y \in Nat : <<y, x>> \in R <=> y < x
  BY DEF OpToRel
<1>2. IsWellFoundedOn(R, Nat)
  BY NatLessThanWellFounded, Zenon
<1> HIDE DEF R
<1>3. \E x \in S : \A y \in S : <<y, x>> \notin R
  BY <1>2, WFMin, Zenon
<1>4. PICK x \in S : \A y \in S : <<y, x>> \notin R
  BY <1>3
<1>5. \A y \in S : x <= y
  <2> TAKE y \in S
  <2>1. x \in Nat /\ y \in Nat
    OBVIOUS
  <2>2. ~(y < x)
    BY <1>1, <1>4, <2>1, Zenon
  <2> QED
    BY <2>1, <2>2
<1> QED
  BY <1>5

\* Less is a strict total order of the tasks.
LEMMA LessOrders ==
  ASSUME TypeInv
  PROVE  /\ \A t \in Tasks : ~Less(t, t)
         /\ \A t, u \in Tasks : t = u \/ Less(t, u) \/ Less(u, t)
         /\ \A t, u \in Tasks : Less(t, u) => ~Less(u, t)
         /\ \A t, u, v \in Tasks : Less(t, u) /\ Less(u, v) => Less(t, v)
<1>1. \A t \in Tasks : rows[t].created \in Nat /\ t \in Nat
  BY Constants DEF TypeInv, Rows
<1> QED
  BY <1>1 DEF Less

\* The number of rows in front of a row.
Before(M, t) == {u \in M : Less(u, t)}

\* The tasks before one in the order of the list are fewer than all, and grow
\* along the order.
LEMMA BeforeCounts ==
  ASSUME TypeInv, NEW M \in SUBSET Tasks, NEW t \in M
  PROVE  /\ IsFiniteSet(M) /\ Cardinality(M) \in Nat
         /\ IsFiniteSet(Before(M, t)) /\ Cardinality(Before(M, t)) \in Nat
         /\ Cardinality(Before(M, t)) < Cardinality(M)
         /\ \A u \in M : Less(u, t) => Cardinality(Before(M, u)) < Cardinality(Before(M, t))
<1>1. IsFiniteSet(M)
  BY Constants, FS_Subset
<1>2. \A S \in SUBSET M : IsFiniteSet(S) /\ Cardinality(S) \in Nat
  BY <1>1, FS_Subset, FS_CardinalityType
<1>3. \A S, T \in SUBSET M : S \subseteq T /\ S # T => Cardinality(S) < Cardinality(T)
  <2> SUFFICES ASSUME NEW S \in SUBSET M, NEW T \in SUBSET M, S \subseteq T, S # T
               PROVE  Cardinality(S) < Cardinality(T)
    OBVIOUS
  <2>1. IsFiniteSet(T) /\ Cardinality(T) \in Nat /\ Cardinality(S) \in Nat
    BY <1>2
  <2>2. Cardinality(S) <= Cardinality(T) /\ Cardinality(T) # Cardinality(S)
    BY <2>1, FS_Subset
  <2> QED
    BY <2>1, <2>2
<1>4. Before(M, t) \in SUBSET M /\ t \notin Before(M, t)
  BY LessOrders DEF Before
<1>5. ASSUME NEW u \in M, Less(u, t)
      PROVE  Cardinality(Before(M, u)) < Cardinality(Before(M, t))
  <2>1. Before(M, u) \subseteq Before(M, t)
    BY <1>5, LessOrders DEF Before
  <2>2. u \in Before(M, t) /\ u \notin Before(M, u)
    BY <1>5, LessOrders DEF Before
  <2>3. Before(M, u) \in SUBSET M
    BY DEF Before
  <2> QED
    BY <1>3, <1>4, <2>1, <2>2, <2>3
<1> QED
  BY <1>1, <1>2, <1>3, <1>4, <1>5

\* Every set of tasks that is not empty has a first and, when its rows have a
\* bounded number of rows before them, a last one.
LEMMA FirstIsInPage ==
  ASSUME TypeInv, NEW M \in SUBSET Tasks, M # {}
  PROVE  Page(M) # {}
<1> DEFINE C == {Cardinality(Before(M, t)) : t \in M}
<1>1. C \in SUBSET Nat /\ C # {}
  BY BeforeCounts
<1>2. PICK c \in C : \A d \in C : c <= d
  BY <1>1, Smallest
<1>3. PICK t \in M : c = Cardinality(Before(M, t))
  BY <1>2
<1>4. Before(M, t) = {}
  <2> SUFFICES ASSUME NEW u \in Before(M, t)
               PROVE  FALSE
    OBVIOUS
  <2>1. u \in M /\ Less(u, t)
    BY DEF Before
  <2>2. Cardinality(Before(M, u)) < c /\ c \in Nat /\ Cardinality(Before(M, u)) \in Nat
    BY <1>3, <2>1, BeforeCounts
  <2>3. Cardinality(Before(M, u)) \in C
    BY <2>1
  <2> QED
    BY <1>2, <2>2, <2>3
<1>5. Cardinality(Before(M, t)) = 0 /\ Limit > 0
  BY <1>4, Constants, FS_EmptySet
<1> QED
  BY <1>5 DEF Page, Before

\* The last row of a page, on which the next page's cursor is set, is one of it
\* and comes after the others.
LEMMA PagesEnd ==
  ASSUME TypeInv, NEW M \in SUBSET Tasks, M # {}
  PROVE  /\ Last(M) \in Page(M)
         /\ \A u \in Page(M) : u = Last(M) \/ Less(u, Last(M))
<1>1. Page(M) = {t \in M : Cardinality(Before(M, t)) < Limit} /\ Limit \in Nat
  BY Constants DEF Page, Before
<1> DEFINE D == {Limit - Cardinality(Before(M, t)) : t \in Page(M)}
<1>2. \A t \in Page(M) : t \in M /\ Cardinality(Before(M, t)) \in Nat
                           /\ Limit - Cardinality(Before(M, t)) \in Nat
  <2> TAKE t \in Page(M)
  <2>1. t \in M /\ Cardinality(Before(M, t)) < Limit
    BY <1>1
  <2>2. Cardinality(Before(M, t)) \in Nat
    BY <2>1, BeforeCounts
  <2> QED
    BY <1>1, <2>1, <2>2
<1>3. D \in SUBSET Nat /\ D # {}
  BY <1>2, FirstIsInPage
<1>4. PICK d \in D : \A e \in D : d <= e
  BY <1>3, Smallest
<1>5. PICK t \in Page(M) : d = Limit - Cardinality(Before(M, t))
  BY <1>4
<1>6. \A u \in Page(M) \ {t} : ~Less(t, u)
  <2> SUFFICES ASSUME NEW u \in Page(M), Less(t, u)
               PROVE  FALSE
    OBVIOUS
  <2>1. Cardinality(Before(M, t)) < Cardinality(Before(M, u))
    BY <1>2, BeforeCounts
  <2>2. d <= Limit - Cardinality(Before(M, u))
    BY <1>4
  <2> QED
    BY <1>1, <1>2, <1>5, <2>1, <2>2
<1>7. \E x \in Page(M) : \A u \in Page(M) \ {x} : ~Less(x, u)
  BY <1>6
<1>8. Last(M) \in Page(M) /\ \A u \in Page(M) \ {Last(M)} : ~Less(Last(M), u)
  BY <1>7 DEF Last
<1> QED
  BY <1>2, <1>8, LessOrders

-----------------------------------------------------------------------------
(* Types.                                                                  *)

\* An operation that names a task names one of the table's.
LEMMA OpTyped ==
  ASSUME NEW o \in Ops
  PROVE  /\ o.kind \in {"create", "update", "delete"}
         /\ o.kind # "create" => o.task \in Tasks
         /\ o.kind = "update" => o.expect \in Nat /\ o.status \in {0, 1}
BY MemoryAssumption

\* Put keeps the types when the change and the row have theirs.
LEMMA PutTyped ==
  ASSUME TypeInv, NEW r \in Requests, NEW c \in Changes, NEW row \in Rows, Put(r, c, row)
  PROVE  TypeInv'
<1> USE DEF TypeInv, Put, Step, Reply
<1>1. rows' \in [Tasks -> Rows] /\ clock' \in Nat \ {0} /\ keys' \in [Keys -> Records]
  BY DEF Changes
<1>2. changes' \subseteq Changes /\ event' \in [Requests -> SUBSET Changes]
  OBVIOUS
<1>3. answer' \in [Requests -> [code : Codes, event : SUBSET Changes]]
  BY DEF Answer, Codes
<1>4. pc' \in [Requests -> Places]
  BY DEF Places
<1>5. walk' \in Walks
  BY DEF Walks
<1> QED
  BY <1>1, <1>2, <1>3, <1>4, <1>5

\* The three ways a task changes, as a change and a row.
LEMMA WritesPut ==
  ASSUME TypeInv, Stamped, NEW r \in Requests
  PROVE  /\ Create(r) =>
              \E c \in Changes, row \in Rows :
                /\ Put(r, c, row) /\ c = Change("created", stamp[r].id, 1)
                /\ row = [state |-> "stored", version |-> 1, created |-> stamp[r].at,
                          status |-> 0]
         /\ Update(r) =>
              \E c \in Changes, row \in Rows :
                /\ Put(r, c, row)
                /\ c = Change("updated", call[r].op.task, rows[call[r].op.task].version + 1)
                /\ row = [rows[call[r].op.task] EXCEPT
                            !.version = rows[call[r].op.task].version + 1,
                            !.status = call[r].op.status]
         /\ Delete(r) =>
              \E c \in Changes, row \in Rows :
                /\ Put(r, c, row)
                /\ c = Change("deleted", call[r].op.task, rows[call[r].op.task].version)
                /\ row = [rows[call[r].op.task] EXCEPT !.state = "deleted"]
<1> DEFINE o == call[r].op
<1>1. o \in Ops
  BY DEF TypeInv
<1>2. ASSUME Create(r)
      PROVE  /\ Change("created", stamp[r].id, 1) \in Changes
             /\ [state |-> "stored", version |-> 1, created |-> stamp[r].at, status |-> 0]
                  \in Rows
  BY <1>2 DEF Create, Stamped, TypeInv, Change, Changes, Kinds, Rows
<1>3. ASSUME Update(r)
      PROVE  /\ Change("updated", o.task, rows[o.task].version + 1) \in Changes
             /\ [rows[o.task] EXCEPT !.version = rows[o.task].version + 1,
                                     !.status = o.status] \in Rows
  <2>1. o.task \in Tasks /\ o.status \in {0, 1}
    BY <1>1, <1>3, OpTyped DEF Update
  <2>2. rows[o.task] \in Rows
    BY <2>1 DEF TypeInv
  <2> HIDE DEF o
  <2>3. Change("updated", o.task, rows[o.task].version + 1) \in Changes
    BY <2>1, <2>2 DEF Change, Changes, Kinds, Rows
  <2>4. ASSUME NEW x \in Rows, NEW v \in Nat, NEW st \in {0, 1}
        PROVE  [x EXCEPT !.version = v, !.status = st] \in Rows
    BY DEF Rows
  <2>5. rows[o.task].version + 1 \in Nat
    BY <2>2 DEF Rows
  <2> QED
    BY <2>1, <2>2, <2>3, <2>4, <2>5
<1>4. ASSUME Delete(r)
      PROVE  /\ Change("deleted", o.task, rows[o.task].version) \in Changes
             /\ [rows[o.task] EXCEPT !.state = "deleted"] \in Rows
  <2>1. o.task \in Tasks
    BY <1>1, <1>4, OpTyped DEF Delete
  <2>2. rows[o.task] \in Rows
    BY <2>1 DEF TypeInv
  <2> QED
    BY <2>1, <2>2 DEF Change, Changes, Kinds, Rows
<1>5. Create(r) => Put(r, Change("created", stamp[r].id, 1),
                       [state |-> "stored", version |-> 1, created |-> stamp[r].at,
                        status |-> 0])
  BY DEF Create
<1>6. Update(r) => Put(r, Change("updated", o.task, rows[o.task].version + 1),
                       [rows[o.task] EXCEPT !.version = rows[o.task].version + 1,
                                            !.status = o.status])
  BY DEF Update
<1>7. Delete(r) => Put(r, Change("deleted", o.task, rows[o.task].version),
                       [rows[o.task] EXCEPT !.state = "deleted"])
  BY DEF Delete
<1> QED
  BY <1>2, <1>3, <1>4, <1>5, <1>6, <1>7, Zenon

\* Every step keeps the types.
LEMMA TypeStep ==
  ASSUME TypeInv, Stamped, [Next]_vars
  PROVE  TypeInv'
<1>1. ASSUME NEW r \in Requests, Create(r) \/ Update(r) \/ Delete(r)
      PROVE  TypeInv'
  BY <1>1, WritesPut, PutTyped
<1>2. ASSUME NEW r \in Requests, Unkeyed(r)
      PROVE  TypeInv'
  BY <1>2 DEF TypeInv, Unkeyed, Step, Places
<1>3. ASSUME NEW r \in Requests, Reserve(r)
      PROVE  TypeInv'
  <2> DEFINE k == call[r].key
  <2>1. k \in Keys /\ call[r].op \in Ops /\ keys[k] \in Records
    BY <1>3 DEF TypeInv, Reserve, Keyed
  <2>2. Replay(r, keys[k]) \in [code : Codes, event : SUBSET Changes]
    BY <2>1 DEF Replay, Answer, Codes, Records
  <2>3. answer' \in [Requests -> [code : Codes, event : SUBSET Changes]]
    BY <1>3, <2>2 DEF TypeInv, Reserve
  <2>4. InProgress(Fingerprint(r)) \in Records
    BY <2>1 DEF InProgress, Fingerprint, Records
  <2>5. keys' \in [Keys -> Records]
    BY <1>3, <2>4 DEF TypeInv, Reserve
  <2>6. pc' \in [Requests -> Places]
    BY <1>3 DEF TypeInv, Reserve, Step, Places
  <2> QED
    BY <1>3, <2>3, <2>5, <2>6 DEF TypeInv, Reserve
<1>4. ASSUME NEW r \in Requests, Stamp(r)
      PROVE  TypeInv'
  <2>1. \A t \in Tasks : [stamp EXCEPT ![r] = [id |-> t, at |-> clock]]
                           \in [Requests -> [id : Nat, at : Nat]]
    BY Constants DEF TypeInv
  <2>2. stamp' \in [Requests -> [id : Nat, at : Nat]]
    <3>1. CASE call[r].op.kind = "create"
      <4>1. PICK t \in Tasks : stamp' = [stamp EXCEPT ![r] = [id |-> t, at |-> clock]]
        BY <1>4, <3>1 DEF Stamp
      <4> QED
        BY <2>1, <4>1
    <3>2. CASE call[r].op.kind # "create"
      BY <1>4, <3>2 DEF Stamp, TypeInv
    <3> QED
      BY <3>1, <3>2
  <2> QED
    BY <1>4, <2>2 DEF TypeInv, Stamp, Step, Places
<1>5. ASSUME NEW r \in Requests, Miss(r) \/ Fails(r)
      PROVE  TypeInv'
  <2>1. ASSUME NEW code \in Codes
        PROVE  [answer EXCEPT ![r] = Answer(code, {})]
                 \in [Requests -> [code : Codes, event : SUBSET Changes]]
    BY DEF TypeInv, Answer
  <2>2. /\ (IF rows[call[r].op.task].state = "stored" THEN "409" ELSE "404") \in Codes
        /\ "error" \in Codes
    BY DEF Codes
  <2>3. answer' \in [Requests -> [code : Codes, event : SUBSET Changes]]
    BY <1>5, <2>1, <2>2 DEF Miss, Fails, Reply
  <2> QED
    BY <1>5, <2>3 DEF TypeInv, Miss, Fails, Step, Places
<1>6. ASSUME NEW r \in Requests, Complete(r)
      PROVE  TypeInv'
  <2>1. event[r] \in SUBSET Changes
    BY DEF TypeInv
  <2>2. ASSUME NEW k \in Keys
        PROVE  [keys EXCEPT ![k].state = "completed", ![k].event = event[r]]
                 \in [Keys -> Records]
    <3>1. \A x \in Records : [x EXCEPT !.state = "completed", !.event = event[r]] \in Records
      BY <2>1 DEF Records
    <3>2. [keys EXCEPT ![k].state = "completed", ![k].event = event[r]]
            = [keys EXCEPT ![k] = [keys[k] EXCEPT !.state = "completed", !.event = event[r]]]
      BY DEF TypeInv
    <3> QED
      BY <3>1, <3>2 DEF TypeInv
  <2>3. keys' \in [Keys -> Records]
    BY <1>6, <2>2 DEF TypeInv, Complete, Keyed
  <2>4. pc' \in [Requests -> Places]
    BY <1>6 DEF TypeInv, Complete, Step, Places
  <2> QED
    BY <1>6, <2>3, <2>4 DEF TypeInv, Complete
<1>7. ASSUME NEW r \in Requests, Abandon(r)
      PROVE  TypeInv'
  <2>1. NoRecord \in Records
    BY DEF NoRecord, Records
  <2> QED
    BY <1>7, <2>1 DEF TypeInv, Abandon, Step, Places, Keyed
<1>8. ASSUME NEW k \in Keys, Expire(k)
      PROVE  TypeInv'
  <2>1. \A x \in Records : [x EXCEPT !.live = FALSE] \in Records
    BY DEF Records
  <2>2. keys' \in [Keys -> Records]
    BY <1>8, <2>1 DEF TypeInv, Expire
  <2> QED
    BY <1>8, <2>2 DEF TypeInv, Expire
<1>9. ASSUME NEW filter \in {0, 1, Everything}, StartWalk(filter)
      PROVE  TypeInv'
  BY <1>9 DEF TypeInv, StartWalk, Walks, NoWalk, Start, Selected
<1>10. ASSUME List
       PROVE  TypeInv'
  <2> DEFINE M == {t \in Selected(rows, walk.filter) : After(walk.cursor, t)}
             cur == IF Cardinality(M) <= Limit THEN Start ELSE CursorOf(Last(M))
  <2>1. M \subseteq Tasks /\ Page(M) \subseteq M
    BY DEF Selected, Page
  <2>2. walk.pc = "walking" /\ walk \in Walks
    BY <1>10 DEF List, TypeInv
  <2>3. walk' = [walk EXCEPT !.got = walk.got \cup Page(M),
                             !.twice = walk.twice \/ Page(M) \cap walk.got # {},
                             !.pc = IF Cardinality(M) <= Limit THEN "done" ELSE walk.pc,
                             !.cursor = cur]
    BY <1>10, <2>2 DEF List, Walks
  <2>4. cur \in [created : Nat, id : Nat]
    <3>1. CASE Cardinality(M) <= Limit
      BY <3>1 DEF Start
    <3>2. CASE ~(Cardinality(M) <= Limit)
      <4>1. M # {}
        BY <3>2, Constants, FS_EmptySet
      <4>2. Last(M) \in Tasks
        BY <2>1, <4>1, PagesEnd
      <4> QED
        BY <3>2, <4>2, Constants DEF TypeInv, CursorOf, Rows
    <3> QED
      BY <3>1, <3>2
  <2> HIDE DEF M, cur
  <2>5. walk' \in Walks
    BY <2>1, <2>2, <2>3, <2>4 DEF Walks
  <2> QED
    BY <1>10, <2>5 DEF TypeInv, List
<1>11. ASSUME Purge
       PROVE  TypeInv'
  <2>1. Unexpired \in [Keys -> Records]
    BY DEF TypeInv, Unexpired, NoRecord, Records
  <2> QED
    BY <1>11, <2>1 DEF TypeInv, Purge
<1>12. CASE Tick
  BY <1>12 DEF TypeInv, Tick
<1>13. CASE UNCHANGED vars
  BY <1>13 DEF TypeInv, vars
<1> QED
  BY <1>1, <1>2, <1>3, <1>4, <1>5, <1>6, <1>7, <1>8, <1>9, <1>10, <1>11, <1>12, <1>13
  DEF Next

-----------------------------------------------------------------------------
(* What a step does to the table.                                          *)

Writing(r) == Create(r) \/ Update(r) \/ Delete(r)

\* The change c turns the row old into the row new.
Turns(c, old, new) ==
  \/ /\ c.kind = "created" /\ c.version = 1
     /\ old.state = "unused" /\ new.state = "stored" /\ new.version = 1 /\ new.created >= 1
  \/ /\ c.kind = "updated" /\ c.version = old.version + 1
     /\ old.state = "stored" /\ new.state = "stored" /\ new.version = old.version + 1
     /\ new.created = old.created
  \/ /\ c.kind = "deleted" /\ c.version = old.version
     /\ old.state = "stored" /\ new.state = "deleted" /\ new.version = old.version
     /\ new.created = old.created

\* A write is a change that fits the row, and one that the request asks for.
LEMMA WriteTurns ==
  ASSUME TypeInv, Stamped, NEW r \in Requests, Writing(r)
  PROVE  \E c \in Changes, row \in Rows :
           /\ Put(r, c, row) /\ Turns(c, rows[c.task], row) /\ Does(call[r].op, c)
           /\ pc[r] = "apply"
           /\ c.kind = "created" => call[r].op.kind = "create" /\ c.task = stamp[r].id
<1> DEFINE o == call[r].op
<1>1. o \in Ops
  BY DEF TypeInv
<1>2. CASE Create(r)
  <2>1. PICK c \in Changes, row \in Rows :
           /\ Put(r, c, row) /\ c = Change("created", stamp[r].id, 1)
           /\ row = [state |-> "stored", version |-> 1, created |-> stamp[r].at, status |-> 0]
    BY <1>2, WritesPut
  <2>2. pc[r] = "apply" /\ o.kind = "create"
    BY <1>2 DEF Create
  <2>3. rows[stamp[r].id].state = "unused" /\ stamp[r].at >= 1
    BY <2>2 DEF Stamped
  <2>4. Turns(c, rows[c.task], row) /\ Does(o, c) /\ c.task = stamp[r].id
    BY <2>1, <2>2, <2>3 DEF Turns, Does, Change
  <2> QED
    BY <2>1, <2>2, <2>4
<1>3. CASE Update(r)
  <2>1. PICK c \in Changes, row \in Rows :
           /\ Put(r, c, row)
           /\ c = Change("updated", o.task, rows[o.task].version + 1)
           /\ row = [rows[o.task] EXCEPT !.version = rows[o.task].version + 1,
                                         !.status = o.status]
    BY <1>3, WritesPut
  <2>2. pc[r] = "apply" /\ o.kind = "update" /\ Matches(o)
    BY <1>3 DEF Update
  <2>3. o.task \in Tasks /\ rows[o.task] \in Rows
    BY <1>1, <2>2, OpTyped DEF TypeInv
  <2>4. rows[o.task].state = "stored" /\ o.expect \in {0, rows[o.task].version}
    BY <2>2 DEF Matches
  <2>5. rows[o.task].version \in Nat
    BY <2>3 DEF Rows
  <2>6. /\ row.state = rows[o.task].state /\ row.version = rows[o.task].version + 1
        /\ row.created = rows[o.task].created
    BY <2>1, <2>3 DEF Rows
  <2>7. c.kind = "updated" /\ c.task = o.task /\ c.version = rows[o.task].version + 1
    BY <2>1 DEF Change
  <2>8. Turns(c, rows[c.task], row)
    BY <2>4, <2>6, <2>7 DEF Turns
  <2>9. Does(o, c)
    BY <2>2, <2>4, <2>5, <2>7 DEF Does
  <2> QED
    BY <2>1, <2>2, <2>7, <2>8, <2>9
<1>4. CASE Delete(r)
  <2>1. PICK c \in Changes, row \in Rows :
           /\ Put(r, c, row)
           /\ c = Change("deleted", o.task, rows[o.task].version)
           /\ row = [rows[o.task] EXCEPT !.state = "deleted"]
    BY <1>4, WritesPut
  <2>2. pc[r] = "apply" /\ o.kind = "delete" /\ Matches(o)
    BY <1>4 DEF Delete
  <2>3. o.task \in Tasks /\ rows[o.task] \in Rows
    BY <1>1, <2>2, OpTyped DEF TypeInv
  <2>4. rows[o.task].state = "stored"
    BY <2>2 DEF Matches
  <2>6. /\ row.state = "deleted" /\ row.version = rows[o.task].version
        /\ row.created = rows[o.task].created
    BY <2>1, <2>3 DEF Rows
  <2>7. c.kind = "deleted" /\ c.task = o.task /\ c.version = rows[o.task].version
    BY <2>1 DEF Change
  <2>8. Turns(c, rows[c.task], row) /\ Does(o, c)
    BY <2>2, <2>4, <2>6, <2>7 DEF Turns, Does
  <2> QED
    BY <2>1, <2>2, <2>7, <2>8
<1> QED
  BY <1>2, <1>3, <1>4 DEF Writing

\* Every other step leaves tasks and changes alone, and only Stamp brings a
\* request to where it writes.
LEMMA OtherSteps ==
  ASSUME [Next]_vars, ~\E r \in Requests : Writing(r)
  PROVE  UNCHANGED <<rows, changes, event, call>>
BY DEF Next, vars, Writing, Unkeyed, Reserve, Stamp, Miss, Fails, Complete, Abandon, Expire,
       StartWalk, List, Purge, Tick

\* What Put does, row by row.
PutEffect(r, c, row) ==
  /\ c.task \in Tasks /\ rows'[c.task] = row
  /\ \A t \in Tasks \ {c.task} : rows'[t] = rows[t]
  /\ changes' = changes \cup {c}
  /\ event'[r] = {c} /\ answer'[r] = Answer("2xx", {c}) /\ pc'[r] = "complete"
  /\ \A q \in Requests \ {r} : event'[q] = event[q] /\ answer'[q] = answer[q] /\ pc'[q] = pc[q]
  /\ clock' = clock /\ keys' = keys /\ call' = call /\ stamp' = stamp

\* A write under the mutex changes one row and records its change.
LEMMA PutRows ==
  ASSUME TypeInv, NEW r \in Requests, NEW c \in Changes, NEW row \in Rows, Put(r, c, row)
  PROVE  PutEffect(r, c, row)
BY DEF TypeInv, Put, Reply, Step, Changes, PutEffect

\* A create that has drawn its id and time keeps them until it has the lock.
LEMMA StampedStep ==
  ASSUME TypeInv, Stamped, [Next]_vars
  PROVE  Stamped'
<1>1. ASSUME NEW r \in Requests, Writing(r)
      PROVE  Stamped'
  <2>1. PICK c \in Changes, row \in Rows :
           /\ Put(r, c, row) /\ Turns(c, rows[c.task], row)
           /\ c.kind = "created" => call[r].op.kind = "create" /\ c.task = stamp[r].id
           /\ pc[r] = "apply"
    BY <1>1, WriteTurns
  <2> SUFFICES ASSUME NEW q \in Requests, pc'[q] = "apply", call'[q].op.kind = "create"
               PROVE  /\ stamp'[q].id \in Tasks /\ rows'[stamp'[q].id].state = "unused"
                      /\ stamp'[q].at >= 1
                      /\ \A p \in Requests \ {q} : stamp'[p].id # stamp'[q].id
    BY DEF Stamped
  <2>2. q # r /\ pc[q] = "apply" /\ call[q].op.kind = "create" /\ stamp' = stamp
    BY <2>1, PutRows DEF PutEffect
  <2>3. /\ stamp[q].id \in Tasks /\ rows[stamp[q].id].state = "unused" /\ stamp[q].at >= 1
        /\ \A p \in Requests \ {q} : stamp[p].id # stamp[q].id
    BY <2>2 DEF Stamped
  <2>4. stamp[q].id # c.task
    BY <2>1, <2>2, <2>3 DEF Turns
  <2>5. \A t \in Tasks \ {c.task} : rows'[t] = rows[t]
    BY <2>1, PutRows DEF PutEffect
  <2>6. rows'[stamp[q].id] = rows[stamp[q].id]
    BY <2>3, <2>4, <2>5
  <2> QED
    BY <2>2, <2>3, <2>6
<1>2. ASSUME NEW r \in Requests, Stamp(r)
      PROVE  Stamped'
  <2> SUFFICES ASSUME NEW q \in Requests, pc'[q] = "apply", call'[q].op.kind = "create"
               PROVE  /\ stamp'[q].id \in Tasks /\ rows'[stamp'[q].id].state = "unused"
                      /\ stamp'[q].at >= 1
                      /\ \A p \in Requests \ {q} : stamp'[p].id # stamp'[q].id
    BY DEF Stamped
  <2>1. rows' = rows /\ call' = call /\ \A p \in Requests \ {r} : pc'[p] = pc[p]
    BY <1>2 DEF Stamp, Step, TypeInv
  <2>2. CASE call[r].op.kind = "create"
    <3>1. PICK t \in Tasks :
             /\ rows[t].state = "unused" /\ \A p \in Requests : stamp[p].id # t
             /\ stamp' = [stamp EXCEPT ![r] = [id |-> t, at |-> clock]]
      BY <1>2, <2>2 DEF Stamp
    <3>2. /\ stamp'[r].id = t /\ stamp'[r].at = clock
          /\ \A p \in Requests \ {r} : stamp'[p] = stamp[p]
      BY <3>1 DEF TypeInv
    <3>3. CASE q = r
      BY <2>1, <3>1, <3>2, <3>3 DEF TypeInv
    <3>4. CASE q # r
      <4>1. /\ stamp[q].id \in Tasks /\ rows[stamp[q].id].state = "unused" /\ stamp[q].at >= 1
            /\ \A p \in Requests \ {q} : stamp[p].id # stamp[q].id
        BY <2>1, <3>4 DEF Stamped
      <4> QED
        BY <2>1, <3>1, <3>2, <3>4, <4>1
    <3> QED
      BY <3>3, <3>4
  <2>3. CASE call[r].op.kind # "create"
    <3>1. stamp' = stamp /\ q # r
      BY <1>2, <2>1, <2>3 DEF Stamp
    <3> QED
      BY <2>1, <3>1 DEF Stamped
  <2> QED
    BY <2>2, <2>3
<1>3. ASSUME ~\E r \in Requests : Writing(r) \/ Stamp(r)
      PROVE  Stamped'
  <2>1. UNCHANGED <<rows, call, stamp>>
    BY <1>3 DEF Next, vars, Writing, Unkeyed, Reserve, Miss, Fails, Complete, Abandon, Expire,
                StartWalk, List, Purge, Tick
  <2>2. \A q \in Requests : pc'[q] = "apply" => pc[q] = "apply"
    BY <1>3 DEF Next, vars, Writing, Unkeyed, Reserve, Miss, Fails, Complete, Abandon, Expire,
                StartWalk, List, Purge, Tick, TypeInv, Step
  <2> QED
    BY <2>1, <2>2 DEF Stamped
<1> QED
  BY <1>1, <1>2, <1>3

\* Dates and changes.
LEMMA PastStep ==
  ASSUME TypeInv, Stamped, Dated, AllPast, [Next]_vars
  PROVE  Dated' /\ AllPast'
<1>1. ASSUME NEW r \in Requests, Writing(r)
      PROVE  Dated' /\ AllPast'
  <2>1. PICK c \in Changes, row \in Rows : Put(r, c, row) /\ Turns(c, rows[c.task], row)
    BY <1>1, WriteTurns
  <2>2. /\ c.task \in Tasks /\ rows'[c.task] = row
        /\ \A t \in Tasks \ {c.task} : rows'[t] = rows[t]
        /\ changes' = changes \cup {c}
    <3>1. PutEffect(r, c, row)
      BY <2>1, PutRows
    <3> QED
      BY <3>1 DEF PutEffect
  <2>3. Dated'
    BY <2>1, <2>2 DEF Dated, Turns
  <2>4. ASSUME NEW e \in changes'
        PROVE  Past(e)'
    <3>1. /\ rows[c.task].version \in Nat /\ row.version \in Nat /\ c.version \in Nat
          /\ e \in Changes /\ e.task \in Tasks /\ e.version \in Nat
      BY <2>2 DEF TypeInv, Rows, Changes
    <3>2. CASE e = c
      BY <2>1, <2>2, <3>1, <3>2 DEF Turns, Past
    <3>3. CASE e # c
      <4>1. Past(e)
        BY <2>2, <3>3 DEF AllPast
      <4>2. CASE e.task = c.task
        BY <2>1, <2>2, <3>1, <4>1, <4>2 DEF Turns, Past
      <4>3. CASE e.task # c.task
        BY <2>2, <3>1, <4>1, <4>3 DEF Past
      <4> QED
        BY <4>2, <4>3
    <3> QED
      BY <3>2, <3>3
  <2> QED
    BY <2>3, <2>4 DEF AllPast
<1>2. ASSUME ~\E r \in Requests : Writing(r)
      PROVE  Dated' /\ AllPast'
  BY <1>2, OtherSteps DEF Dated, AllPast, Past
<1> QED
  BY <1>1, <1>2

-----------------------------------------------------------------------------
(* Walks.                                                                  *)

\* Behind the cursor that names a task is what the list orders after it.
LEMMA AfterIsLess ==
  ASSUME TypeInv, Dated, NEW l \in Tasks, NEW u \in Tasks, rows[l].state # "unused"
  PROVE  After(CursorOf(l), u) <=> Less(l, u)
<1>1. /\ rows[l].created \in Nat /\ rows[u].created \in Nat /\ rows[l].created >= 1
      /\ l \in Nat /\ u \in Nat
  BY Constants DEF TypeInv, Rows, Dated
<1>2. CursorOf(l).created = rows[l].created /\ CursorOf(l).id = l /\ CursorOf(l) # Start
  BY <1>1 DEF CursorOf, Start
<1> QED
  BY <1>1, <1>2 DEF After, Less

\* A page that is cut short leaves behind its cursor what it did not return, and
\* nothing else; what came before the page stays before.
LEMMA CutPage ==
  ASSUME TypeInv, Dated, NEW M \in SUBSET Tasks, Cardinality(M) > Limit,
         \A t \in M : rows[t].state # "unused"
  PROVE  /\ Last(M) \in M
         /\ \A u \in Page(M) : ~After(CursorOf(Last(M)), u)
         /\ \A u \in M \ Page(M) : After(CursorOf(Last(M)), u)
         /\ \A c \in [created : Nat, id : Nat], g \in Tasks :
              After(c, Last(M)) /\ ~After(c, g) => ~After(CursorOf(Last(M)), g)
<1> DEFINE l == Last(M)
<1>1. M # {}
  BY Constants, FS_EmptySet
<1>2. l \in Page(M) /\ \A u \in Page(M) : u = l \/ Less(u, l)
  BY <1>1, PagesEnd
<1>3. Page(M) = {t \in M : Cardinality(Before(M, t)) < Limit} /\ Limit \in Nat
  BY Constants DEF Page, Before
<1>4. l \in M /\ l \in Tasks /\ rows[l].state # "unused"
  BY <1>2, <1>3
<1> HIDE DEF l
<1>5. \A u \in Tasks : After(CursorOf(l), u) <=> Less(l, u)
  BY <1>4, AfterIsLess
<1>6. \A u \in Page(M) : ~After(CursorOf(l), u)
  BY <1>2, <1>3, <1>4, <1>5, LessOrders
<1>7. ASSUME NEW u \in M \ Page(M)
      PROVE  After(CursorOf(l), u)
  <2>1. Cardinality(Before(M, l)) < Limit /\ ~(Cardinality(Before(M, u)) < Limit)
    BY <1>2, <1>3
  <2>2. Cardinality(Before(M, l)) \in Nat /\ Cardinality(Before(M, u)) \in Nat
    BY <1>4, BeforeCounts
  <2>3. ~Less(u, l)
    <3>1. Less(u, l) => Cardinality(Before(M, u)) < Cardinality(Before(M, l))
      BY <1>4, BeforeCounts
    <3> QED
      BY <1>3, <2>1, <2>2, <3>1
  <2>4. u # l
    BY <1>2
  <2> QED
    BY <1>4, <1>5, <2>3, <2>4, LessOrders
<1>8. ASSUME NEW c \in [created : Nat, id : Nat], NEW g \in Tasks, After(c, l), ~After(c, g)
      PROVE  ~After(CursorOf(l), g)
  <2>1. /\ rows[l].created \in Nat /\ rows[g].created \in Nat /\ l \in Nat /\ g \in Nat
        /\ c.created \in Nat /\ c.id \in Nat
    BY <1>4, Constants DEF TypeInv, Rows
  <2>2. ~Less(l, g)
    BY <1>8, <2>1 DEF After, Less
  <2> QED
    BY <1>5, <2>2
<1> QED
  BY <1>4, <1>6, <1>7, <1>8 DEF l

\* The last page returns everything that is left.
LEMMA LastPage ==
  ASSUME TypeInv, NEW M \in SUBSET Tasks, Cardinality(M) <= Limit
  PROVE  Page(M) = M
<1>1. \A t \in M : Cardinality(Before(M, t)) < Limit
  <2> TAKE t \in M
  <2>1. /\ Cardinality(Before(M, t)) \in Nat /\ Cardinality(M) \in Nat
        /\ Cardinality(Before(M, t)) < Cardinality(M)
    BY BeforeCounts
  <2> QED
    BY <2>1, Constants
<1> QED
  BY <1>1 DEF Page, Before

\* Whatever is written between two pages, the cursor separates what was got
\* from what is to come.
LEMMA WalkedStep ==
  ASSUME TypeInv, Stamped, Dated, Walked, [Next]_vars
  PROVE  Walked'
<1>0. walk \in Walks /\ walk.got \subseteq Tasks /\ walk.stayed \subseteq Tasks
  BY DEF TypeInv, Walks
<1>1. ASSUME NEW r \in Requests, Writing(r)
      PROVE  Walked'
  <2>1. PICK c \in Changes, row \in Rows : Put(r, c, row) /\ Turns(c, rows[c.task], row)
    BY <1>1, WriteTurns
  <2>2. PutEffect(r, c, row)
    BY <2>1, PutRows
  <2>3. \A t \in Tasks : rows[t].state # "unused" =>
          rows'[t].state # "unused" /\ rows'[t].created = rows[t].created
    BY <2>1, <2>2 DEF Turns, PutEffect
  <2>4. walk' = [walk EXCEPT !.stayed = walk.stayed \cap Selected(rows', walk.filter)]
    BY <1>0, <2>1 DEF Put, Walks
  <2>5. /\ walk'.pc = walk.pc /\ walk'.filter = walk.filter /\ walk'.cursor = walk.cursor
        /\ walk'.got = walk.got /\ walk'.twice = walk.twice
        /\ walk'.stayed = walk.stayed \cap Selected(rows', walk.filter)
    BY <1>0, <2>4 DEF Walks
  <2>6. walk.pc = "walking" => \A t \in walk.stayed : rows[t].state # "unused"
    BY DEF Walked, Selected
  <2>7. \A t \in Tasks : rows[t].state # "unused" =>
          (After(walk.cursor, t)' <=> After(walk.cursor, t))
    BY <2>3, <2>5 DEF After
  <2>8. \A t \in walk.got : t \in Tasks /\ rows[t].state # "unused"
    BY <1>0 DEF Walked
  <2>9. \A t \in walk'.got : rows'[t].state # "unused"
    BY <2>3, <2>5, <2>8
  <2>10. walk'.pc = "walking" =>
           /\ walk'.stayed \subseteq Selected(rows', walk'.filter)
           /\ \A t \in walk'.got : ~After(walk.cursor, t)'
           /\ \A t \in walk'.stayed \ walk'.got : After(walk.cursor, t)'
    BY <1>0, <2>5, <2>6, <2>7, <2>8 DEF Walked
  <2>11. walk'.pc = "done" => walk'.stayed \subseteq walk'.got
    BY <2>5 DEF Walked
  <2>12. ~walk'.twice
    BY <2>5 DEF Walked
  <2> QED
    BY <2>9, <2>10, <2>11, <2>12 DEF Walked
<1>2. ASSUME NEW filter \in {0, 1, Everything}, StartWalk(filter)
      PROVE  Walked'
  <2>1. /\ walk'.pc = "walking" /\ walk'.filter = filter /\ walk'.cursor = Start
        /\ walk'.got = {} /\ walk'.twice = FALSE /\ walk'.stayed = Selected(rows, filter)
    BY <1>2 DEF StartWalk, NoWalk
  <2>2. rows' = rows
    BY <1>2 DEF StartWalk
  <2> QED
    BY <2>1, <2>2 DEF Walked, After
<1>3. ASSUME List
      PROVE  Walked'
  <2> DEFINE M == {t \in Selected(rows, walk.filter) : After(walk.cursor, t)}
             short == Cardinality(M) <= Limit
  <2>1. /\ M \in SUBSET Tasks /\ Page(M) \subseteq M
        /\ \A t \in M : rows[t].state # "unused" /\ After(walk.cursor, t)
    BY DEF Selected, Page
  <2>2. walk.pc = "walking" /\ rows' = rows
    BY <1>3 DEF List
  <2>3. walk' = [walk EXCEPT !.got = walk.got \cup Page(M),
                             !.twice = walk.twice \/ Page(M) \cap walk.got # {},
                             !.pc = IF short THEN "done" ELSE walk.pc,
                             !.cursor = IF short THEN Start ELSE CursorOf(Last(M))]
    BY <1>0, <1>3 DEF List, Walks
  <2>4. \A t \in walk.stayed \ walk.got : t \in M
    BY <2>2 DEF Walked
  <2>5. Page(M) \cap walk.got = {}
    BY <2>1, <2>2 DEF Walked
  <2>6. \A t \in walk.got : t \in Tasks /\ rows[t].state # "unused" /\ ~After(walk.cursor, t)
    BY <1>0, <2>2 DEF Walked
  <2>7. walk.stayed \subseteq Selected(rows, walk.filter) /\ ~walk.twice
    BY <2>2 DEF Walked
  <2> HIDE DEF M
  <2>8. /\ walk'.got = walk.got \cup Page(M)
        /\ walk'.twice = (walk.twice \/ Page(M) \cap walk.got # {})
        /\ walk'.pc = (IF short THEN "done" ELSE walk.pc)
        /\ walk'.cursor = (IF short THEN Start ELSE CursorOf(Last(M)))
        /\ walk'.filter = walk.filter /\ walk'.stayed = walk.stayed
    BY <1>0, <2>3 DEF Walks
  <2>9. ~walk'.twice
    BY <2>5, <2>7, <2>8
  <2>10. \A t \in walk'.got : rows'[t].state # "unused"
    BY <2>1, <2>2, <2>6, <2>8
  <2>11. CASE short
    <3>1. Page(M) = M
      BY <2>1, <2>11, LastPage
    <3>2. walk'.pc = "done" /\ walk'.stayed \subseteq walk'.got
      BY <2>4, <2>8, <2>11, <3>1
    <3> QED
      BY <2>9, <2>10, <3>2 DEF Walked
  <2>12. CASE ~short
    <3>1. Cardinality(M) > Limit
      <4>1. IsFiniteSet(M)
        BY <2>1, Constants, FS_Subset
      <4>2. Cardinality(M) \in Nat
        BY <4>1, FS_CardinalityType
      <4> QED
        BY <2>12, <4>2, Constants
    <3>2. /\ Last(M) \in M
          /\ \A u \in Page(M) : ~After(CursorOf(Last(M)), u)
          /\ \A u \in M \ Page(M) : After(CursorOf(Last(M)), u)
          /\ \A c \in [created : Nat, id : Nat], g \in Tasks :
               After(c, Last(M)) /\ ~After(c, g) => ~After(CursorOf(Last(M)), g)
      BY <2>1, <3>1, CutPage
    <3>3. walk.cursor \in [created : Nat, id : Nat]
      BY <1>0 DEF Walks
    <3>4. \A g \in walk.got : ~After(CursorOf(Last(M)), g)
      BY <2>1, <2>6, <3>2, <3>3
    <3>5. walk'.pc = "walking" /\ walk'.cursor = CursorOf(Last(M))
      BY <2>2, <2>8, <2>12
    <3>6. \A t \in walk'.got : ~After(CursorOf(Last(M)), t)
      BY <2>8, <3>2, <3>4
    <3>7. \A t \in walk'.stayed \ walk'.got : After(CursorOf(Last(M)), t)
      BY <2>4, <2>8, <3>2
    <3>8. \A t : After(walk.cursor, t)' <=> After(CursorOf(Last(M)), t)
      BY <2>2, <3>5 DEF After
    <3>9. walk'.stayed \subseteq Selected(rows', walk'.filter)
      BY <2>2, <2>7, <2>8
    <3> QED
      BY <2>9, <2>10, <3>5, <3>6, <3>7, <3>8, <3>9 DEF Walked
  <2> QED
    BY <2>11, <2>12
<1>4. ASSUME ~\E r \in Requests : Writing(r),
             ~\E filter \in {0, 1, Everything} : StartWalk(filter), ~List
      PROVE  Walked'
  <2>1. rows' = rows /\ walk' = walk
    BY <1>4 DEF Next, vars, Writing, Unkeyed, Reserve, Stamp, Miss, Fails, Complete, Abandon,
                Expire, Purge, Tick
  <2> QED
    BY <2>1 DEF Walked, After
<1> QED
  BY <1>1, <1>2, <1>3, <1>4

-----------------------------------------------------------------------------
(* Keys.                                                                   *)

\* A request keeps its key until it completes or abandons it.
LEMMA HoldersStay ==
  ASSUME TypeInv, [Next]_vars, NEW q \in Requests, Holds(q), ~Complete(q), ~Abandon(q)
  PROVE  Holds(q)'
<1>1. call' = call
  BY DEF Next, vars, Unkeyed, Reserve, Stamp, Create, Update, Delete, Put, Miss, Fails,
         Complete, Abandon, Expire, StartWalk, List, Purge, Tick
<1>2. pc'[q] \in {"stamp", "apply", "complete", "abandon"}
  BY DEF Next, vars, Unkeyed, Reserve, Stamp, Create, Update, Delete, Put, Miss, Fails,
         Complete, Abandon, Expire, StartWalk, List, Purge, Tick, TypeInv, Step, Holds
<1> QED
  BY <1>1, <1>2 DEF Holds, Keyed

\* A record is in progress after a step only if it was before, or has just been
\* reserved; and not if its holder has just let it go.
LEMMA OwnerStep ==
  ASSUME TypeInv, KeyHasOwner, [Next]_vars
  PROVE  KeyHasOwner'
<1> SUFFICES ASSUME NEW k \in Keys, keys'[k].state = "in_progress"
             PROVE  \E q \in Requests : Holds(q)' /\ call'[q].key = k
  BY DEF KeyHasOwner
<1>1. call' = call
  BY DEF Next, vars, Unkeyed, Reserve, Stamp, Create, Update, Delete, Put, Miss, Fails,
         Complete, Abandon, Expire, StartWalk, List, Purge, Tick
<1>2. keys \in [Keys -> Records] /\ keys[k] \in Records
  BY DEF TypeInv
<1>3. ASSUME keys[k].state = "in_progress",
             \A q \in Requests : call[q].key = k => ~Complete(q) /\ ~Abandon(q)
      PROVE  \E q \in Requests : Holds(q)' /\ call'[q].key = k
  BY <1>1, <1>3, HoldersStay DEF KeyHasOwner
<1>4. ASSUME NEW r \in Requests, Reserve(r), keys' # keys
      PROVE  \E q \in Requests : Holds(q)' /\ call'[q].key = k
  <2>1. /\ keys' = [keys EXCEPT ![call[r].key] = InProgress(Fingerprint(r))]
        /\ pc' = [pc EXCEPT ![r] = "stamp"] /\ Keyed(r)
        /\ pc[r] = "new"
    BY <1>4 DEF Reserve, Step
  <2>2. CASE call[r].key = k
    <3>1. pc'[r] = "stamp"
      BY <2>1 DEF TypeInv
    <3> QED
      BY <1>1, <2>1, <2>2, <3>1 DEF Holds, Keyed
  <2>3. CASE call[r].key # k
    <3>1. keys[k].state = "in_progress"
      BY <1>2, <2>1, <2>3
    <3>2. \A q \in Requests : ~Complete(q) /\ ~Abandon(q)
      <4> SUFFICES ASSUME NEW q \in Requests, Complete(q) \/ Abandon(q)
                   PROVE  FALSE
        OBVIOUS
      <4>1. pc' = [pc EXCEPT ![q] = "done"] /\ pc[q] \in {"complete", "abandon"}
        BY DEF Complete, Abandon, Step
      <4> QED
        BY <2>1, <4>1 DEF TypeInv
    <3> QED
      BY <1>3, <3>1, <3>2
  <2> QED
    BY <2>2, <2>3
<1>5. ASSUME NEW r \in Requests, Complete(r) \/ Abandon(r)
      PROVE  \E q \in Requests : Holds(q)' /\ call'[q].key = k
  <2>1. pc' = [pc EXCEPT ![r] = "done"] /\ pc[r] \in {"complete", "abandon"}
    BY <1>5 DEF Complete, Abandon, Step
  <2>2. call[r].key # k /\ keys[k].state = "in_progress"
    <3>1. CASE Complete(r)
      <4>1. CASE Keyed(r) /\ keys[call[r].key].state # "absent"
        <5>1. keys' = [keys EXCEPT ![call[r].key].state = "completed",
                                   ![call[r].key].event = event[r]]
          BY <3>1, <4>1 DEF Complete
        <5>2. call[r].key = k => keys'[k].state = "completed"
          BY <1>2, <5>1 DEF Records
        <5>3. call[r].key # k => keys'[k] = keys[k]
          BY <1>2, <5>1
        <5> QED
          BY <5>2, <5>3
      <4>2. CASE ~(Keyed(r) /\ keys[call[r].key].state # "absent")
        <5>1. keys' = keys
          BY <3>1, <4>2 DEF Complete
        <5> QED
          BY <4>2, <5>1, Constants DEF Keyed
      <4> QED
        BY <4>1, <4>2
    <3>2. CASE Abandon(r)
      <4>1. CASE Keyed(r)
        <5>1. keys' = [keys EXCEPT ![call[r].key] = NoRecord]
          BY <3>2, <4>1 DEF Abandon
        <5> QED
          BY <1>2, <5>1 DEF NoRecord
      <4>2. CASE ~Keyed(r)
        <5>1. keys' = keys
          BY <3>2, <4>2 DEF Abandon
        <5> QED
          BY <4>2, <5>1, Constants DEF Keyed
      <4> QED
        BY <4>1, <4>2
    <3> QED
      BY <1>5, <3>1, <3>2
  <2>3. \A q \in Requests : call[q].key = k => ~Complete(q) /\ ~Abandon(q)
    <3> SUFFICES ASSUME NEW q \in Requests, call[q].key = k, Complete(q) \/ Abandon(q)
                 PROVE  FALSE
      OBVIOUS
    <3>1. pc' = [pc EXCEPT ![q] = "done"] /\ pc[q] \in {"complete", "abandon"}
      BY DEF Complete, Abandon, Step
    <3> QED
      BY <2>1, <2>2, <3>1 DEF TypeInv
  <2> QED
    BY <1>3, <2>2, <2>3
<1>6. ASSUME \A q \in Requests : ~Complete(q) /\ ~Abandon(q),
             \A q \in Requests : Reserve(q) => keys' = keys
      PROVE  \E q \in Requests : Holds(q)' /\ call'[q].key = k
  <2>1. ASSUME NEW j \in Keys, Expire(j)
        PROVE  keys[k].state = "in_progress"
    BY <1>2, <2>1 DEF Expire, Records
  <2>2. ASSUME Purge
        PROVE  keys[k].state = "in_progress"
    BY <1>2, <2>2 DEF Purge, Unexpired, NoRecord
  <2>3. ASSUME ~\E j \in Keys : Expire(j), ~Purge
        PROVE  keys' = keys
    BY <1>6, <2>3 DEF Next, vars, Unkeyed, Stamp, Create, Update, Delete, Put, Miss, Fails,
         StartWalk, List, Tick
  <2>4. keys[k].state = "in_progress"
    BY <2>1, <2>2, <2>3
  <2> QED
    BY <1>3, <1>6, <2>4
<1> QED
  BY <1>4, <1>5, <1>6

-----------------------------------------------------------------------------
(* The invariant, for any timing.                                          *)

\* It holds when the server starts.
LEMMA InitInv == Init => Inv
<1> SUFFICES ASSUME Init
             PROVE  Inv
  OBVIOUS
<1>1. TypeInv
  BY DEF Init, TypeInv, NoRow, NoRecord, NoWalk, Start, Rows, Records, Walks, Places, Codes,
         Answer
<1>2. Stamped /\ Dated /\ AllPast /\ Walked /\ KeyHasOwner
  BY DEF Init, Stamped, Dated, AllPast, Walked, KeyHasOwner, NoRow, NoRecord, NoWalk
<1> QED
  BY <1>1, <1>2 DEF Inv

\* Every step keeps it.
LEMMA InvStep ==
  ASSUME Inv, [Next]_vars
  PROVE  Inv'
BY TypeStep, StampedStep, PastStep, WalkedStep, OwnerStep DEF Inv

\* So it holds in every state.
LEMMA InvCorrect == Spec => []Inv
<1>1. Inv /\ [Next]_vars => Inv'
  BY InvStep
<1> QED
  BY InitInv, <1>1, PTL DEF Spec

(***************************************************************************)
(* No key stays reserved by nobody, for any number of requests and keys    *)
(* and even where requests outlive their keys: whoever completes or        *)
(* abandons takes the record out of progress, be it its own or not.        *)
(***************************************************************************)
THEOREM KeysOwned == Spec => []KeyHasOwner
<1>1. Inv => KeyHasOwner
  BY DEF Inv
<1> QED
  BY InvCorrect, <1>1, PTL

(***************************************************************************)
(* Walking the pages of List returns every task that stayed exactly once,  *)
(* for every number of tasks and writers, every page size and however many *)
(* tasks share an instant: the cursor separates what was returned from     *)
(* what is still to come.                                                  *)
(***************************************************************************)
THEOREM WalksCorrect == Spec => []WalkComplete
<1>1. Inv => WalkComplete
  BY DEF Inv, Walked, WalkComplete
<1> QED
  BY InvCorrect, <1>1, PTL

-----------------------------------------------------------------------------
(* Requests that end within their key's TTL.                               *)

\* A holder's record is the holder's, while nobody touches it.
LEMMA OwnedKept ==
  ASSUME Owned, keys' = keys, call' = call, \A q \in Requests : Holds(q)' => Holds(q)
  PROVE  Owned'
BY DEF Owned

\* A reservation outlives its request.
LEMMA HoldersLive ==
  ASSUME Owned, NEW q \in Requests, Holds(q)
  PROVE  keys[call[q].key].live
<1>1. keys[call[q].key] = InProgress(call[q].op)
  BY DEF Owned
<1>2. InProgress(call[q].op).live
  BY DEF InProgress
<1> QED
  BY <1>1, <1>2, Zenon

\* No request loses its reservation to another.
LEMMA OwnedStep ==
  ASSUME Slow = FALSE, Inv, TimelyInv, [Next]_vars
  PROVE  Owned'
<1>0. TypeInv /\ Owned /\ Stamped
  BY DEF Inv, TimelyInv
<1>1. ASSUME NEW r \in Requests, Writing(r)
      PROVE  Owned'
  <2>1. PICK c \in Changes, row \in Rows : Put(r, c, row) /\ pc[r] = "apply"
    BY <1>0, <1>1, WriteTurns
  <2>2. PutEffect(r, c, row)
    BY <1>0, <2>1, PutRows
  <2>3. keys' = keys /\ call' = call /\ \A q \in Requests : Holds(q)' => Holds(q)
    BY <2>1, <2>2 DEF PutEffect, Holds, Keyed
  <2> QED
    BY <1>0, <2>3, OwnedKept
<1>2. ASSUME NEW r \in Requests, Unkeyed(r) \/ Stamp(r) \/ Miss(r) \/ Fails(r)
      PROVE  Owned'
  <2>1. keys' = keys /\ call' = call
    BY <1>2 DEF Unkeyed, Stamp, Miss, Fails
  <2>2. \A q \in Requests : Holds(q)' => Holds(q)
    BY <1>0, <1>2 DEF Unkeyed, Stamp, Miss, Fails, Holds, Keyed, Step, TypeInv
  <2> QED
    BY <1>0, <2>1, <2>2, OwnedKept
<1>3. ASSUME NEW r \in Requests, Reserve(r)
      PROVE  Owned'
  <2> DEFINE k == call[r].key
  <2>1. k \in Keys /\ pc[r] = "new" /\ call' = call /\ Keyed(r)
    BY <1>0, <1>3 DEF Reserve, Keyed, TypeInv
  <2>2. CASE keys[k].live
    <3>1. keys' = keys /\ pc' = [pc EXCEPT ![r] = "done"]
      BY <1>3, <2>2 DEF Reserve, Step
    <3>2. \A q \in Requests : Holds(q)' => Holds(q)
      BY <1>0, <2>1, <3>1 DEF Holds, Keyed, TypeInv
    <3> QED
      BY <1>0, <2>1, <3>1, <3>2, OwnedKept
  <2>3. CASE ~keys[k].live
    <3>1. /\ keys' = [keys EXCEPT ![k] = InProgress(call[r].op)]
          /\ pc' = [pc EXCEPT ![r] = "stamp"]
      BY <1>3, <2>3 DEF Reserve, Step, Fingerprint
    <3>2. \A q \in Requests : Holds(q) => call[q].key # k
      BY <1>0, <2>3, HoldersLive, Zenon
    <3>3. \A q \in Requests \ {r} : Holds(q)' => Holds(q) /\ call[q].key # k
      BY <1>0, <2>1, <3>1, <3>2 DEF Holds, Keyed, TypeInv
    <3>4. /\ keys'[k] = InProgress(call[r].op)
          /\ \A q \in Requests \ {r} : Holds(q)' => keys'[call[q].key] = keys[call[q].key]
      BY <1>0, <2>1, <3>1, <3>3 DEF TypeInv, Holds, Keyed
    <3> HIDE DEF k
    <3> SUFFICES ASSUME NEW p \in Requests, Holds(p)'
                 PROVE  /\ keys'[call[p].key] = InProgress(call[p].op)
                        /\ \A q \in Requests : Holds(q)' /\ call[q].key = call[p].key => q = p
      BY <2>1 DEF Owned
    <3>5. CASE p = r
      BY <3>3, <3>4, <3>5 DEF k
    <3>6. CASE p # r
      BY <1>0, <3>3, <3>4, <3>6 DEF Owned, k
    <3> QED
      BY <3>5, <3>6
  <2> QED
    BY <2>2, <2>3
<1>4. ASSUME NEW r \in Requests, Complete(r) \/ Abandon(r)
      PROVE  Owned'
  <2>1. pc' = [pc EXCEPT ![r] = "done"] /\ pc[r] \in {"complete", "abandon"} /\ call' = call
    BY <1>4 DEF Complete, Abandon, Step
  <2>2. \A q \in Requests : Holds(q)' => Holds(q) /\ q # r
    BY <1>0, <2>1 DEF Holds, Keyed, TypeInv
  <2>3. \A j \in Keys : (Keyed(r) => j # call[r].key) => keys'[j] = keys[j]
    BY <1>0, <1>4 DEF Complete, Abandon, TypeInv
  <2>4. \A q \in Requests : Holds(q)' => keys'[call[q].key] = keys[call[q].key]
    <3> SUFFICES ASSUME NEW q \in Requests, Holds(q)'
                 PROVE  keys'[call[q].key] = keys[call[q].key]
      OBVIOUS
    <3>1. Holds(q) /\ q # r /\ call[q].key \in Keys
      BY <1>0, <2>2 DEF Holds, Keyed, TypeInv
    <3>2. Keyed(r) => Holds(r)
      BY <2>1 DEF Holds
    <3>3. Keyed(r) => call[q].key # call[r].key
      BY <1>0, <3>1, <3>2 DEF Owned
    <3> QED
      BY <2>3, <3>1, <3>3
  <2> QED
    BY <1>0, <2>1, <2>2, <2>4 DEF Owned
<1>5. ASSUME NEW k \in Keys, Expire(k)
      PROVE  Owned'
  <2>1. pc' = pc /\ call' = call /\ \A q \in Requests : Holds(q) => call[q].key # k
    BY <1>5 DEF Expire
  <2>2. \A q \in Requests : Holds(q)' => Holds(q) /\ call[q].key \in Keys
    BY <1>0, <2>1 DEF Holds, Keyed, TypeInv
  <2>3. \A j \in Keys \ {k} : keys'[j] = keys[j]
    BY <1>0, <1>5 DEF Expire, TypeInv
  <2> QED
    BY <1>0, <2>1, <2>2, <2>3 DEF Owned
<1>6. CASE Purge
  <2>1. pc' = pc /\ call' = call /\ \A j \in Keys : keys[j].live => keys'[j] = keys[j]
    BY <1>6 DEF Purge, Unexpired
  <2>2. \A q \in Requests : Holds(q)' => Holds(q) /\ call[q].key \in Keys
    BY <1>0, <2>1 DEF Holds, Keyed, TypeInv
  <2>3. \A q \in Requests : Holds(q) => keys[call[q].key].live
    BY <1>0, HoldersLive, Zenon
  <2> QED
    BY <1>0, <2>1, <2>2, <2>3 DEF Owned
<1>7. ASSUME (\E filter \in {0, 1, Everything} : StartWalk(filter)) \/ List \/ Tick
                \/ UNCHANGED vars
      PROVE  Owned'
  <2>1. keys' = keys /\ call' = call /\ pc' = pc
    BY <1>7 DEF StartWalk, List, Tick, vars
  <2> QED
    BY <1>0, <2>1, OwnedKept DEF Holds, Keyed
<1> QED
  BY <1>1, <1>2, <1>3, <1>4, <1>5, <1>6, <1>7 DEF Next, Writing

\* What was true stays true.
LEMMA TruthStays ==
  ASSUME NEW H, NEW J, H \subseteq J
  PROVE  /\ \A o, E : Truthful(H, o, E) => Truthful(J, o, E)
         /\ \A x : Sound(H, x) => Sound(J, x)
BY DEF Truthful, Sound

\* A change that was made stays made.
LEMMA ChangesStay ==
  ASSUME [Next]_vars
  PROVE  changes \subseteq changes'
BY DEF Next, vars, Unkeyed, Reserve, Stamp, Create, Update, Delete, Put, Miss, Fails,
       Complete, Abandon, Expire, StartWalk, List, Purge, Tick

\* Absent, fresh and expired records are sound, and so is one completed with
\* a truthful response.
LEMMA SoundRecords ==
  ASSUME NEW H
  PROVE  /\ Sound(H, NoRecord)
         /\ \A o : Sound(H, InProgress(o))
         /\ \A x \in Records : Sound(H, x) => Sound(H, [x EXCEPT !.live = FALSE])
         /\ \A o \in Ops : \A E : Truthful(H, o, E) =>
              Sound(H, [InProgress(o) EXCEPT !.state = "completed", !.event = E])
<1>1. Sound(H, NoRecord) /\ \A o : Sound(H, InProgress(o))
  BY DEF Sound, NoRecord, InProgress
<1>2. ASSUME NEW x \in Records, Sound(H, x)
      PROVE  Sound(H, [x EXCEPT !.live = FALSE])
  <2> DEFINE y == [x EXCEPT !.live = FALSE]
  <2>1. y.state = x.state /\ y.op = x.op /\ y.event = x.event /\ ~y.live
    BY DEF Records
  <2> HIDE DEF y
  <2>2. Sound(H, y)
    BY <1>2, <2>1 DEF Sound
  <2> QED
    BY <2>2 DEF y
<1>3. ASSUME NEW o \in Ops, NEW E, Truthful(H, o, E)
      PROVE  Sound(H, [InProgress(o) EXCEPT !.state = "completed", !.event = E])
  <2> DEFINE y == [InProgress(o) EXCEPT !.state = "completed", !.event = E]
  <2>1. y.state = "completed" /\ y.op = {o} /\ y.event = E
    BY DEF InProgress
  <2> HIDE DEF y
  <2>2. Sound(H, y)
    BY <1>3, <2>1 DEF Sound
  <2> QED
    BY <2>2 DEF y
<1> QED
  BY <1>1, <1>2, <1>3

\* What a holder has reserved is what it completes.
LEMMA KeptStep ==
  ASSUME Inv, TimelyInv, [Next]_vars
  PROVE  Kept'
<1>0. TypeInv /\ Owned /\ Kept /\ Answered
  BY DEF Inv, TimelyInv
<1> SUFFICES ASSUME NEW k \in Keys
             PROVE  Sound(changes', keys'[k])
  BY DEF Kept
<1>1. changes \subseteq changes'
  BY ChangesStay
<1>2. /\ keys \in [Keys -> Records] /\ keys[k] \in Records
      /\ Sound(changes, keys[k]) /\ Sound(changes', keys[k])
  BY <1>0, <1>1, TruthStays DEF TypeInv, Kept
<1>3. ASSUME NEW r \in Requests, Reserve(r)
      PROVE  Sound(changes', keys'[k])
  <2>1. keys'[k] = keys[k] \/ keys'[k] = InProgress(Fingerprint(r))
    BY <1>2, <1>3 DEF Reserve
  <2> QED
    BY <1>2, <2>1, SoundRecords
<1>4. ASSUME NEW r \in Requests, Complete(r), keys'[k] # keys[k]
      PROVE  Sound(changes', keys'[k])
  <2>1. /\ keys' = [keys EXCEPT ![call[r].key].state = "completed",
                                ![call[r].key].event = event[r]]
        /\ Keyed(r) /\ pc[r] = "complete"
    BY <1>4 DEF Complete
  <2>2. k = call[r].key
    BY <1>2, <1>4, <2>1
  <2>3. keys[k] = InProgress(call[r].op)
    BY <1>0, <2>1, <2>2 DEF Owned, Holds
  <2>4. keys'[k] = [keys[k] EXCEPT !.state = "completed", !.event = event[r]]
    BY <1>2, <2>1, <2>2
  <2>5. call[r].op \in Ops /\ Truthful(changes, call[r].op, event[r])
    BY <1>0, <2>1 DEF Answered, TypeInv
  <2>6. Truthful(changes', call[r].op, event[r])
    BY <1>1, <2>5, TruthStays
  <2>7. PICK o \in Ops, E \in SUBSET Changes : o = call[r].op /\ E = event[r]
    BY <1>0, <2>5 DEF TypeInv
  <2>8. Sound(changes', [InProgress(o) EXCEPT !.state = "completed", !.event = E])
    BY <2>6, <2>7, SoundRecords
  <2> QED
    BY <2>3, <2>4, <2>7, <2>8
<1>5. ASSUME NEW r \in Requests, Abandon(r)
      PROVE  keys'[k] = keys[k] \/ keys'[k] = NoRecord
  BY <1>2, <1>5 DEF Abandon
<1>6. ASSUME NEW j \in Keys, Expire(j)
      PROVE  keys'[k] = keys[k] \/ keys'[k] = [keys[k] EXCEPT !.live = FALSE]
  BY <1>2, <1>6 DEF Expire
<1>7. ASSUME Purge
      PROVE  keys'[k] = keys[k] \/ keys'[k] = NoRecord
  BY <1>7 DEF Purge, Unexpired
<1>8. ASSUME ~\E r \in Requests : Reserve(r) \/ Complete(r) \/ Abandon(r),
             ~\E j \in Keys : Expire(j), ~Purge
      PROVE  keys' = keys
  BY <1>8 DEF Next, vars, Unkeyed, Stamp, Create, Update, Delete, Put, Miss, Fails,
         StartWalk, List, Tick
<1>9. /\ Sound(changes', NoRecord) /\ Sound(changes', [keys[k] EXCEPT !.live = FALSE])
      /\ Sound(changes', keys[k])
  BY <1>2, SoundRecords
<1> QED
  BY <1>3, <1>4, <1>5, <1>6, <1>7, <1>8, <1>9

\* A replay tells what the record remembers, and only to who asked for it.
LEMMA ReplayTrue ==
  ASSUME NEW H, NEW r \in Requests, NEW x \in Records, Sound(H, x), x.live,
         Replay(r, x).code = "2xx"
  PROVE  Truthful(H, call[r].op, Replay(r, x).event)
<1>1. x.op = {call[r].op} /\ x.state # "in_progress" /\ Replay(r, x).event = x.event
  BY DEF Replay, Answer, Fingerprint
<1>2. x.state = "completed"
  BY <1>1 DEF Sound, Records
<1>3. PICK o \in Ops : x.op = {o} /\ Truthful(H, o, x.event)
  BY <1>2 DEF Sound
<1>4. o = call[r].op
  BY <1>1, <1>3
<1> QED
  BY <1>1, <1>3, <1>4

\* A request is answered with its own change, or with a sound record.
LEMMA AnsweredStep ==
  ASSUME Inv, TimelyInv, [Next]_vars
  PROVE  Answered'
<1> DEFINE Fine(P, H, N, q) ==
      /\ P[q] = "complete" =>
           N[q] = Answer("2xx", event'[q]) /\ Truthful(H, call[q].op, event'[q])
      /\ P[q] = "abandon" => N[q].code # "2xx"
      /\ P[q] = "done" /\ N[q].code = "2xx" => Truthful(H, call[q].op, N[q].event)
<1>0. TypeInv /\ Owned /\ Kept /\ Answered /\ Stamped
  BY DEF Inv, TimelyInv
<1>1. changes \subseteq changes'
  BY ChangesStay
<1>2. call' = call
  BY DEF Next, vars, Unkeyed, Reserve, Stamp, Create, Update, Delete, Put, Miss, Fails,
         Complete, Abandon, Expire, StartWalk, List, Purge, Tick
<1> SUFFICES ASSUME NEW q \in Requests
             PROVE  Fine(pc', changes', answer', q)
  BY <1>2 DEF Answered
<1>3. ASSUME pc'[q] = pc[q], answer'[q] = answer[q], event'[q] = event[q]
      PROVE  Fine(pc', changes', answer', q)
  BY <1>0, <1>1, <1>3, TruthStays DEF Answered
<1>4. ASSUME NEW r \in Requests, Writing(r)
      PROVE  Fine(pc', changes', answer', q)
  <2>1. PICK c \in Changes, row \in Rows : Put(r, c, row) /\ Does(call[r].op, c)
    BY <1>0, <1>4, WriteTurns
  <2>2. PutEffect(r, c, row)
    BY <1>0, <2>1, PutRows
  <2>3. CASE q = r
    <3>1. /\ event'[q] = {c} /\ answer'[q] = Answer("2xx", {c}) /\ pc'[q] = "complete"
          /\ c \in changes'
      BY <2>2, <2>3 DEF PutEffect
    <3>2. Truthful(changes', call[q].op, {c})
      BY <2>1, <2>3, <3>1 DEF Truthful
    <3> QED
      BY <3>1, <3>2
  <2>4. CASE q # r
    BY <1>3, <2>2, <2>4 DEF PutEffect
  <2> QED
    BY <2>3, <2>4
<1>5. ASSUME NEW r \in Requests, Reserve(r)
      PROVE  Fine(pc', changes', answer', q)
  <2> DEFINE x == keys[call[r].key]
  <2>1. x \in Records /\ Sound(changes, x) /\ event' = event /\ changes' = changes
    BY <1>0, <1>5 DEF Reserve, Keyed, TypeInv, Kept
  <2>2. CASE q = r /\ x.live
    <3>1. answer'[q] = Replay(q, x) /\ pc'[q] = "done"
      BY <1>0, <1>5, <2>2 DEF Reserve, Step, TypeInv
    <3>2. Replay(q, x).code = "2xx" => Truthful(changes, call[q].op, Replay(q, x).event)
      BY <2>1, <2>2, ReplayTrue
    <3> QED
      BY <2>1, <3>1, <3>2
  <2>3. CASE q = r /\ ~x.live
    BY <1>0, <1>5, <2>3 DEF Reserve, Step, TypeInv
  <2>4. CASE q # r
    BY <1>0, <1>3, <1>5, <2>1, <2>4 DEF Reserve, Step, TypeInv
  <2> QED
    BY <2>2, <2>3, <2>4
<1>6. ASSUME NEW r \in Requests, Miss(r) \/ Fails(r)
      PROVE  Fine(pc', changes', answer', q)
  <2>1. CASE q = r
    BY <1>0, <1>6, <2>1 DEF Miss, Fails, Step, Reply, Answer, TypeInv
  <2>2. CASE q # r
    <3>1. pc'[q] = pc[q] /\ answer'[q] = answer[q] /\ event'[q] = event[q]
      BY <1>0, <1>6, <2>2 DEF Miss, Fails, Step, Reply, TypeInv
    <3> QED
      BY <1>3, <3>1
  <2> QED
    BY <2>1, <2>2
<1>7. ASSUME NEW r \in Requests, Unkeyed(r) \/ Stamp(r)
      PROVE  Fine(pc', changes', answer', q)
  <2>1. CASE q = r
    BY <1>0, <1>7, <2>1 DEF Unkeyed, Stamp, Step, TypeInv
  <2>2. CASE q # r
    <3>1. pc'[q] = pc[q] /\ answer'[q] = answer[q] /\ event'[q] = event[q]
      BY <1>0, <1>7, <2>2 DEF Unkeyed, Stamp, Step, TypeInv
    <3> QED
      BY <1>3, <3>1
  <2> QED
    BY <2>1, <2>2
<1>8. ASSUME NEW r \in Requests, Complete(r) \/ Abandon(r)
      PROVE  Fine(pc', changes', answer', q)
  <2>1. /\ pc' = [pc EXCEPT ![r] = "done"] /\ pc[r] \in {"complete", "abandon"}
        /\ answer' = answer /\ event' = event /\ changes' = changes
    BY <1>8 DEF Complete, Abandon, Step
  <2>2. CASE q = r
    <3>1. pc'[q] = "done"
      BY <1>0, <2>1, <2>2 DEF TypeInv
    <3>2. answer[q].code = "2xx" => Truthful(changes, call[q].op, answer[q].event)
      <4>1. Answer("2xx", event[q]).event = event[q]
        BY DEF Answer
      <4>2. CASE pc[q] = "complete"
        BY <1>0, <4>1, <4>2 DEF Answered
      <4>3. CASE pc[q] = "abandon"
        BY <1>0, <4>3 DEF Answered
      <4> QED
        BY <2>1, <2>2, <4>2, <4>3
    <3> QED
      BY <2>1, <3>1, <3>2
  <2>3. CASE q # r
    BY <1>0, <1>3, <2>1, <2>3 DEF TypeInv
  <2> QED
    BY <2>2, <2>3
<1>9. ASSUME ~\E r \in Requests : \/ Unkeyed(r) \/ Reserve(r) \/ Stamp(r) \/ Writing(r)
                                  \/ Miss(r) \/ Fails(r) \/ Complete(r) \/ Abandon(r)
      PROVE  pc' = pc /\ answer' = answer /\ event' = event
  BY <1>9 DEF Next, Writing, vars, Expire, StartWalk, List, Purge, Tick
<1> HIDE DEF Fine
<1> QED
  BY <1>3, <1>4, <1>5, <1>6, <1>7, <1>8, <1>9

\* So, in time, reservations are owned and records and answers truthful.
LEMMA TimelyCorrect ==
  ASSUME Slow = FALSE
  PROVE  Spec => [](Inv /\ TimelyInv)
<1>1. Init => TimelyInv
  <2> SUFFICES ASSUME Init
               PROVE  TimelyInv
    OBVIOUS
  <2>1. Owned /\ Answered
    BY DEF Init, Owned, Answered, Holds
  <2>2. Kept
    BY SoundRecords DEF Init, Kept
  <2> QED
    BY <2>1, <2>2 DEF TimelyInv
<1>2. Inv /\ TimelyInv /\ [Next]_vars => Inv' /\ TimelyInv'
  BY InvStep, OwnedStep, KeptStep, AnsweredStep DEF TimelyInv
<1> QED
  BY InitInv, <1>1, <1>2, PTL DEF Spec

(***************************************************************************)
(* A success tells the truth, first hand or replayed, for any number of    *)
(* requests, tasks and keys, where requests end within their key's TTL:    *)
(* what it reports has happened and is what this very request asked for.   *)
(***************************************************************************)
THEOREM AnswersTrue ==
  ASSUME Slow = FALSE
  PROVE  Spec => []TruthfulAnswers
<1>1. TimelyInv => TruthfulAnswers
  BY DEF TimelyInv, Answered, Truthful, TruthfulAnswers
<1> QED
  BY TimelyCorrect, <1>1, PTL

-----------------------------------------------------------------------------
(* Memory implements AtomicWrites.                                         *)

\* What the requests of key k have done and not yet completed, where P, C and E
\* are the places, the calls and the events.
InHand(P, C, E, k) ==
  UNION {{[op |-> C[r].op, event |-> e] : e \in E[r]} :
           r \in {q \in Requests : P[q] = "complete" /\ C[q].key = k}}

\* What a record remembers, beside what is in hand.
Recalls(record, X) ==
  IF ~record.live THEN {}
  ELSE {[op |-> o, event |-> e] : o \in record.op, e \in record.event} \cup X

\* What a key means to AtomicWrites, from its record and the responses still
\* to be stored.
LEMMA RememberedIs ==
  ASSUME NEW k \in Keys
  PROVE  /\ AbstractKeys[k] = Recalls(keys[k], InHand(pc, call, event, k))
         /\ AbstractKeys'[k] = Recalls(keys'[k], InHand(pc', call', event', k))
BY DEF AbstractKeys, Remembered, Recalls, InHand

\* Without a request that is about to complete, nothing is to be stored.
LEMMA InHandNone ==
  ASSUME NEW P, NEW C, NEW E, NEW k, \A q \in Requests : P[q] = "complete" => C[q].key # k
  PROVE  InHand(P, C, E, k) = {}
BY DEF InHand

Memo(o, e) == [op |-> o, event |-> e]

\* Of key k's requests only r has done something, namely e.
OnlyDone(P, C, E, k, r, e) ==
  /\ P[r] = "complete" /\ C[r].key = k /\ E[r] = {e}
  /\ \A q \in Requests \ {r} : P[q] = "complete" => C[q].key # k

\* With one, its response is.
LEMMA InHandOne ==
  ASSUME NEW P, NEW C, NEW E, NEW k, NEW r \in Requests, NEW e, OnlyDone(P, C, E, k, r, e)
  PROVE  InHand(P, C, E, k) = {Memo(C[r].op, e)}
<1>1. /\ {q \in Requests : P[q] = "complete" /\ C[q].key = k} = {r}
      /\ E[r] = {e}
  BY DEF OnlyDone
<1> DEFINE one == [op |-> C[r].op, event |-> e]
<1>2. {[op |-> C[r].op, event |-> d] : d \in E[r]} = {one}
  BY <1>1
<1> QED
  BY <1>1, <1>2 DEF InHand, Memo

\* Places and events of other keys' requests do not matter.
LEMMA InHandSame ==
  ASSUME NEW P, NEW Q, NEW C, NEW E, NEW F, NEW k,
         \A q \in Requests : C[q].key = k =>
           (P[q] = "complete" <=> Q[q] = "complete") /\ E[q] = F[q]
  PROVE  InHand(P, C, E, k) = InHand(Q, C, F, k)
<1>1. {q \in Requests : P[q] = "complete" /\ C[q].key = k}
        = {q \in Requests : Q[q] = "complete" /\ C[q].key = k}
  OBVIOUS
<1>2. \A x : x \in InHand(P, C, E, k) <=> x \in InHand(Q, C, F, k)
  BY <1>1 DEF InHand
<1> QED
  BY <1>2

\* A record in progress means what is to be stored for it.
LEMMA RecallsInProgress ==
  ASSUME NEW o, NEW X
  PROVE  Recalls(InProgress(o), X) = X
<1>1. InProgress(o).live /\ InProgress(o).event = {} /\ InProgress(o).op = {o}
  BY DEF InProgress
<1> QED
  BY <1>1 DEF Recalls

\* Of a key somebody holds, only the holder can have done something.
LEMMA HeldInHand ==
  ASSUME TypeInv, Owned, NEW r \in Requests, Holds(r), NEW q \in Requests \ {r}, pc[q] = "complete"
  PROVE  call[q].key # call[r].key
<1>1. SUFFICES ASSUME call[q].key = call[r].key
               PROVE  FALSE
  OBVIOUS
<1>2. Holds(q)
  BY <1>1 DEF Holds, Keyed
<1> QED
  BY <1>1, <1>2 DEF Owned

\* Keys that mean the same one by one mean the same.
LEMMA SameKeys ==
  ASSUME \A k \in Keys : AbstractKeys'[k] = AbstractKeys[k]
  PROVE  AbstractKeys' = AbstractKeys
BY DEF AbstractKeys

\* A step that moves nobody of a key in or out of "complete", and leaves its
\* record alone, changes nothing of what the key remembers.
LEMMA KeySame ==
  ASSUME NEW k \in Keys, keys'[k] = keys[k], call' = call,
         \A q \in Requests : call[q].key = k =>
           (pc'[q] = "complete" <=> pc[q] = "complete") /\ event'[q] = event[q]
  PROVE  AbstractKeys'[k] = AbstractKeys[k]
<1>1. InHand(pc', call, event', k) = InHand(pc, call, event, k)
  BY InHandSame
<1> QED
  BY <1>1, RememberedIs

\* A key that does not live remembers nothing.
LEMMA DeadKey ==
  ASSUME NEW record, NEW X, ~record.live
  PROVE  Recalls(record, X) = {}
BY DEF Recalls

\* The middleware and what surrounds it are invisible: a key remembers the same
\* before and after a reservation, a completion, an abandonment and a purge.
LEMMA MiddlewareHidden ==
  ASSUME Inv, TimelyInv, NEW r \in Requests, Reserve(r) \/ Complete(r) \/ Abandon(r)
  PROVE  AbstractKeys' = AbstractKeys
<1>0. TypeInv /\ Owned /\ Answered
  BY DEF Inv, TimelyInv
<1>1. call' = call /\ event' = event
  BY DEF Reserve, Complete, Abandon
<1>2. keys \in [Keys -> Records] /\ call[r].key \in Keys \cup {NoKey} /\ NoKey \notin Keys
  BY <1>0, Constants DEF TypeInv
<1>3. \A q \in Requests \ {r} : pc'[q] = pc[q]
  BY <1>0 DEF Reserve, Complete, Abandon, Step, TypeInv
<1> SUFFICES ASSUME NEW k \in Keys
             PROVE  AbstractKeys'[k] = AbstractKeys[k]
  BY SameKeys
<1>4. CASE call[r].key # k
  <2>1. keys'[k] = keys[k]
    BY <1>2, <1>4 DEF Reserve, Complete, Abandon
  <2>2. \A q \in Requests : call[q].key = k => pc'[q] = pc[q]
    BY <1>3, <1>4
  <2> QED
    BY <1>1, <2>1, <2>2, KeySame
<1>5. CASE call[r].key = k
  <2>1. Keyed(r)
    BY <1>2, <1>5 DEF Keyed
  <2>2. CASE Reserve(r) /\ keys[k].live
    <3>1. keys' = keys /\ pc[r] = "new" /\ pc'[r] = "done"
      BY <1>0, <1>5, <2>2 DEF Reserve, Step, TypeInv
    <3> QED
      BY <1>1, <1>3, <3>1, KeySame
  <2>3. CASE Reserve(r) /\ ~keys[k].live
    <3>1. /\ keys'[k] = InProgress(call[r].op) /\ pc[r] = "new" /\ pc'[r] = "stamp"
      BY <1>0, <1>2, <1>5, <2>3 DEF Reserve, Step, Fingerprint, TypeInv
    <3>2. \A q \in Requests : pc[q] = "complete" => call[q].key # k
      <4> SUFFICES ASSUME NEW q \in Requests, pc[q] = "complete", call[q].key = k
                   PROVE  FALSE
        OBVIOUS
      <4>1. Holds(q)
        BY <1>2 DEF Holds, Keyed
      <4>2. keys[call[q].key].live
        BY <1>0, <4>1, HoldersLive
      <4> QED
        BY <2>3, <4>2
    <3>3. InHand(pc', call', event', k) = {}
      <4>1. \A q \in Requests : pc'[q] = "complete" => call'[q].key # k
        BY <1>1, <1>3, <3>1, <3>2
      <4> QED
        BY <4>1, InHandNone
    <3>4. AbstractKeys[k] = {}
      BY <2>3, RememberedIs, DeadKey
    <3>5. AbstractKeys'[k] = Recalls(InProgress(call[r].op), {})
      BY <3>1, <3>3, RememberedIs
    <3> QED
      BY <3>4, <3>5, RecallsInProgress
  <2>4. CASE Complete(r)
    <3>1. /\ pc[r] = "complete" /\ Holds(r) /\ keys[k] = InProgress(call[r].op)
          /\ pc'[r] = "done"
      BY <1>0, <1>5, <2>1, <2>4 DEF Complete, Holds, Owned, Step, TypeInv
    <3>2. PICK e \in changes : event[r] = {e}
      BY <1>0, <3>1 DEF Answered, Truthful
    <3>3. \A q \in Requests \ {r} : pc[q] = "complete" => call[q].key # k
      BY <1>0, <1>5, <3>1, HeldInHand
    <3>4. InHand(pc, call, event, k) = {Memo(call[r].op, e)}
      <4>1. OnlyDone(pc, call, event, k, r, e)
        BY <1>5, <3>1, <3>2, <3>3 DEF OnlyDone
      <4> QED
        BY <4>1, InHandOne
    <3>5. AbstractKeys[k] = {Memo(call[r].op, e)}
      BY <3>1, <3>4, RememberedIs, RecallsInProgress
    <3>6. InHand(pc', call', event', k) = {}
      <4>1. \A q \in Requests : pc'[q] = "complete" => call'[q].key # k
        BY <1>1, <1>3, <3>1, <3>3
      <4> QED
        BY <4>1, InHandNone
    <3>7. keys'[k] = [keys[k] EXCEPT !.state = "completed", !.event = event[r]]
      <4>1. keys[k].state # "absent"
        BY <3>1 DEF InProgress
      <4> QED
        BY <1>2, <1>5, <2>1, <2>4, <4>1 DEF Complete
    <3>8. keys'[k].live /\ keys'[k].op = {call[r].op} /\ keys'[k].event = {e}
      BY <3>1, <3>2, <3>7 DEF InProgress
    <3>9. AbstractKeys'[k] = Recalls(keys'[k], {})
      BY <3>6, RememberedIs
    <3>10. PICK x \in Ops : x = call[r].op
      BY <1>0 DEF TypeInv
    <3>11. \A y : y.live /\ y.op = {x} /\ y.event = {e}
                   => Recalls(y, {}) = {Memo(x, e)}
      BY DEF Recalls, Memo
    <3> QED
      BY <3>5, <3>8, <3>9, <3>10, <3>11
  <2>5. CASE Abandon(r)
    <3>1. /\ pc[r] = "abandon" /\ Holds(r) /\ keys[k] = InProgress(call[r].op)
          /\ pc'[r] = "done" /\ keys'[k] = NoRecord
      BY <1>0, <1>2, <1>5, <2>1, <2>5 DEF Abandon, Holds, Owned, Step, TypeInv
    <3>2. \A q \in Requests \ {r} : pc[q] = "complete" => call[q].key # k
      BY <1>0, <1>5, <3>1, HeldInHand
    <3>3. InHand(pc, call, event, k) = {}
      BY <3>1, <3>2, InHandNone
    <3>4. AbstractKeys[k] = {}
      BY <3>1, <3>3, RememberedIs, RecallsInProgress
    <3>5. ~NoRecord.live
      BY DEF NoRecord
    <3> QED
      BY <3>1, <3>4, <3>5, RememberedIs, DeadKey
  <2> QED
    BY <2>2, <2>3, <2>4, <2>5
<1> QED
  BY <1>4, <1>5

\* Expiry forgets one key, and a purge none that was not forgotten.
LEMMA ExpiryForgets ==
  ASSUME Inv, NEW j \in Keys, Expire(j)
  PROVE  A!Forget
<1>1. /\ call' = call /\ event' = event /\ pc' = pc /\ rows' = rows /\ changes' = changes
  BY DEF Expire
<1>2. keys \in [Keys -> Records] /\ keys[j] \in Records
  BY DEF Inv, TypeInv
<1>3. \A k \in Keys \ {j} : keys'[k] = keys[k]
  BY <1>2 DEF Expire
<1>4. ~keys'[j].live
  BY <1>2 DEF Expire, Records
<1>5. AbstractKeys'[j] = {}
  BY <1>4, RememberedIs, DeadKey
<1>6. \A k \in Keys \ {j} : AbstractKeys'[k] = AbstractKeys[k]
  BY <1>1, <1>3, KeySame
<1>7. AbstractKeys' = [k \in Keys |-> AbstractKeys'[k]]
  BY DEF AbstractKeys
<1>8. AbstractKeys' = [k \in Keys |-> IF k \in {j} THEN {} ELSE AbstractKeys[k]]
  BY <1>5, <1>6, <1>7
<1>9. AbstractTasks' = AbstractTasks
  BY <1>1 DEF AbstractTasks
<1> QED
  BY <1>1, <1>8, <1>9 DEF A!Forget

\* A purge removes only what means nothing any more.
LEMMA PurgeHidden ==
  ASSUME Purge
  PROVE  AbstractKeys' = AbstractKeys
<1>1. call' = call /\ event' = event /\ pc' = pc
  BY DEF Purge
<1> SUFFICES ASSUME NEW k \in Keys
             PROVE  AbstractKeys'[k] = AbstractKeys[k]
  BY SameKeys
<1>2. CASE keys[k].live
  <2>1. keys'[k] = keys[k]
    BY <1>2 DEF Purge, Unexpired
  <2> QED
    BY <1>1, <2>1, KeySame
<1>3. CASE ~keys[k].live
  <2>1. keys'[k] = NoRecord
    BY <1>3 DEF Purge, Unexpired
  <2>2. ~NoRecord.live
    BY DEF NoRecord
  <2> QED
    <3>1. AbstractKeys[k] = {}
      BY <1>3, RememberedIs, DeadKey
    <3>2. AbstractKeys'[k] = {}
      BY <2>1, <2>2, RememberedIs, DeadKey
    <3> QED
      BY <3>1, <3>2
<1> QED
  BY <1>2, <1>3

\* What a write does to the keys: its own remembers it from then on.
LEMMA WriteRemembered ==
  ASSUME Inv, TimelyInv, NEW r \in Requests, NEW c, NEW row, PutEffect(r, c, row),
         pc[r] = "apply"
  PROVE  LET k == call[r].key IN
         \/ k = NoKey /\ AbstractKeys' = AbstractKeys
         \/ /\ k # NoKey /\ AbstractKeys[k] = {}
            /\ AbstractKeys' = [AbstractKeys EXCEPT ![k] = {[op |-> call[r].op, event |-> c]}]
<1> DEFINE k == call[r].key
<1>0. TypeInv /\ Owned
  BY DEF Inv, TimelyInv
<1>1. k \in Keys \cup {NoKey} /\ NoKey \notin Keys
  BY <1>0, Constants DEF TypeInv
<1>2. /\ keys' = keys /\ call' = call /\ event'[r] = {c} /\ pc'[r] = "complete"
      /\ \A q \in Requests \ {r} : event'[q] = event[q] /\ pc'[q] = pc[q]
  BY DEF PutEffect
<1>3. \A j \in Keys : j # k => AbstractKeys'[j] = AbstractKeys[j]
  <2> TAKE j \in Keys
  <2> HAVE j # k
  <2>1. \A q \in Requests : call[q].key = j => event'[q] = event[q] /\ pc'[q] = pc[q]
    BY <1>2
  <2> QED
    BY <1>2, <2>1, KeySame
<1>4. CASE k = NoKey
  BY <1>1, <1>3, <1>4, SameKeys
<1>5. CASE k # NoKey
  <2>1. k \in Keys /\ Holds(r)
    BY <1>1, <1>5 DEF Holds, Keyed
  <2>2. keys[k] = InProgress(call[r].op)
    BY <1>0, <2>1 DEF Owned
  <2>3. \A q \in Requests \ {r} : pc[q] = "complete" => call[q].key # k
    BY <1>0, <2>1, HeldInHand
  <2> HIDE DEF k
  <2>4. InHand(pc, call, event, k) = {}
    BY <2>3, InHandNone
  <2>5. AbstractKeys[k] = {}
    BY <2>1, <2>2, <2>4, RememberedIs, RecallsInProgress
  <2>6. InHand(pc', call', event', k) = {Memo(call'[r].op, c)}
    <3>1. call'[r].key = k
      BY <1>2 DEF k
    <3>2. \A q \in Requests \ {r} : pc'[q] = "complete" => call'[q].key # k
      BY <1>2, <2>3
    <3> QED
      <4>1. OnlyDone(pc', call', event', k, r, c)
        BY <1>2, <3>1, <3>2 DEF OnlyDone
      <4> QED
        BY <4>1, InHandOne
  <2>7. AbstractKeys'[k] = {Memo(call[r].op, c)}
    BY <1>2, <2>1, <2>2, <2>6, RememberedIs, RecallsInProgress
  <2>8. /\ AbstractKeys = [j \in Keys |-> AbstractKeys[j]]
        /\ AbstractKeys' = [j \in Keys |-> AbstractKeys'[j]]
    BY DEF AbstractKeys
  <2> DEFINE new == {Memo(call[r].op, c)}
  <2>9. AbstractKeys'[k] = new
    BY <2>7
  <2> HIDE DEF new
  <2>10. AbstractKeys' = [AbstractKeys EXCEPT ![k] = new]
    BY <1>3, <2>1, <2>8, <2>9
  <2> QED
    BY <1>5, <2>5, <2>10 DEF new, k, Memo
<1> QED
  BY <1>4, <1>5

\* A write is the whole write.
LEMMA WriteIsAtomic ==
  ASSUME Inv, TimelyInv, NEW r \in Requests, Writing(r)
  PROVE  A!Next
<1>0. TypeInv /\ Stamped /\ AllPast
  BY DEF Inv
<1>1. PICK c \in Changes, row \in Rows :
        /\ Put(r, c, row) /\ Turns(c, rows[c.task], row) /\ Does(call[r].op, c)
        /\ pc[r] = "apply"
  BY <1>0, WriteTurns
<1>2. PutEffect(r, c, row)
  BY <1>0, <1>1, PutRows
<1>3. PICK ask \in Ops, key \in Keys \cup {NoKey} : ask = call[r].op /\ key = call[r].key
  BY <1>0 DEF TypeInv
<1>4. /\ c.task \in Tasks /\ c.version \in Nat /\ rows[c.task] \in Rows
      /\ rows[c.task].version \in Nat
      /\ c = [kind |-> c.kind, task |-> c.task, version |-> c.version]
  BY <1>0 DEF Changes, TypeInv, Rows
<1>5. c \notin changes
  <2> SUFFICES ASSUME c \in changes
               PROVE  FALSE
    OBVIOUS
  <2>1. Past(c)
    BY <1>0 DEF AllPast
  <2> QED
    BY <1>1, <1>4, <2>1 DEF Past, Turns
<1>6. AbstractTasks' = [AbstractTasks EXCEPT ![c.task] =
                          [state |-> row.state, version |-> row.version]]
  <2>1. \A t \in Tasks : AbstractTasks'[t] =
          [state |-> rows'[t].state, version |-> rows'[t].version]
    BY DEF AbstractTasks
  <2>2. \A t \in Tasks \ {c.task} : AbstractTasks'[t] = AbstractTasks[t]
    BY <1>2 DEF PutEffect, AbstractTasks
  <2>3. AbstractTasks'[c.task] = [state |-> row.state, version |-> row.version]
    BY <1>2, <1>4, <2>1 DEF PutEffect
  <2>4. /\ AbstractTasks = [t \in Tasks |-> AbstractTasks[t]]
        /\ AbstractTasks' = [t \in Tasks |-> AbstractTasks'[t]]
    BY DEF AbstractTasks
  <2> DEFINE new == [state |-> row.state, version |-> row.version]
  <2>5. AbstractTasks'[c.task] = new
    BY <2>3
  <2> HIDE DEF new
  <2>6. AbstractTasks' = [AbstractTasks EXCEPT ![c.task] = new]
    BY <1>4, <2>2, <2>4, <2>5
  <2> QED
    BY <2>6 DEF new
<1>7. \/ key = NoKey /\ AbstractKeys' = AbstractKeys
      \/ /\ key # NoKey /\ AbstractKeys[key] = {}
         /\ AbstractKeys' = [AbstractKeys EXCEPT ![key] = {[op |-> ask, event |-> c]}]
  BY <1>1, <1>2, <1>3, WriteRemembered
<1>8. row.version = c.version
  BY <1>1 DEF Turns
<1>9. A!Change(c.task, c.kind, row.state, c.version, ask, key)
  <2> DEFINE f == [kind |-> c.kind, task |-> c.task, version |-> c.version]
  <2>1. AbstractTasks' = [AbstractTasks EXCEPT ![c.task] =
                            [state |-> row.state, version |-> c.version]]
    BY <1>6, <1>8
  <2>2. f \notin changes /\ changes' = changes \cup {f}
    BY <1>2, <1>4, <1>5 DEF PutEffect
  <2>3. \/ key = NoKey /\ UNCHANGED AbstractKeys
        \/ /\ key # NoKey /\ AbstractKeys[key] = {}
           /\ AbstractKeys' = [AbstractKeys EXCEPT ![key] = {[op |-> ask, event |-> f]}]
    BY <1>4, <1>7
  <2> QED
    BY <2>1, <2>2, <2>3 DEF A!Change
<1>10. /\ AbstractTasks[c.task].state = rows[c.task].state
       /\ AbstractTasks[c.task].version = rows[c.task].version
  BY <1>4 DEF AbstractTasks
<1>11. CASE c.kind = "created"
  <2>1. /\ ask.kind = "create" /\ AbstractTasks[c.task].state = "unused"
        /\ row.state = "stored" /\ c.version = 1
    BY <1>1, <1>3, <1>10, <1>11 DEF Does, Turns
  <2>2. A!Create(ask, key)
    BY <1>4, <1>9, <1>11, <2>1 DEF A!Create
  <2> QED
    BY <2>2 DEF A!Next
<1>12. CASE c.kind = "updated"
  <2>1. /\ ask.kind = "update" /\ ask.task = c.task /\ rows[ask.task].state = "stored"
        /\ c.version = rows[ask.task].version + 1 /\ ask.expect \in {0, c.version - 1}
        /\ row.state = "stored"
    BY <1>1, <1>3, <1>12 DEF Does, Turns
  <2>2. c.version - 1 = rows[ask.task].version
    BY <1>4, <2>1
  <2>3. A!Update(ask, key)
    BY <1>9, <1>10, <1>12, <2>1, <2>2 DEF A!Update
  <2> QED
    BY <2>3 DEF A!Next
<1>13. CASE c.kind = "deleted"
  <2>1. /\ ask.kind = "delete" /\ ask.task = c.task /\ rows[ask.task].state = "stored"
        /\ c.version = rows[ask.task].version /\ row.state = "deleted"
    BY <1>1, <1>3, <1>13 DEF Does, Turns
  <2>2. A!Delete(ask, key)
    BY <1>9, <1>10, <1>13, <2>1 DEF A!Delete
  <2> QED
    BY <2>2 DEF A!Next
<1> QED
  BY <1>1, <1>11, <1>12, <1>13 DEF Turns

(***************************************************************************)
(* The memory backend implements AtomicWrites, without a transaction       *)
(* around its two maps, where requests end within their key's TTL: the     *)
(* write under the repository's mutex is the atomic step, and what the     *)
(* middleware does to the key before and after it does not show.           *)
(***************************************************************************)
THEOREM MemoryRefinement ==
  ASSUME Slow = FALSE
  PROVE  Spec => ImplementsAtomicWrites
<1>1. Init => A!Init
  BY DEF Init, A!Init, NoRow, NoRecord, AbstractTasks, AbstractKeys, Remembered
<1>2. Inv /\ TimelyInv /\ [Next]_vars => [A!Next]_(A!vars)
  <2> SUFFICES ASSUME Inv, TimelyInv, [Next]_vars
               PROVE  A!Next \/ UNCHANGED A!vars
    OBVIOUS
  <2>1. ASSUME NEW r \in Requests, Writing(r)
        PROVE  A!Next
    BY <2>1, WriteIsAtomic
  <2>2. ASSUME NEW j \in Keys, Expire(j)
        PROVE  A!Next
    BY <2>2, ExpiryForgets DEF A!Next
  <2>3. ASSUME ~\E r \in Requests : Writing(r), ~\E j \in Keys : Expire(j)
        PROVE  UNCHANGED A!vars
    <3>1. UNCHANGED <<rows, changes, event, call>>
      BY <2>3, OtherSteps
    <3>2. AbstractTasks' = AbstractTasks
      BY <3>1 DEF AbstractTasks
    <3>3. ASSUME NEW r \in Requests, Reserve(r) \/ Complete(r) \/ Abandon(r)
          PROVE  AbstractKeys' = AbstractKeys
      BY <3>3, MiddlewareHidden
    <3>4. ASSUME Purge
          PROVE  AbstractKeys' = AbstractKeys
      BY <3>4, PurgeHidden
    <3>5. ASSUME ~\E r \in Requests : Reserve(r) \/ Complete(r) \/ Abandon(r), ~Purge
          PROVE  AbstractKeys' = AbstractKeys
      <4>1. keys' = keys
        BY <2>3, <3>5 DEF Next, vars, Writing, Unkeyed, Stamp, Miss, Fails, StartWalk, List, Tick
      <4>2. \A q \in Requests : pc'[q] = "complete" <=> pc[q] = "complete"
        BY <2>3, <3>5 DEF Next, vars, Writing, Unkeyed, Stamp, Miss, Fails, StartWalk, List, Tick,
             Step, Inv, TypeInv
      <4>3. \A k \in Keys : AbstractKeys'[k] = AbstractKeys[k]
        BY <3>1, <4>1, <4>2, KeySame
      <4> QED
        BY <4>3, SameKeys
    <3>6. AbstractKeys' = AbstractKeys
      BY <3>3, <3>4, <3>5
    <3> QED
      BY <3>1, <3>2, <3>6 DEF A!vars
  <2> QED
    BY <2>1, <2>2, <2>3
<1> QED
  BY <1>1, <1>2, TimelyCorrect, PTL DEF Spec, ImplementsAtomicWrites, A!Spec
=============================================================================
