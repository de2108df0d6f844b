---------------------------- MODULE WakeupProofs ----------------------------
(***************************************************************************)
(* No wake-up is lost, for any number of jobs, any batch size and any      *)
(* number of faults.                                                       *)
(***************************************************************************)
EXTENDS Wakeup, FiniteSetTheorems, TLAPS

LoopStates == {"claim", "dispatch", "cooldown", "wait", "stopped"}

TypeInv ==
  /\ jobs \in [Jobs -> {"absent", "available", "locked", "running", "retryable", "final"}]
  /\ received \subseteq Jobs /\ handlers \subseteq Jobs
  /\ batch \in [left : SUBSET Jobs, more : BOOLEAN]
  /\ loop \in LoopStates

\* The jobs of this process are running, each in one place.
Owned ==
  /\ \A j \in batch.left \cup handlers : jobs[j] = "running"
  /\ batch.left \cap handlers = {}

\* Something will make the loop claim again: a token, the last claim's failure
\* (which the poll repeats), or where the loop is.
Coming ==
  \/ wakeUp \/ failed
  \/ loop \in {"claim", "cooldown", "stopped"}
  \/ loop = "dispatch" /\ batch.more

Noticed ==
  /\ received \subseteq Available
  /\ received # {} => Coming

Inv == TypeInv /\ Owned /\ Noticed

(***************************************************************************)
(* A batch that is not full has taken every row there was.                 *)
(***************************************************************************)
LEMMA ShortBatchTakesAll ==
  ASSUME NEW taken \in SUBSET Available,
         Cardinality(taken) = Least(ClaimBatch, Cardinality(Available)),
         ~MayBeMore(taken)
  PROVE  taken = Available
<1>1. IsFiniteSet(Available)
  BY FS_Subset, WakeupAssumption DEF Available
<1>2. Cardinality(Available) \in Nat
  BY <1>1, FS_CardinalityType
<1>3. Cardinality(taken) = Cardinality(Available)
  BY <1>2, WakeupAssumption DEF Least, MayBeMore
<1> QED
  BY <1>1, <1>3, FS_Subset

(***************************************************************************)
(* An empty batch means that there was no row.                             *)
(***************************************************************************)
LEMMA EmptyBatchMeansNone ==
  ASSUME Cardinality({}) = Least(ClaimBatch, Cardinality(Available))
  PROVE  Available = {}
<1>1. IsFiniteSet(Available)
  BY FS_Subset, WakeupAssumption DEF Available
<1>2. Cardinality(Available) \in Nat
  BY <1>1, FS_CardinalityType
<1>3. Cardinality(Available) = 0
  BY <1>2, FS_EmptySet, WakeupAssumption DEF Least
<1> QED
  BY <1>1, <1>3, FS_EmptySet

(***************************************************************************)
(* Every action keeps the types.                                           *)
(***************************************************************************)
LEMMA StepType ==
  ASSUME Inv, [Next]_vars
  PROVE  TypeInv'
<1> USE DEF Inv, TypeInv, LoopStates, listener, outcomes, pool
<1>1. ASSUME NEW j \in Jobs,
             Commit(j) \/ Notify(j) \/ LockElsewhere(j) \/ UnlockElsewhere(j) \/ Schedule(j)
               \/ Receive(j)
      PROVE  TypeInv'
  BY <1>1 DEF Commit, Notify, LockElsewhere, UnlockElsewhere, Schedule, Receive, Available
<1>2. ASSUME NEW j \in Jobs, Dispatch(j) \/ HandBack(j) \/ Finish(j)
      PROVE  TypeInv'
  BY <1>2 DEF Dispatch, HandBack, Finish, Publish
<1>3. CASE PollTick \/ Listen \/ Disconnect \/ WakeAndSleep \/ Reconnect \/ ListenerStops
  BY <1>3 DEF PollTick, Listen, Disconnect, WakeAndSleep, Reconnect, ListenerStops
<1>4. CASE Claim
  BY <1>4 DEF Claim, MayBeMore, Available
<1>5. CASE ClaimFails \/ CooldownEnds \/ Polled \/ Woken \/ LoopEnds
  BY <1>5 DEF ClaimFails, CooldownEnds, Polled, Woken, LoopEnds
<1>6. CASE Subscribe \/ Record \/ RecorderEnds \/ Stop \/ Cancel
  BY <1>6 DEF Subscribe, Record, RecorderEnds, Stop, Cancel
<1>7. CASE UNCHANGED vars
  BY <1>7 DEF vars
<1> QED
  BY <1>1, <1>2, <1>3, <1>4, <1>5, <1>6, <1>7 DEF Next

(***************************************************************************)
(* Nobody but its goroutine touches a job that this process is running.    *)
(***************************************************************************)
LEMMA StepOwned ==
  ASSUME Inv, [Next]_vars
  PROVE  Owned'
<1> USE DEF Inv, TypeInv, Owned, listener, outcomes, pool
<1>1. ASSUME NEW j \in Jobs,
             Commit(j) \/ Notify(j) \/ LockElsewhere(j) \/ UnlockElsewhere(j) \/ Schedule(j)
               \/ Receive(j)
      PROVE  Owned'
  BY <1>1 DEF Commit, Notify, LockElsewhere, UnlockElsewhere, Schedule, Receive
<1>2. ASSUME NEW j \in Jobs, Dispatch(j) \/ HandBack(j) \/ Finish(j)
      PROVE  Owned'
  BY <1>2 DEF Dispatch, HandBack, Finish, Publish
<1>3. CASE PollTick \/ Listen \/ Disconnect \/ WakeAndSleep \/ Reconnect \/ ListenerStops
  BY <1>3 DEF PollTick, Listen, Disconnect, WakeAndSleep, Reconnect, ListenerStops
<1>4. CASE Claim
  BY <1>4 DEF Claim, MayBeMore, Available
<1>5. CASE ClaimFails \/ CooldownEnds \/ Polled \/ Woken \/ LoopEnds
  BY <1>5 DEF ClaimFails, CooldownEnds, Polled, Woken, LoopEnds
<1>6. CASE Subscribe \/ Record \/ RecorderEnds \/ Stop \/ Cancel
  BY <1>6 DEF Subscribe, Record, RecorderEnds, Stop, Cancel
<1>7. CASE UNCHANGED vars
  BY <1>7 DEF vars
<1> QED
  BY <1>1, <1>2, <1>3, <1>4, <1>5, <1>6, <1>7 DEF Next

(***************************************************************************)
(* A claim leaves behind what it was told of only if it says that there    *)
(* may be more.                                                            *)
(***************************************************************************)
LEMMA ClaimNoticed ==
  ASSUME Inv, Claim
  PROVE  Noticed'
<1>1. PICK taken \in SUBSET Available :
        /\ Cardinality(taken) = Least(ClaimBatch, Cardinality(Available))
        /\ jobs' = [j \in Jobs |-> IF j \in taken THEN "running" ELSE jobs[j]]
        /\ batch' = [left |-> taken, more |-> MayBeMore(taken)]
        /\ loop' = IF taken = {} THEN "wait" ELSE "dispatch"
        /\ received' = received \ taken
  BY DEF Claim
<1>2. received' \subseteq Available'
  BY <1>1 DEF Inv, TypeInv, Noticed, Available
<1>3. CASE taken = {}
  <2>1. received' = {}
    BY <1>1, <1>3, EmptyBatchMeansNone DEF Inv, Noticed
  <2> QED
    BY <1>2, <2>1 DEF Noticed
<1>4. CASE taken # {} /\ MayBeMore(taken)
  BY <1>1, <1>2, <1>4 DEF Noticed, Coming
<1>5. CASE ~MayBeMore(taken)
  <2>1. received' = {}
    BY <1>1, <1>5, ShortBatchTakesAll DEF Inv, Noticed
  <2> QED
    BY <1>2, <2>1 DEF Noticed
<1> QED
  BY <1>3, <1>4, <1>5

(***************************************************************************)
(* No step leaves a job that was notified with nothing to come for it.     *)
(***************************************************************************)
LEMMA StepNoticed ==
  ASSUME Inv, [Next]_vars
  PROVE  Noticed'
<1> USE DEF Inv, TypeInv, LoopStates, Noticed, Coming, Available, listener, outcomes, pool
<1>1. ASSUME NEW j \in Jobs,
             Commit(j) \/ Notify(j) \/ LockElsewhere(j) \/ UnlockElsewhere(j) \/ Schedule(j)
               \/ Receive(j)
      PROVE  Noticed'
  BY <1>1 DEF Commit, Notify, LockElsewhere, UnlockElsewhere, Schedule, Receive
<1>2. ASSUME NEW j \in Jobs, Dispatch(j) \/ HandBack(j)
      PROVE  Noticed'
  BY <1>2 DEF Dispatch, HandBack
<1>3. ASSUME NEW j \in Jobs, Finish(j)
      PROVE  Noticed'
  BY <1>3 DEF Finish, Publish, Owned
<1>4. CASE PollTick \/ Listen \/ Disconnect \/ WakeAndSleep \/ Reconnect \/ ListenerStops
  BY <1>4 DEF PollTick, Listen, Disconnect, WakeAndSleep, Reconnect, ListenerStops
<1>5. CASE Claim
  BY <1>5, ClaimNoticed
<1>6. CASE ClaimFails \/ CooldownEnds \/ Polled \/ Woken \/ LoopEnds
  BY <1>6 DEF ClaimFails, CooldownEnds, Polled, Woken, LoopEnds
<1>7. CASE Subscribe \/ Record \/ RecorderEnds \/ Stop \/ Cancel
  BY <1>7 DEF Subscribe, Record, RecorderEnds, Stop, Cancel
<1>8. CASE UNCHANGED vars
  BY <1>8 DEF vars
<1> QED
  BY <1>1, <1>2, <1>3, <1>4, <1>5, <1>6, <1>7, <1>8 DEF Next

(***************************************************************************)
(* The one-place wake-up channel loses nothing, whatever the sizes of      *)
(* batch and pool: a job whose notification was read is never left beside  *)
(* a loop that waits with nothing in the channel.                          *)
(***************************************************************************)
THEOREM WakeupsKept == Spec => []NoLostWakeup
<1>1. Init => Inv
  BY DEF Init, Inv, TypeInv, LoopStates, Owned, Noticed, Available
<1>2. Inv /\ [Next]_vars => Inv'
  BY StepType, StepOwned, StepNoticed DEF Inv
<1>3. Inv => NoLostWakeup
  BY DEF Inv, Noticed, Coming, NoLostWakeup
<1> QED
  BY <1>1, <1>2, <1>3, PTL DEF Spec
=============================================================================
