------------------------------- MODULE Wakeup -------------------------------
(***************************************************************************)
(* How a committed job comes to the notice of one process: the producer's  *)
(* NOTIFY, the listener's connection, the one-place wake-up channel, the   *)
(* poll ticker, and the claim loop that selects on them.                   *)
(*                                                                         *)
(* Notifications reach only a connection that listens; the listener may be *)
(* connecting, asleep in its backoff, or gone.  Leases, handlers and the   *)
(* rest of the pool are in Pool; here a goroutine takes a job, gives it an *)
(* outcome and publishes it to the metrics' recorder.                      *)
(***************************************************************************)
EXTENDS Naturals, FiniteSets

CONSTANTS
  Jobs,
  ClaimBatch,    \* queue.claim_batch
  Goroutines,    \* queue.workers
  EventBuffer,   \* what the recorder's channel holds
  MaxFaults      \* bound: connections lost, claims failed, rows locked elsewhere

ASSUME WakeupAssumption ==
  /\ ClaimBatch \in Nat \ {0} /\ Goroutines \in Nat \ {0} /\ MaxFaults \in Nat
  /\ EventBuffer \in Nat \ {0}
  /\ IsFiniteSet(Jobs)

VARIABLES
  jobs,       \* "absent", "available", "locked", "running", "retryable", "final"
  notices,    \* jobs whose producer has committed and not yet notified
  conn,       \* the listener: "connecting", "listening", "disconnected", "asleep", "stopped"
  inbox,      \* jobs whose notification is on the connection
  wakeUp,     \* whether the wake-up channel holds its one token
  tick,       \* whether the poll ticker's channel holds its one tick
  loop,       \* the claim loop: "claim", "dispatch", "cooldown", "wait", "stopped"
  batch,      \* jobs claimed and not yet handed over, and whether there may be more
  handlers,   \* jobs in the hands of goroutines
  recorder,   \* recordJobOutcomes: "new", "recording", "ended"
  events,     \* how many outcomes its channel holds
  stage,      \* "up", "draining" after Stop, "cancelled" when the context ended
  faults,
  \* What the properties look back to:
  received,   \* available jobs whose notification the listener has read
  failed      \* the loop's last claim failed

vars == <<jobs, notices, conn, inbox, wakeUp, tick, loop, batch, handlers,
          recorder, events, stage, faults, received, failed>>

listener == <<conn, inbox, wakeUp>>
outcomes == <<recorder, events>>
pool     == <<loop, batch, handlers, outcomes>>

Available == {j \in Jobs : jobs[j] = "available"}
Fault     == faults < MaxFaults /\ faults' = faults + 1
Least(a, b) == IF a < b THEN a ELSE b

-----------------------------------------------------------------------------
(* Producers and the rest of the system.                                   *)

Commit(j) ==
  /\ jobs[j] = "absent"
  /\ jobs' = [jobs EXCEPT ![j] = "available"]
  /\ notices' = notices \cup {j}
  /\ UNCHANGED <<listener, tick, pool, stage, faults, received, failed>>

\* pg_notify, after the commit: dropped if nobody listens, or if the producer
\* dies first.
Notify(j) ==
  /\ j \in notices
  /\ notices' = notices \ {j}
  /\ \/ inbox' = IF conn = "listening" THEN inbox \cup {j} ELSE inbox
     \/ inbox' = inbox
  /\ UNCHANGED <<jobs, conn, wakeUp, tick, pool, stage, faults, received, failed>>

\* Another process's claim locks a row, which this one's claim then skips, and
\* takes it or rolls back.
LockElsewhere(j) ==
  /\ jobs[j] = "available" /\ Fault
  /\ jobs' = [jobs EXCEPT ![j] = "locked"]
  /\ received' = received \ {j}
  /\ UNCHANGED <<notices, listener, tick, pool, stage, failed>>

UnlockElsewhere(j) ==
  /\ jobs[j] = "locked"
  /\ \E state \in {"available", "final"} : jobs' = [jobs EXCEPT ![j] = state]
  /\ UNCHANGED <<notices, listener, tick, pool, stage, faults, received, failed>>

\* The scheduler makes a retry available and tells nobody.
Schedule(j) ==
  /\ jobs[j] = "retryable"
  /\ jobs' = [jobs EXCEPT ![j] = "available"]
  /\ UNCHANGED <<notices, listener, tick, pool, stage, faults, received, failed>>

PollTick ==
  /\ ~tick /\ loop # "stopped"
  /\ tick' = TRUE
  /\ UNCHANGED <<jobs, notices, listener, pool, stage, faults, received, failed>>

-----------------------------------------------------------------------------
(* Listener.Run.                                                           *)

Listen ==
  /\ conn = "connecting" /\ stage # "cancelled"
  /\ conn' = "listening"
  /\ UNCHANGED <<jobs, notices, inbox, wakeUp, tick, pool, stage, faults, received, failed>>

\* Connecting fails, or the connection is lost with what it carried.
Disconnect ==
  /\ conn \in {"connecting", "listening"} /\ stage # "cancelled" /\ Fault
  /\ conn' = "disconnected"
  /\ inbox' = {}
  /\ UNCHANGED <<jobs, notices, wakeUp, tick, pool, stage, received, failed>>

Receive(j) ==
  /\ conn = "listening" /\ j \in inbox
  /\ inbox' = inbox \ {j}
  /\ wakeUp' = TRUE
  /\ received' = received \cup ({j} \cap Available)
  /\ UNCHANGED <<jobs, notices, conn, tick, pool, stage, faults, failed>>

\* The claim loop is woken, and the listener goes to sleep.
WakeAndSleep ==
  /\ conn = "disconnected" /\ stage # "cancelled"
  /\ conn' = "asleep"
  /\ wakeUp' = TRUE
  /\ UNCHANGED <<jobs, notices, inbox, tick, pool, stage, faults, received, failed>>

Reconnect ==
  /\ conn = "asleep" /\ stage # "cancelled"
  /\ conn' = "connecting"
  /\ UNCHANGED <<jobs, notices, inbox, wakeUp, tick, pool, stage, faults, received, failed>>

ListenerStops ==
  /\ stage = "cancelled" /\ conn # "stopped"
  /\ conn' = "stopped"
  /\ inbox' = {}
  /\ UNCHANGED <<jobs, notices, wakeUp, tick, pool, stage, faults, received, failed>>

-----------------------------------------------------------------------------
(* Pool.claimLoop.                                                         *)

Stopping == stage # "up"

\* Mutant: one batch per wake-up.
NeverMore(taken) == FALSE

\* A full batch means there may be more.
MayBeMore(taken) == Cardinality(taken) = ClaimBatch

\* claimBatch, up to the hand-over: at most ClaimBatch of the rows nobody locks.
Claim ==
  /\ loop = "claim" /\ ~Stopping
  /\ \E taken \in SUBSET Available :
       /\ Cardinality(taken) = Least(ClaimBatch, Cardinality(Available))
       /\ jobs' = [j \in Jobs |-> IF j \in taken THEN "running" ELSE jobs[j]]
       /\ batch' = [left |-> taken, more |-> MayBeMore(taken)]
       /\ loop' = IF taken = {} THEN "wait" ELSE "dispatch"
       /\ received' = received \ taken
  /\ failed' = FALSE
  /\ UNCHANGED <<notices, listener, tick, handlers, outcomes, stage, faults>>

ClaimFails ==
  /\ loop = "claim" /\ ~Stopping /\ Fault
  /\ loop' = "wait"
  /\ failed' = TRUE
  /\ UNCHANGED <<jobs, notices, listener, tick, batch, handlers, outcomes, stage, received>>

\* The unbuffered channel: a goroutine must be free.
Dispatch(j) ==
  /\ loop = "dispatch" /\ j \in batch.left
  /\ Cardinality(handlers) < Goroutines
  /\ batch' = [batch EXCEPT !.left = @ \ {j}]
  /\ handlers' = handlers \cup {j}
  /\ loop' = IF batch'.left # {} THEN "dispatch"
             ELSE IF batch.more THEN "cooldown" ELSE "wait"
  /\ UNCHANGED <<jobs, notices, listener, tick, outcomes, stage, faults, received, failed>>

\* The context ends during the hand-over: the job in hand is handed back, and
\* the rest of the batch is left to its leases.
HandBack(j) ==
  /\ loop = "dispatch" /\ j \in batch.left /\ stage = "cancelled"
  /\ jobs' = [jobs EXCEPT ![j] = "available"]
  /\ batch' = [batch EXCEPT !.left = {}]
  /\ loop' = "stopped"
  /\ UNCHANGED <<notices, listener, tick, handlers, outcomes, stage, faults, received, failed>>

CooldownEnds ==
  /\ loop = "cooldown" /\ ~Stopping
  /\ loop' = "claim"
  /\ UNCHANGED <<jobs, notices, listener, tick, batch, handlers, outcomes, stage,
                 faults, received, failed>>

\* Mutant: the loop waits for notifications alone.
PolledNever == loop = "wait" /\ tick /\ FALSE /\ UNCHANGED vars

Polled ==
  /\ loop = "wait" /\ tick
  /\ tick' = FALSE
  /\ loop' = "claim"
  /\ UNCHANGED <<jobs, notices, listener, batch, handlers, outcomes, stage, faults, received, failed>>

Woken ==
  /\ loop = "wait" /\ wakeUp
  /\ wakeUp' = FALSE
  /\ loop' = "claim"
  /\ UNCHANGED <<jobs, notices, conn, inbox, tick, batch, handlers, outcomes, stage,
                 faults, received, failed>>

\* Every select of the loop but the hand-over's looks at draining and the context.
LoopEnds ==
  /\ loop \in {"claim", "cooldown", "wait"} /\ Stopping
  /\ loop' = "stopped"
  /\ UNCHANGED <<jobs, notices, listener, tick, batch, handlers, outcomes, stage,
                 faults, received, failed>>

\* An outcome is dropped rather than waited with.
Publish ==
  events' = IF recorder = "recording" /\ events < EventBuffer THEN events + 1 ELSE events

\* A goroutine gives its job an outcome and publishes it.
Finish(j) ==
  /\ j \in handlers
  /\ handlers' = handlers \ {j}
  /\ Publish
  /\ \/ jobs' = [jobs EXCEPT ![j] = "final"] /\ UNCHANGED faults
     \/ jobs' = [jobs EXCEPT ![j] = "retryable"] /\ Fault
  /\ UNCHANGED <<notices, listener, tick, loop, batch, recorder, stage, received, failed>>

-----------------------------------------------------------------------------
(* recordJobOutcomes, and the shutdown.                                    *)

Subscribe ==
  /\ recorder = "new"
  /\ recorder' = "recording"
  /\ UNCHANGED <<jobs, notices, listener, tick, loop, batch, handlers, events, stage,
                 faults, received, failed>>

Record ==
  /\ recorder = "recording" /\ events > 0
  /\ events' = events - 1
  /\ UNCHANGED <<jobs, notices, listener, tick, loop, batch, handlers, recorder, stage,
                 faults, received, failed>>

\* The select takes the end of the context, also when outcomes are waiting.
RecorderEnds ==
  /\ recorder # "ended" /\ stage = "cancelled"
  /\ recorder' = "ended"
  /\ UNCHANGED <<jobs, notices, listener, tick, loop, batch, handlers, events, stage,
                 faults, received, failed>>

Stop ==
  /\ stage = "up"
  /\ stage' = "draining"
  /\ UNCHANGED <<jobs, notices, listener, tick, pool, faults, received, failed>>

Cancel ==
  /\ stage = "draining"
  /\ stage' = "cancelled"
  /\ UNCHANGED <<jobs, notices, listener, tick, pool, faults, received, failed>>

Init ==
  /\ jobs = [j \in Jobs |-> "absent"]
  /\ notices = {} /\ inbox = {} /\ handlers = {} /\ received = {}
  /\ conn = "connecting"
  /\ wakeUp = FALSE /\ tick = FALSE /\ failed = FALSE
  /\ loop = "claim"
  /\ batch = [left |-> {}, more |-> FALSE]
  /\ recorder = "new" /\ events = 0
  /\ stage = "up"
  /\ faults = 0

Next ==
  \/ \E j \in Jobs : \/ Commit(j) \/ Notify(j) \/ LockElsewhere(j) \/ UnlockElsewhere(j)
                     \/ Schedule(j) \/ Receive(j) \/ Dispatch(j) \/ HandBack(j) \/ Finish(j)
  \/ PollTick
  \/ Listen \/ Disconnect \/ WakeAndSleep \/ Reconnect \/ ListenerStops
  \/ Claim \/ ClaimFails \/ CooldownEnds \/ Polled \/ Woken \/ LoopEnds
  \/ Subscribe \/ Record \/ RecorderEnds
  \/ Stop \/ Cancel

Spec == Init /\ [][Next]_vars

-----------------------------------------------------------------------------
(***************************************************************************)
(* The one-place wake-up channel loses nothing: while the loop waits with  *)
(* no token in the channel, after a claim that worked, no job is available *)
(* whose notification the listener has read.  Tokens coalesce, the loop is *)
(* busy claiming and handing over when they come, and batches leave rows   *)
(* behind; none of it makes a notified job wait for the poll.              *)
(***************************************************************************)
NoLostWakeup == loop = "wait" /\ ~wakeUp /\ ~failed => received = {}

(***************************************************************************)
(* What the comment on the drain order says of queue-metrics: it drains    *)
(* the pool's events after the pool, so the last outcome is recorded.      *)
(***************************************************************************)
LastOutcomeRecorded == recorder = "ended" => events = 0

(***************************************************************************)
(* Fairness: the ticker fires, the loop and the goroutines run, the        *)
(* scheduler runs, and other processes finish their transactions.  None is *)
(* assumed of notifications, of the listener or of the recorder.           *)
(***************************************************************************)
Fairness ==
  /\ WF_vars(PollTick)
  /\ WF_vars(Claim \/ CooldownEnds \/ Polled \/ Woken \/ LoopEnds
             \/ \E j \in Jobs : Dispatch(j))
  /\ \A j \in Jobs : WF_vars(Finish(j)) /\ WF_vars(Schedule(j)) /\ WF_vars(UnlockElsewhere(j))

FairSpec == Spec /\ Fairness

(***************************************************************************)
(* The poll is the guarantee: a job that is available gets an outcome,     *)
(* here or in another process, although its notification is lost, the      *)
(* listener never connects again, a claim fails, nobody was ever told of   *)
(* its retry, or the recorder of outcomes is stuck and its channel full;   *)
(* unless this process is shut down.                                       *)
(***************************************************************************)
PickedUp ==
  \A j \in Jobs :
    jobs[j] = "available" ~> (jobs[j] \in {"retryable", "final"} \/ Stopping)
=============================================================================
