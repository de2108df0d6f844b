-------------------------------- MODULE Pool --------------------------------
(***************************************************************************)
(* The worker pool of each process, thread by thread: the claim loop, the  *)
(* worker goroutines, the heartbeat, and the drain that ends them.  They   *)
(* share the inflight map and the jobs table; every lock, statement and    *)
(* channel operation that another thread can see is a step of its own.     *)
(*                                                                         *)
(* Pool refines Queue: the claims a process works under are the ones in    *)
(* its claim loop and in its goroutines.                                   *)
(***************************************************************************)
EXTENDS JobTable

CONSTANTS
  MinUp,                  \* bound: how many processes neither stop nor crash
  Goroutines,             \* queue.workers
  Timely                  \* whether time is kind to a process (see Environment)

ASSUME PoolAssumption ==
  /\ IsFiniteSet(Jobs) /\ IsFiniteSet(Workers)
  /\ Goroutines \in Nat \ {0}
  /\ MinUp \in Nat
  /\ Timely \in BOOLEAN

VARIABLES
  phase,     \* how far the process is in its life and its drain
  loop,      \* the claim loop: pc, claims still to dispatch, claim in hand
  inflight,  \* the inflight map: a job's entry, with its cancel function
  runs,      \* the jobs in the worker goroutines
  beat,      \* the heartbeat's snapshot while its statement is under way
  release    \* Stop's snapshot while its statement is under way

vars == <<rows, handedBack, phase, loop, inflight, runs, beat, release>>

(***************************************************************************)
(* The life of a process: "running"; "draining", Stop waits for the map to *)
(* empty; "releasing", its deadline passed; "stopped", Stop returned;      *)
(* "cancelled", the drain cancelled the run context; "exited", all threads *)
(* had ended; "dead", a crash, or the drain deadline cut threads short.    *)
(***************************************************************************)
Phases == {"running", "draining", "releasing", "stopped", "cancelled",
           "exited", "dead"}

Gone(w) == phase[w] \in {"exited", "dead"}

\* An entry of the map: none, one without a cancel function, or one with the
\* cancel function of the run of a claim.
Entries == [tracked : BOOLEAN, cancel : SUBSET Claims]
Entry(cancel) == [tracked |-> TRUE, cancel |-> cancel]
Absent == [tracked |-> FALSE, cancel |-> {}]

Snapshots == [ids : SUBSET Jobs, cancels : SUBSET Claims]
NoSnapshot == [ids |-> {}, cancels |-> {}]

Snapshot(w) ==
  [ids     |-> {j \in Jobs : inflight[w][j].tracked},
   cancels |-> UNION {inflight[w][j].cancel : j \in Jobs}]

\* The claim loop between batches, in a statement, or dispatching.
LoopAt(pc, batch, hand) == [pc |-> pc, batch |-> batch, hand |-> hand]
Idle    == LoopAt("idle", {}, {})
Stopped == LoopAt("done", {}, {})

Run(e, pc, cancelled) == [claim |-> e, pc |-> pc, cancelled |-> cancelled]

\* The claims a process works under: Queue's held.
Held(w) == loop[w].batch \cup loop[w].hand
             \cup {r.claim : r \in {s \in runs[w] : s.pc # "written"}}

AllHeld == UNION {Held(w) : w \in Workers}

\* The processes that are alive: Queue's up.
Up == {w \in Workers : ~Gone(w)}

Q == INSTANCE Queue WITH held <- AllHeld, up <- Up

\* cancel() of every run a snapshot names; of a run that ended it does nothing.
Cancelled(w, cancels) ==
  {IF r.claim \in cancels THEN [r EXCEPT !.cancelled = TRUE] ELSE r : r \in runs[w]}

-----------------------------------------------------------------------------
(* The claim loop.                                                         *)

\* Mutant: claimBatch does not look at ctx and draining.
ClaimBeginBlindly(w) ==
  /\ ~Gone(w) /\ loop[w] = Idle
  /\ loop' = [loop EXCEPT ![w] = LoopAt("claiming", {}, {})]
  /\ UNCHANGED <<table, phase, inflight, runs, beat, release>>

\* claimBatch finds neither the context nor draining closed.
ClaimBegin(w) ==
  /\ phase[w] = "running" /\ loop[w] = Idle
  /\ loop' = [loop EXCEPT ![w] = LoopAt("claiming", {}, {})]
  /\ UNCHANGED <<table, phase, inflight, runs, beat, release>>

\* The statement commits.
ClaimCommit(w, S) ==
  /\ loop[w].pc = "claiming"
  /\ loop' = [loop EXCEPT ![w] = LoopAt("track", {NewClaim(w, j) : j \in S}, {})]
  /\ UNCHANGED <<phase, inflight, runs, beat, release>>
  /\ TakeRows(w, S)

\* Nothing to claim, or an error before the commit.
ClaimNothing(w) ==
  /\ loop[w].pc = "claiming"
  /\ loop' = [loop EXCEPT ![w] = Idle]
  /\ UNCHANGED <<table, phase, inflight, runs, beat, release>>

\* An error after the commit: a lost connection, a cancelled context.
ClaimLost(w, S) ==
  /\ loop[w].pc = "claiming"
  /\ loop' = [loop EXCEPT ![w] = Idle]
  /\ UNCHANGED <<phase, inflight, runs, beat, release>>
  /\ TakeRows(w, S)

\* Mutant: not registered before the handler starts.
TrackNextLater(w, e) ==
  /\ loop[w].pc = "track" /\ e \in loop[w].batch
  /\ loop' = [loop EXCEPT ![w] = LoopAt("send", @.batch \ {e}, {e})]
  /\ UNCHANGED <<table, phase, inflight, runs, beat, release>>

\* Mutant: the claim in hand also stays in the batch.
TrackNextTwice(w, e) ==
  /\ loop[w].pc = "track" /\ e \in loop[w].batch
  /\ loop' = [loop EXCEPT ![w] = LoopAt("send", @.batch, {e})]
  /\ inflight' = [inflight EXCEPT ![w][e.job] = Entry({})]
  /\ UNCHANGED <<table, phase, runs, beat, release>>

\* track(j.ID, nil): registered before the hand-off.
TrackNext(w, e) ==
  /\ loop[w].pc = "track" /\ e \in loop[w].batch
  /\ loop' = [loop EXCEPT ![w] = LoopAt("send", @.batch \ {e}, {e})]
  /\ inflight' = [inflight EXCEPT ![w][e.job] = Entry({})]
  /\ UNCHANGED <<table, phase, runs, beat, release>>

\* jobs <- j: the channel has no buffer, a goroutine must be free.
Send(w) ==
  /\ loop[w].pc = "send"
  /\ Cardinality(runs[w]) < Goroutines
  /\ runs' = [runs EXCEPT ![w] = @ \cup {Run(e, "received", phase[w] = "cancelled") :
                                             e \in loop[w].hand}]
  /\ loop' = [loop EXCEPT ![w] = IF @.batch = {} THEN Idle
                                 ELSE LoopAt("track", @.batch, {})]
  /\ UNCHANGED <<table, phase, inflight, beat, release>>

\* ctx.Done instead: the job in hand leaves the map.
SendCancelled(w) ==
  /\ loop[w].pc = "send" /\ phase[w] = "cancelled"
  /\ loop' = [loop EXCEPT ![w].pc = "handback"]
  /\ inflight' = [inflight EXCEPT ![w] =
                     [j \in Jobs |-> IF \E e \in loop[w].hand : e.job = j
                                     THEN Absent ELSE @[j]]]
  /\ UNCHANGED <<table, phase, runs, beat, release>>

\* It is released, and the rest of the batch is dropped; an error of the
\* release is ignored.
HandBack(w) ==
  /\ loop[w].pc = "handback"
  /\ loop' = [loop EXCEPT ![w] = Stopped]
  /\ UNCHANGED <<phase, inflight, runs, beat, release>>
  /\ ReleaseRows(w, {e.job : e \in loop[w].hand}) \/ UNCHANGED table

\* Between two batches the loop sees that the pool drains or is cancelled.
LoopEnds(w) ==
  /\ loop[w] = Idle /\ phase[w] # "running" /\ ~Gone(w)
  /\ loop' = [loop EXCEPT ![w] = Stopped]
  /\ UNCHANGED <<table, phase, inflight, runs, beat, release>>

-----------------------------------------------------------------------------
(* A worker goroutine.                                                     *)

SetRun(w, r, pc) == runs' = [runs EXCEPT ![w] = (@ \ {r}) \cup {[r EXCEPT !.pc = pc]}]

\* Mutant: untrack is called where it should be deferred.
StartUntracked(w, r) ==
  /\ r \in runs[w] /\ r.pc = "received"
  /\ SetRun(w, r, "handling")
  /\ inflight' = [inflight EXCEPT ![w][r.claim.job] = Absent]
  /\ UNCHANGED <<table, phase, loop, beat, release>>

\* track(j.ID, cancel) replaces the placeholder; the handler is called.
Start(w, r) ==
  /\ r \in runs[w] /\ r.pc = "received"
  /\ SetRun(w, r, "handling")
  /\ inflight' = [inflight EXCEPT ![w][r.claim.job] = Entry({r.claim})]
  /\ UNCHANGED <<table, phase, loop, beat, release>>

\* What finish writes for each kind of error, or the write fails.
Write(e) == \/ WriteSucceed(e) \/ WriteSnooze(e) \/ WriteCancel(e)
            \/ WriteDiscard(e) \/ WriteRetry(e) \/ UNCHANGED table

\* The handler returns, of itself or because its context ended, and finish
\* writes what the error implies.
Finish(w, r) ==
  /\ r \in runs[w] /\ r.pc = "handling"
  /\ SetRun(w, r, "written")
  /\ UNCHANGED <<phase, loop, inflight, beat, release>>
  /\ Write(r.claim)

\* Mutant: the entry stays behind.
UntrackNothing(w, r) ==
  /\ r \in runs[w] /\ r.pc = "written"
  /\ runs' = [runs EXCEPT ![w] = @ \ {r}]
  /\ UNCHANGED <<table, phase, loop, inflight, beat, release>>

\* The deferred untrack deletes the job's entry, whoever put it there.
Untrack(w, r) ==
  /\ r \in runs[w] /\ r.pc = "written"
  /\ runs' = [runs EXCEPT ![w] = @ \ {r}]
  /\ inflight' = [inflight EXCEPT ![w][r.claim.job] = Absent]
  /\ UNCHANGED <<table, phase, loop, beat, release>>

-----------------------------------------------------------------------------
(* The heartbeat.                                                          *)

BeatBegin(w) ==
  /\ phase[w] \notin {"cancelled", "exited", "dead"}
  /\ beat[w] = NoSnapshot /\ Snapshot(w).ids # {}
  /\ beat' = [beat EXCEPT ![w] = Snapshot(w)]
  /\ UNCHANGED <<table, phase, loop, inflight, runs, release>>

Shortfall(w) == \E j \in beat[w].ids : ~LockedBy(rows[j], w)

\* The statement runs; on a shortfall every run of the snapshot is cancelled.
Beat(w) ==
  /\ beat[w] # NoSnapshot
  /\ beat' = [beat EXCEPT ![w] = NoSnapshot]
  /\ runs' = [runs EXCEPT ![w] = IF Shortfall(w)
                                 THEN Cancelled(w, beat[w].cancels) ELSE @]
  /\ UNCHANGED <<phase, loop, inflight, release>>
  /\ RenewRows(w, beat[w].ids)

\* An error: the statement may have committed all the same.
BeatFails(w) ==
  /\ beat[w] # NoSnapshot
  /\ beat' = [beat EXCEPT ![w] = NoSnapshot]
  /\ UNCHANGED <<phase, loop, inflight, runs, release>>
  /\ UNCHANGED table \/ RenewRows(w, beat[w].ids)

-----------------------------------------------------------------------------
(* Stop, and the drain of the process around it.                           *)

SetPhase(w, from, to) == phase[w] = from /\ phase' = [phase EXCEPT ![w] = to]

\* MinUp other processes are running.
Spare(w) == Cardinality({v \in Workers \ {w} : phase[v] = "running"}) >= MinUp

StopBegin(w) ==
  /\ Spare(w)
  /\ SetPhase(w, "running", "draining")
  /\ UNCHANGED <<table, loop, inflight, runs, beat, release>>

StopReturns(w) ==
  /\ Snapshot(w).ids = {}
  /\ SetPhase(w, "draining", "stopped")
  /\ UNCHANGED <<table, loop, inflight, runs, beat, release>>

\* The drain deadline passes while jobs are in flight.
ReleaseBegin(w) ==
  /\ Snapshot(w).ids # {}
  /\ SetPhase(w, "draining", "releasing")
  /\ release' = [release EXCEPT ![w] = Snapshot(w)]
  /\ UNCHANGED <<table, loop, inflight, runs, beat>>

\* Release before cancelling; the handlers are cancelled either way.
ReleaseEnds(w) ==
  /\ SetPhase(w, "releasing", "stopped")
  /\ release' = [release EXCEPT ![w] = NoSnapshot]
  /\ runs' = [runs EXCEPT ![w] = Cancelled(w, release[w].cancels)]
  /\ UNCHANGED <<loop, inflight, beat>>

Release(w) == ReleaseEnds(w) /\ ReleaseRows(w, release[w].ids)

ReleaseFails(w) == ReleaseEnds(w) /\ UNCHANGED table

\* cancel(): every handler's context ends.
CancelRunContext(w) ==
  /\ SetPhase(w, "stopped", "cancelled")
  /\ runs' = [runs EXCEPT ![w] = {[r EXCEPT !.cancelled = TRUE] : r \in @}]
  /\ UNCHANGED <<table, loop, inflight, beat, release>>

Ends(w, how) ==
  /\ phase' = [phase EXCEPT ![w] = how]
  /\ loop' = [loop EXCEPT ![w] = Stopped]
  /\ runs' = [runs EXCEPT ![w] = {}]
  /\ inflight' = [inflight EXCEPT ![w] = [j \in Jobs |-> Absent]]
  /\ beat' = [beat EXCEPT ![w] = NoSnapshot]
  /\ release' = [release EXCEPT ![w] = NoSnapshot]
  /\ UNCHANGED table

\* Run returned: the loop, the goroutines and the heartbeat have ended.
Exit(w) ==
  /\ phase[w] = "cancelled" /\ loop[w] = Stopped
  /\ runs[w] = {} /\ beat[w] = NoSnapshot
  /\ Ends(w, "exited")

Crash(w) == ~Gone(w) /\ Spare(w) /\ Ends(w, "dead")

-----------------------------------------------------------------------------
(* Everything else that changes the table.                                 *)

Maintain(w) ==
  /\ UNCHANGED <<phase, loop, inflight, runs, beat, release>>
  /\ phase[w] \notin {"cancelled", "exited", "dead"}
  /\ ScheduleRows \/ ReapRows(w) \/ PurgeRows

(***************************************************************************)
(* Timely assumes of time what the configuration is meant to give.  Three  *)
(* beats fit into a lease (config.Queue.Validate), so while no three beats *)
(* in a row fail, the leases of the jobs in the map, and of a claim that   *)
(* is just about to enter it, do not lapse.  And a backoff or a snooze is  *)
(* longer than a goroutine needs from writing an outcome to its untrack.   *)
(***************************************************************************)
Renewed(j) ==
  \E w \in Workers :
    /\ LockedBy(rows[j], w)
    /\ phase[w] \notin {"cancelled", "exited", "dead"}
    /\ \/ inflight[w][j].tracked
       \/ loop[w].pc = "track" /\ \E e \in loop[w].batch : e.job = j

Unwinding(j) ==
  \E w \in Workers : \E r \in runs[w] : r.pc = "written" /\ r.claim.job = j

Environment(j) ==
  /\ UNCHANGED <<phase, loop, inflight, runs, beat, release>>
  /\ \/ Insert(j) \/ RowAges(j)
     \/ (Timely => ~Unwinding(j)) /\ RowComesDue(j)
     \/ (Timely => ~Renewed(j)) /\ RowLapses(j)

-----------------------------------------------------------------------------

Init ==
  /\ InitTable
  /\ phase = [w \in Workers |-> "running"]
  /\ loop = [w \in Workers |-> Idle]
  /\ inflight = [w \in Workers |-> [j \in Jobs |-> Absent]]
  /\ runs = [w \in Workers |-> {}]
  /\ beat = [w \in Workers |-> NoSnapshot]
  /\ release = [w \in Workers |-> NoSnapshot]

ClaimLoop(w) ==
  \/ ClaimBegin(w) \/ ClaimNothing(w) \/ Send(w) \/ SendCancelled(w) \/ HandBack(w)
  \/ LoopEnds(w)
  \/ \E S \in SUBSET Jobs : ClaimCommit(w, S) \/ ClaimLost(w, S)
  \/ \E e \in loop[w].batch : TrackNext(w, e)

Goroutine(w) == \E r \in runs[w] : Start(w, r) \/ Finish(w, r) \/ Untrack(w, r)

HeartbeatLoop(w) == BeatBegin(w) \/ Beat(w) \/ BeatFails(w)

Drain(w) == StopBegin(w) \/ StopReturns(w) \/ ReleaseBegin(w) \/ Release(w)
              \/ ReleaseFails(w) \/ CancelRunContext(w) \/ Exit(w)

Next ==
  \/ \E w \in Workers : ClaimLoop(w) \/ Goroutine(w) \/ HeartbeatLoop(w)
                          \/ Drain(w) \/ Crash(w) \/ Maintain(w)
  \/ \E j \in Jobs : Environment(j)

Spec == Init /\ [][Next]_vars

-----------------------------------------------------------------------------

TypeOK ==
  /\ rows \in [Jobs -> Row]
  /\ handedBack \in [Workers -> SUBSET Jobs]
  /\ phase \in [Workers -> Phases]
  /\ inflight \in [Workers -> [Jobs -> Entries]]
  /\ \A w \in Workers :
       /\ loop[w].pc \in {"idle", "claiming", "track", "send", "handback", "done"}
       /\ loop[w].batch \subseteq Claims /\ loop[w].hand \subseteq Claims
       /\ runs[w] \subseteq [claim : Claims, cancelled : BOOLEAN,
                             pc : {"received", "handling", "written"}]
  /\ beat \in [Workers -> Snapshots]
  /\ release \in [Workers -> Snapshots]

(***************************************************************************)
(* The pools together behave as Queue says: whatever threads do to the     *)
(* batch, the channel and the map, the table sees claims that are taken    *)
(* once, finished at most once, and handed back or forgotten.              *)
(***************************************************************************)
ImplementsQueue == Q!Spec

(***************************************************************************)
(* No immortal lease: whatever the heartbeat renews has an owner, the job  *)
(* in the claim loop's hand or a run that has not ended.  An entry left    *)
(* behind would keep the reaper from a job nobody works on.                *)
(***************************************************************************)
EntryHasOwner ==
  \A w \in Workers : \A j \in Jobs :
    inflight[w][j].tracked =>
      \/ \E e \in loop[w].hand : e.job = j
      \/ \E r \in runs[w] : r.claim.job = j

\* The pools that still heartbeat what they run.
Beating(w) == phase[w] \in {"running", "draining"}

(***************************************************************************)
(* Work is never reclaimed from a process whose heartbeats are on time, as *)
(* the comment on reapSQL has it: the reaper takes no row whose claim such *)
(* a process still works under.  PoolTail says what is true instead.       *)
(***************************************************************************)
NoLiveClaimReaped ==
  [][\A v \in Workers : ReapRows(v) =>
       \A w \in Workers : \A e \in Held(w) :
         Beating(w) /\ ClaimGuard(rows[e.job], e) => ~Reapable(rows[e.job])]_vars

(***************************************************************************)
(* The heartbeat cancels only work nobody will accept: a run it cancels    *)
(* has lost its claim, so its outcome would be refused anyway.             *)
(***************************************************************************)
HealthyRunKept ==
  \A w \in Workers : \A r \in runs[w] :
    phase[w] \in {"running", "draining"} /\ r.pc = "handling" /\ r.cancelled
      => ~ClaimGuard(rows[r.claim.job], r.claim)

(***************************************************************************)
(* A completion write that matches a row is the write of the claim the row *)
(* runs under.                                                             *)
(***************************************************************************)
NoStaleOutcome ==
  \A w \in Workers : \A r \in runs[w] :
    r.pc = "handling" /\ ClaimGuard(rows[r.claim.job], r.claim)
      => r.claim.gen = rows[r.claim.job].gen

-----------------------------------------------------------------------------
(***************************************************************************)
(* Fairness: every thread of a live process runs; statements answer or     *)
(* fail; a claim that is tried for ever is not refused for ever; handlers  *)
(* return, at the latest at their job timeout; the clock and the leader's  *)
(* ticker go on.                                                           *)
(***************************************************************************)
Fairness ==
  /\ \A w \in Workers :
       /\ WF_vars(ClaimBegin(w) \/ Send(w) \/ SendCancelled(w) \/ HandBack(w) \/ LoopEnds(w))
       /\ SF_vars(\E S \in SUBSET Jobs : ClaimCommit(w, S))
       /\ WF_vars(ClaimNothing(w))
       /\ WF_vars(\E e \in loop[w].batch : TrackNext(w, e))
       /\ WF_vars(Goroutine(w))
       /\ WF_vars(Beat(w) \/ BeatFails(w))
       /\ WF_vars(StopReturns(w) \/ ReleaseBegin(w) \/ Release(w)
                    \/ ReleaseFails(w) \/ CancelRunContext(w) \/ Exit(w))
       /\ WF_vars(Maintain(w))
  /\ \A j \in Jobs : WF_vars(Environment(j))

FairSpec == Spec /\ Fairness

(***************************************************************************)
(* A drain comes to an end: the claim loop leaves the channel, handlers    *)
(* write their outcomes, and the process exits.                            *)
(***************************************************************************)
DrainEnds == \A w \in Workers : phase[w] = "draining" ~> Gone(w)

(***************************************************************************)
(* No job is lost while a process stays up: through lost answers, failed   *)
(* writes and stale heartbeats, a live job reaches a final state or goes   *)
(* round until the bound on claims is reached.                             *)
(***************************************************************************)
NoJobLost ==
  \A j \in Jobs :
    rows[j].state \in Live
      ~> rows[j].state \notin Live \/ rows[j].gen = MaxClaims

=============================================================================
