------------------------------ MODULE Lifecycle ------------------------------
(***************************************************************************)
(* The life of a process: runWorkers starts every worker of the table,     *)
(* waits for a signal or a failure, and drains.  Each worker is a          *)
(* goroutine that reports how its Run ended; the failure set and the wait  *)
(* group are what they share with the goroutine that drains.               *)
(***************************************************************************)
EXTENDS Naturals, Sequences

CONSTANTS
  Workers,     \* the long-lived goroutines
  Table,       \* their table, whose order is the drain order
  Stoppable,   \* those with a Stop
  None, Drain  \* no error; the error of the drain itself

ASSUME LifecycleAssumption ==
  /\ Table \in Seq(Workers) /\ \A w \in Workers : \E i \in 1..Len(Table) : Table[i] = w
  /\ Stoppable \subseteq Workers
  /\ None \notin Workers /\ Drain \notin Workers /\ None # Drain

VARIABLES
  pc,         \* where runWorkers is
  turn,       \* the table entry whose turn to stop it is
  drainErr,   \* drain's firstErr
  result,     \* what runWorkers returned
  stopped,    \* history: the workers whose Stop has returned
  signalled,  \* the parent context is done
  cancelled,  \* the run context is done
  expired,    \* the drain's context is done
  run,        \* where each worker's goroutine is
  err, fired, \* the failure set
  failed      \* history: the workers whose Run failed or panicked

main == <<pc, turn, drainErr, result, stopped>>
contexts == <<signalled, cancelled, expired>>
failures == <<err, fired, failed>>
vars == <<main, contexts, run, failures>>

Init ==
  /\ pc = "serving" /\ turn = 1 /\ drainErr = None /\ result = None /\ stopped = {}
  /\ signalled = FALSE /\ cancelled = FALSE /\ expired = FALSE
  /\ run = [w \in Workers |-> "running"]
  /\ err = None /\ fired = FALSE /\ failed = {}

\* failureSet.record keeps the first error.
Keep(e) == IF err = None THEN e ELSE err

-----------------------------------------------------------------------------
(* A worker's goroutine.                                                   *)

Goes(w, from, to) == run[w] = from /\ run' = [run EXCEPT ![w] = to]

\* Stop has been called on w.
Asked(w) == w \in stopped \/ (pc = "stop" /\ Table[turn] = w)

\* Run returns nil or the cancellation: it was told to, one way or the other.
RunReturns(w) ==
  /\ Goes(w, "running", "leaving") /\ (cancelled \/ Asked(w))
  /\ UNCHANGED <<main, contexts, failures>>

\* Run returns another error, or panics, at any time.
RunFails(w) ==
  /\ Goes(w, "running", "failing") /\ failed' = failed \cup {w}
  /\ UNCHANGED <<main, contexts, err, fired>>

\* The error is recorded under the mutex of the failure set ...
RecordFailure(w) ==
  /\ Goes(w, "failing", "recorded") /\ err' = Keep(w)
  /\ UNCHANGED <<main, contexts, fired, failed>>

\* ... and then, outside it, the channel is closed, once.
Fire(w) ==
  /\ Goes(w, "recorded", "leaving") /\ fired' = TRUE
  /\ UNCHANGED <<main, contexts, err, failed>>

\* wg.Done is the last thing that runs.
Leave(w) ==
  /\ Goes(w, "leaving", "gone")
  /\ UNCHANGED <<main, contexts, failures>>

-----------------------------------------------------------------------------
(* The signal, and the drain's deadline.                                   *)

\* Mutant: the run context is derived from the signal's.
SignalCancels ==
  /\ ~signalled /\ signalled' = TRUE /\ cancelled' = TRUE
  /\ UNCHANGED <<main, expired, run, failures>>

Signal ==
  /\ ~signalled /\ signalled' = TRUE
  /\ UNCHANGED <<main, cancelled, expired, run, failures>>

\* One deadline for the whole sequence.
Expire ==
  /\ pc \in {"drain", "stop", "wait"} /\ ~expired /\ expired' = TRUE
  /\ UNCHANGED <<main, signalled, cancelled, run, failures>>

-----------------------------------------------------------------------------
(* runWorkers and drain.                                                   *)

At(from, to) == pc = from /\ pc' = to

DrainBegins ==
  /\ At("serving", "drain") /\ (signalled \/ fired)
  /\ UNCHANGED <<turn, drainErr, result, stopped, contexts, run, failures>>

\* The loop over the table: an entry without a Stop is passed over.
Skip ==
  /\ pc = "drain" /\ turn <= Len(Table) /\ Table[turn] \notin Stoppable
  /\ turn' = turn + 1
  /\ UNCHANGED <<pc, drainErr, result, stopped, contexts, run, failures>>

CallStop ==
  /\ At("drain", "stop") /\ turn <= Len(Table) /\ Table[turn] \in Stoppable
  /\ UNCHANGED <<turn, drainErr, result, stopped, contexts, run, failures>>

\* The first error of a Stop is kept, and the loop goes on.
StopReturns ==
  /\ At("stop", "drain") /\ stopped' = stopped \cup {Table[turn]} /\ turn' = turn + 1
  /\ drainErr' \in {drainErr, Drain}
  /\ UNCHANGED <<result, contexts, run, failures>>

\* Everything that stops on its context alone stops here.
Cancel ==
  /\ At("drain", "wait") /\ turn > Len(Table) /\ cancelled' = TRUE
  /\ UNCHANGED <<turn, drainErr, result, stopped, signalled, expired, run, failures>>

\* Mutant: a goroutine is done before its failure is recorded.
AllGoneEarly ==
  /\ At("wait", "report") /\ \A w \in Workers : run[w] # "running"
  /\ UNCHANGED <<turn, drainErr, result, stopped, contexts, run, failures>>

\* wg.Wait has returned ...
AllGone ==
  /\ At("wait", "report") /\ \A w \in Workers : run[w] = "gone"
  /\ UNCHANGED <<turn, drainErr, result, stopped, contexts, run, failures>>

\* Mutant: the drain waits for the goroutines, whatever its deadline.
TimesOutGone ==
  /\ At("wait", "report") /\ expired /\ drainErr' = Drain
  /\ \A w \in Workers : run[w] = "gone"
  /\ UNCHANGED <<turn, result, stopped, contexts, run, failures>>

\* ... or the deadline has passed.
TimesOut ==
  /\ At("wait", "report") /\ expired /\ drainErr' = Drain
  /\ UNCHANGED <<turn, result, stopped, contexts, run, failures>>

\* drain's error, if any, joins the failure set, after those of the workers.
Report ==
  /\ At("report", "return")
  /\ IF drainErr = None THEN UNCHANGED err ELSE err' = Keep(drainErr)
  /\ fired' = (fired \/ drainErr # None)
  /\ UNCHANGED <<turn, drainErr, result, stopped, contexts, run, failed>>

\* The first error recorded is what the process ends with.
Return ==
  /\ At("return", "returned") /\ result' = err
  /\ UNCHANGED <<turn, drainErr, stopped, contexts, run, failures>>

-----------------------------------------------------------------------------

RunWorkers ==
  \/ DrainBegins \/ Skip \/ CallStop \/ StopReturns \/ Cancel
  \/ AllGone \/ TimesOut \/ Report \/ Return

\* The process ends with runWorkers.
Next ==
  /\ pc # "returned"
  /\ \/ \E w \in Workers : \/ RunReturns(w) \/ RunFails(w) \/ RecordFailure(w)
                             \/ Fire(w) \/ Leave(w)
     \/ Signal \/ Expire \/ RunWorkers

Spec == Init /\ [][Next]_vars

\* Every Stop returns by the deadline, which passes.  A Run may never return.
FairSpec ==
  /\ Spec /\ WF_vars(RunWorkers) /\ WF_vars(Expire)
  /\ \A w \in Workers : WF_vars(pc # "returned" /\ (RecordFailure(w) \/ Fire(w) \/ Leave(w)))

-----------------------------------------------------------------------------

TypeOK ==
  /\ pc \in {"serving", "drain", "stop", "wait", "report", "return", "returned"}
  /\ turn \in 1..(Len(Table) + 1)
  /\ signalled \in BOOLEAN /\ cancelled \in BOOLEAN /\ expired \in BOOLEAN
  /\ run \in [Workers -> {"running", "failing", "recorded", "leaving", "gone"}]
  /\ err \in Workers \cup {None, Drain} /\ fired \in BOOLEAN
  /\ drainErr \in {None, Drain} /\ result \in Workers \cup {None, Drain}
  /\ failed \subseteq Workers /\ stopped \subseteq Stoppable

(***************************************************************************)
(* A process that ends without an error had none: no worker failed, not    *)
(* even while it was draining, every Stop succeeded and every goroutine    *)
(* is gone.  One that ends with a worker's error names one that failed.    *)
(***************************************************************************)
CleanExit ==
  pc = "returned" =>
    /\ result = None =>
         failed = {} /\ drainErr = None /\ \A w \in Workers : run[w] = "gone"
    /\ result \in Workers => result \in failed

(***************************************************************************)
(* Graceful first: when the run context is cancelled, every worker that    *)
(* has a Stop was given its turn, whatever failed and whoever signalled.   *)
(***************************************************************************)
StopsBeforeCancel == cancelled => stopped = Stoppable

(***************************************************************************)
(* A signal or a failure of any worker ends the process, though some       *)
(* workers ignore their context, and a failure is not forgotten.           *)
(***************************************************************************)
ShutdownEnds == (signalled \/ failed # {}) ~> pc = "returned"

=============================================================================
