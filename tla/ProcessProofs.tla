---------------------------- MODULE ProcessProofs ----------------------------
(***************************************************************************)
(* Proofs about one process: the safety of its life (Lifecycle) for every  *)
(* table of workers, and of its configuration (Reload, here R) for every   *)
(* file, environment and command line.                                     *)
(***************************************************************************)
EXTENDS Lifecycle, Configuration, TLAPS

\* What the drain has gone through: the part of the table before its turn.
Progress ==
  /\ stopped = {w \in Stoppable : \E i \in 1..(turn - 1) : Table[i] = w}
  /\ pc = "stop" => turn <= Len(Table) /\ Table[turn] \in Stoppable
  /\ pc \in {"wait", "report", "return", "returned"} => turn = Len(Table) + 1
  /\ cancelled => pc \in {"wait", "report", "return", "returned"}

\* A failure on its way from the goroutine that had it to the failure set.
Recorded ==
  /\ \A w \in Workers : run[w] \in {"failing", "recorded"} => w \in failed
  /\ \A w \in failed : /\ run[w] # "running"
                       /\ run[w] # "failing" => err # None
  /\ err \in Workers => err \in failed

\* What is known at the end of the drain.
Ending ==
  /\ pc \in {"report", "return", "returned"} /\ drainErr = None =>
       \A w \in Workers : run[w] = "gone"
  /\ pc \in {"return", "returned"} /\ drainErr # None => err # None
  /\ pc = "returned" => result = err

Inv == TypeOK /\ Progress /\ Recorded /\ Ending

\* A worker of the table has a place in it.
LEMMA TableFacts ==
  /\ Len(Table) \in Nat
  /\ \A i \in 1..Len(Table) : Table[i] \in Workers
  /\ \A w \in Workers : \E i \in 1..Len(Table) : Table[i] = w
BY LifecycleAssumption

\* It holds when the process starts.
LEMMA InitInv == Init => Inv
<1> SUFFICES ASSUME Init PROVE Inv
  OBVIOUS
<1>1. TypeOK
  <2>1. turn \in 1..(Len(Table) + 1)
    BY TableFacts DEF Init
  <2>2. signalled \in BOOLEAN /\ cancelled \in BOOLEAN /\ expired \in BOOLEAN /\ fired \in BOOLEAN
    BY DEF Init
  <2>3. run \in [Workers -> {"running", "failing", "recorded", "leaving", "gone"}]
    BY DEF Init
  <2> QED
    BY <2>1, <2>2, <2>3, Zenon DEF Init, TypeOK
<1>2. Progress
  BY DEF Init, Progress
<1>3. Recorded
  BY LifecycleAssumption DEF Init, Recorded
<1>4. Ending
  BY DEF Init, Ending
<1> QED
  BY <1>1, <1>2, <1>3, <1>4 DEF Inv

\* A goroutine's steps keep the invariant: none of them is done before its
\* failure is recorded.
LEMMA GoroutineInv ==
  ASSUME Inv, pc # "returned", NEW w \in Workers,
         RunReturns(w) \/ RunFails(w) \/ RecordFailure(w) \/ Fire(w) \/ Leave(w)
  PROVE  Inv'
<1> USE LifecycleAssumption, TableFacts DEF Goes, main, contexts, failures
<1>1. TypeOK'
  <2>1. run' \in [Workers -> {"running", "failing", "recorded", "leaving", "gone"}]
    <3>1. PICK to \in {"failing", "recorded", "leaving", "gone"} : run' = [run EXCEPT ![w] = to]
      BY DEF RunReturns, RunFails, RecordFailure, Fire, Leave
    <3> QED
      BY <3>1 DEF Inv, TypeOK
  <2>2. err' \in Workers \cup {None, Drain} /\ failed' \subseteq Workers
    BY DEF Inv, TypeOK, RunReturns, RunFails, RecordFailure, Fire, Leave, Keep
  <2>3. fired' \in BOOLEAN
    BY DEF Inv, TypeOK, RunReturns, RunFails, RecordFailure, Fire, Leave
  <2>4. UNCHANGED <<pc, turn, drainErr, result, stopped, signalled, cancelled, expired>>
    BY DEF RunReturns, RunFails, RecordFailure, Fire, Leave
  <2> QED
    BY <2>1, <2>2, <2>3, <2>4 DEF Inv, TypeOK
<1>2. Progress'
  <2>1. UNCHANGED <<pc, turn, stopped, cancelled>>
    BY DEF RunReturns, RunFails, RecordFailure, Fire, Leave
  <2> QED
    BY <2>1 DEF Inv, Progress
<1>3. Recorded'
  <2>1. CASE RunReturns(w)
    BY <2>1 DEF Inv, TypeOK, Recorded, RunReturns
  <2>2. CASE RunFails(w)
    BY <2>2 DEF Inv, TypeOK, Recorded, RunFails
  <2>3. CASE RecordFailure(w)
    BY <2>3 DEF Inv, TypeOK, Recorded, RecordFailure, Keep
  <2>4. CASE Fire(w)
    BY <2>4 DEF Inv, TypeOK, Recorded, Fire
  <2>5. CASE Leave(w)
    BY <2>5 DEF Inv, TypeOK, Recorded, Leave
  <2> QED
    BY <2>1, <2>2, <2>3, <2>4, <2>5
<1>4. Ending'
  BY DEF Inv, TypeOK, Ending, RunReturns, RunFails, RecordFailure, Fire, Leave, Keep
<1> QED
  BY <1>1, <1>2, <1>3, <1>4 DEF Inv

\* The contexts end when they may: the run context is left alone.
LEMMA ContextInv == Inv /\ (Signal \/ Expire) => Inv'
<1> SUFFICES ASSUME Inv, Signal \/ Expire PROVE Inv'
  OBVIOUS
<1> USE DEF main, failures
<1>1. TypeOK'
  <2>1. UNCHANGED <<pc, turn, drainErr, result, stopped, run, err, fired, failed, cancelled>>
    BY DEF Signal, Expire
  <2>2. signalled' \in BOOLEAN /\ expired' \in BOOLEAN
    BY Zenon DEF Inv, TypeOK, Signal, Expire
  <2> QED
    BY <2>1, <2>2 DEF Inv, TypeOK
<1>2. Progress'
  BY DEF Inv, Progress, Signal, Expire
<1>3. Recorded'
  BY DEF Inv, Recorded, Signal, Expire
<1>4. Ending'
  BY DEF Inv, Ending, Signal, Expire
<1> QED
  BY <1>1, <1>2, <1>3, <1>4 DEF Inv

\* The loop over the table advances one entry at a time.
LEMMA LoopInv == Inv /\ (DrainBegins \/ Skip \/ CallStop \/ StopReturns \/ Cancel) => Inv'
<1> SUFFICES ASSUME Inv, DrainBegins \/ Skip \/ CallStop \/ StopReturns \/ Cancel
             PROVE  Inv'
  OBVIOUS
<1> USE LifecycleAssumption, TableFacts DEF At, contexts, failures
<1>1. TypeOK'
  <2>1. CASE DrainBegins
    BY <2>1 DEF Inv, TypeOK, DrainBegins
  <2>2. CASE Skip
    <3>0. turn \in 1..(Len(Table) + 1) /\ turn <= Len(Table) /\ turn' = turn + 1
      BY <2>2 DEF Inv, TypeOK, Skip
    <3>1. turn' \in 1..(Len(Table) + 1)
      BY <3>0
    <3>2. UNCHANGED <<pc, drainErr, result, stopped, signalled, cancelled, expired, run,
                      err, fired, failed>>
      BY <2>2 DEF Skip
    <3> QED
      BY <3>1, <3>2 DEF Inv, TypeOK
  <2>3. CASE CallStop
    BY <2>3 DEF Inv, TypeOK, CallStop
  <2>4. CASE StopReturns
    <3>0. turn \in 1..(Len(Table) + 1) /\ turn <= Len(Table) /\ turn' = turn + 1
      BY <2>4 DEF Inv, TypeOK, Progress, StopReturns
    <3>1. turn' \in 1..(Len(Table) + 1)
      BY <3>0
    <3>2. stopped' \subseteq Stoppable /\ drainErr' \in {None, Drain}
      BY <2>4 DEF Inv, TypeOK, Progress, StopReturns
    <3>3. pc' = "drain" /\ UNCHANGED <<result, signalled, cancelled, expired, run, err, fired, failed>>
      BY <2>4 DEF StopReturns
    <3> QED
      BY <3>1, <3>2, <3>3 DEF Inv, TypeOK
  <2>5. CASE Cancel
    BY <2>5 DEF Inv, TypeOK, Cancel
  <2> QED
    BY <2>1, <2>2, <2>3, <2>4, <2>5
<1>2. Progress'
  <2>1. CASE DrainBegins
    BY <2>1 DEF Inv, TypeOK, Progress, DrainBegins
  <2>2. CASE Skip
    <3>0. turn \in 1..(Len(Table) + 1) /\ turn' = turn + 1
      BY <2>2 DEF Inv, TypeOK, Skip
    <3>1. 1..(turn' - 1) = 1..(turn - 1) \cup {turn}
      BY <3>0
    <3>2. \A w \in Stoppable : (\E i \in 1..(turn' - 1) : Table[i] = w)
                                 <=> (\E i \in 1..(turn - 1) : Table[i] = w)
      <4>1. Table[turn] \notin Stoppable
        BY <2>2 DEF Skip
      <4> QED
        BY <3>1, <4>1, Zenon
    <3>3. stopped' = {w \in Stoppable : \E i \in 1..(turn' - 1) : Table[i] = w}
      BY <2>2, <3>2 DEF Inv, Progress, Skip
    <3> QED
      BY <2>2, <3>3 DEF Inv, Progress, Skip
  <2>3. CASE CallStop
    BY <2>3 DEF Inv, TypeOK, Progress, CallStop
  <2>4. CASE StopReturns
    <3>0. turn \in 1..(Len(Table) + 1) /\ turn' = turn + 1
      BY <2>4 DEF Inv, TypeOK, StopReturns
    <3>1. 1..(turn' - 1) = 1..(turn - 1) \cup {turn}
      BY <3>0
    <3>2. stopped' = {w \in Stoppable : \E i \in 1..(turn' - 1) : Table[i] = w}
      BY <2>4, <3>1 DEF Inv, Progress, StopReturns
    <3> QED
      BY <2>4, <3>1, <3>2 DEF Inv, Progress, StopReturns
  <2>5. CASE Cancel
    BY <2>5 DEF Inv, TypeOK, Progress, Cancel
  <2> QED
    BY <2>1, <2>2, <2>3, <2>4, <2>5
<1>3. Recorded'
  BY DEF Inv, Recorded, DrainBegins, Skip, CallStop, StopReturns, Cancel
<1>4. Ending'
  BY DEF Inv, Ending, DrainBegins, Skip, CallStop, StopReturns, Cancel
<1> QED
  BY <1>1, <1>2, <1>3, <1>4 DEF Inv

\* The end of the drain.
LEMMA EndInv == Inv /\ (AllGone \/ TimesOut \/ Report \/ Return) => Inv'
<1> SUFFICES ASSUME Inv, AllGone \/ TimesOut \/ Report \/ Return
             PROVE  Inv'
  OBVIOUS
<1> USE LifecycleAssumption DEF At, contexts, failures
<1>1. TypeOK'
  <2>1. /\ err' \in Workers \cup {None, Drain} /\ drainErr' \in {None, Drain}
        /\ result' \in Workers \cup {None, Drain}
    BY DEF Inv, TypeOK, AllGone, TimesOut, Report, Return, Keep
  <2>2. fired' \in BOOLEAN
    BY DEF Inv, TypeOK, AllGone, TimesOut, Report, Return
  <2>3. pc' \in {"report", "return", "returned"}
    BY DEF AllGone, TimesOut, Report, Return
  <2>4. UNCHANGED <<turn, stopped, signalled, cancelled, expired, run, failed>>
    BY DEF AllGone, TimesOut, Report, Return
  <2> QED
    BY <2>1, <2>2, <2>3, <2>4 DEF Inv, TypeOK
<1>2. Progress'
  BY DEF Inv, Progress, AllGone, TimesOut, Report, Return
<1>3. Recorded'
  <2>1. CASE Report
    BY <2>1 DEF Inv, TypeOK, Recorded, Report, Keep
  <2>2. CASE AllGone \/ TimesOut \/ Return
    BY <2>2 DEF Inv, Recorded, AllGone, TimesOut, Return
  <2> QED
    BY <2>1, <2>2
<1>4. Ending'
  BY DEF Inv, TypeOK, Ending, AllGone, TimesOut, Report, Return, Keep
<1> QED
  BY <1>1, <1>2, <1>3, <1>4 DEF Inv

\* Every step keeps it.
LEMMA NextInv == Inv /\ [Next]_vars => Inv'
<1> SUFFICES ASSUME Inv, [Next]_vars
             PROVE  Inv'
  OBVIOUS
<1>1. CASE UNCHANGED vars
  BY <1>1 DEF Inv, TypeOK, Progress, Recorded, Ending, vars, main, contexts, failures
<1>2. CASE Next
  BY <1>2, GoroutineInv, ContextInv, LoopInv, EndInv DEF Next, RunWorkers
<1> QED
  BY <1>1, <1>2

\* So it holds in every state.
LEMMA Invariance == Spec => []Inv
BY InitInv, NextInv, PTL DEF Spec

(***************************************************************************)
(* The type invariant, for every table.                                    *)
(***************************************************************************)
THEOREM TypeCorrect == Spec => []TypeOK
BY Invariance, PTL DEF Inv

(***************************************************************************)
(* runWorkers returns nil only if no worker failed, no Stop did and every  *)
(* goroutine is gone, however failures, Stops and the deadline interleave. *)
(***************************************************************************)
THEOREM CleanExitCorrect == Spec => []CleanExit
<1>1. Inv => CleanExit
  BY LifecycleAssumption DEF Inv, TypeOK, Recorded, Ending, CleanExit
<1> QED
  BY <1>1, Invariance, PTL

(***************************************************************************)
(* drain cancels the run context only after every Stop of the table has    *)
(* returned.                                                               *)
(***************************************************************************)
THEOREM GracefulFirst == Spec => []StopsBeforeCancel
<1>1. Inv => StopsBeforeCancel
  BY LifecycleAssumption, TableFacts DEF Inv, TypeOK, Progress, StopsBeforeCancel
<1> QED
  BY <1>1, Invariance, PTL

-----------------------------------------------------------------------------
(* The configuration of the process.                                       *)

R == INSTANCE Reload

(***************************************************************************)
(* The defaults are a configuration.                                       *)
(***************************************************************************)
LEMMA DefaultsType == R!Defaults \in R!Configs
BY DEF R!Defaults, R!Configs, R!Keys

(***************************************************************************)
(* What Load makes of a file and a command line is a configuration, over   *)
(* which the flags may be replayed without effect.                         *)
(***************************************************************************)
LEMMA LoadKeepsFlags ==
  ASSUME NEW f \in Files, NEW l \in CommandLines
  PROVE  R!Load(f, l) \in R!Configs /\ R!LoadFlags(l, R!Load(f, l)) = R!Load(f, l)
<1>1. R!LoadFile(f, R!Defaults) \in R!Configs
  BY DefaultsType, ReloadAssumption DEF R!LoadFile, R!Over, R!Configs
<1>2. R!LoadEnv(R!LoadFile(f, R!Defaults)) \in R!Configs
  BY <1>1, ReloadAssumption DEF R!LoadEnv, R!Over, R!Configs
<1>3. R!Load(f, l) \in R!Configs
  BY <1>2, ReloadAssumption DEF R!Load, R!LoadFlags, R!FlagOverrides, R!Over, R!Configs
<1>4. R!LoadFlags(l, R!Load(f, l)) = R!Load(f, l)
  BY DEF R!Load, R!LoadFlags, R!Over
<1> QED
  BY <1>3, <1>4

(***************************************************************************)
(* Every rule of Validate relates keys that are all hot or all load-time,  *)
(* so the merge of two valid configurations is valid: applyHot's second    *)
(* validation refuses nothing.                                             *)
(***************************************************************************)
LEMMA MergeStaysValid ==
  ASSUME NEW old \in R!Configs, NEW new \in R!Configs, R!Validate(old), R!Validate(new)
  PROVE  R!ApplyHot(old, new) \in R!Configs /\ R!Validate(R!ApplyHot(old, new))
BY DEF R!ApplyHot, R!Validate, R!ValidateLogging, R!ValidateQueue, R!ValidateWebhook,
       R!ValidateBreaker, R!ValidateAcrossSections, R!Configs, R!Keys, R!IsHot, R!EphemeralPort, R!Levels

(***************************************************************************)
(* Replaying the flags changes nothing in the merge of two configurations  *)
(* in which it changes nothing.                                            *)
(***************************************************************************)
LEMMA MergeKeepsFlags ==
  ASSUME NEW old \in R!Configs, NEW new \in R!Configs, NEW l,
         R!LoadFlags(l, old) = old, R!LoadFlags(l, new) = new
  PROVE  R!LoadFlags(l, R!ApplyHot(old, new)) = R!ApplyHot(old, new)
<1> SUFFICES ASSUME NEW k \in R!Keys
             PROVE  R!LoadFlags(l, R!ApplyHot(old, new))[k] = R!ApplyHot(old, new)[k]
  BY DEF R!LoadFlags, R!Over, R!ApplyHot
<1>1. R!LoadFlags(l, old)[k] = old[k] /\ R!LoadFlags(l, new)[k] = new[k]
  OBVIOUS
<1> QED
  BY <1>1 DEF R!LoadFlags, R!Over, R!ApplyHot

\* What the reloader has read is as sound as what runs.
ReloadInv ==
  /\ file \in Files /\ flags \in CommandLines
  /\ boot \in R!Configs /\ cfg \in R!Configs /\ next \in R!Configs
  /\ R!Validate(next) /\ R!LoadFlags(flags, next) = next
  /\ R!RunningSound

(***************************************************************************)
(* The invariant is inductive: only Edit, ReadConfig and Publish touch     *)
(* what it is about.                                                       *)
(***************************************************************************)
LEMMA ReloadInductive ==
  ASSUME ReloadInv, [R!Next]_(R!vars)
  PROVE  ReloadInv'
<1>1. CASE R!Edit
  BY <1>1 DEF R!Edit, ReloadInv, R!RunningSound, R!process
<1>2. CASE R!ReadConfig
  <2>1. /\ R!Load(file, flags) \in R!Configs
        /\ R!LoadFlags(flags, R!Load(file, flags)) = R!Load(file, flags)
    BY LoadKeepsFlags DEF ReloadInv
  <2>2. next' \in R!Configs /\ R!Validate(next') /\ R!LoadFlags(flags, next') = next'
    BY <1>2, <2>1 DEF R!ReadConfig, ReloadInv, R!RunningSound
  <2>3. UNCHANGED <<file, flags, boot, cfg>>
    BY <1>2 DEF R!ReadConfig, R!process
  <2> QED
    BY <2>2, <2>3 DEF ReloadInv, R!RunningSound
<1>3. CASE R!Publish
  <2>1. cfg' = R!ApplyHot(cfg, next) \/ cfg' = cfg
    BY <1>3 DEF R!Publish
  <2>2. R!ApplyHot(cfg, next) \in R!Configs /\ R!Validate(R!ApplyHot(cfg, next))
    BY MergeStaysValid DEF ReloadInv, R!RunningSound
  <2>3. R!LoadFlags(flags, R!ApplyHot(cfg, next)) = R!ApplyHot(cfg, next)
    BY MergeKeepsFlags DEF ReloadInv, R!RunningSound
  <2>4. \A k \in R!Keys : ~R!IsHot(k) => R!ApplyHot(cfg, next)[k] = cfg[k]
    BY DEF R!ApplyHot
  <2>5. UNCHANGED <<file, flags, boot, next>>
    BY <1>3 DEF R!Publish, R!process
  <2> QED
    BY <2>1, <2>2, <2>3, <2>4, <2>5 DEF ReloadInv, R!RunningSound
<1>4. CASE R!Sighup \/ R!SetLevel \/ R!Take \/ R!ApplyLevel \/ R!Shutdown \/ UNCHANGED R!vars
  BY <1>4 DEF R!Sighup, R!SetLevel, R!Take, R!ApplyLevel, R!Shutdown, R!vars,
              R!process, ReloadInv, R!RunningSound
<1> QED
  BY <1>1, <1>2, <1>3, <1>4 DEF R!Next

(***************************************************************************)
(* ReloadInv holds in every state.                                         *)
(***************************************************************************)
LEMMA ReloadInvariance == R!Spec => []ReloadInv
<1>1. R!Init => ReloadInv
  BY LoadKeepsFlags DEF R!Init, ReloadInv, R!RunningSound
<1>2. ReloadInv /\ [R!Next]_(R!vars) => ReloadInv'
  BY ReloadInductive
<1> QED
  BY <1>1, <1>2, PTL DEF R!Spec

(***************************************************************************)
(* RunningSound is the same formula in Configuration and in Reload, which  *)
(* extends it.                                                             *)
(***************************************************************************)
LEMMA SameConfiguration == R!RunningSound => RunningSound
<1>1. R!Keys = Keys /\ R!Levels = Levels
  BY DEF R!Keys, Keys, R!Levels, Levels
<1>2. R!Validate(cfg) => Validate(cfg)
  BY <1>1 DEF R!Validate, Validate, R!ValidateLogging, ValidateLogging, R!ValidateQueue,
              ValidateQueue, R!ValidateWebhook, ValidateWebhook, R!ValidateBreaker,
              ValidateBreaker, R!ValidateAcrossSections, ValidateAcrossSections,
              R!EphemeralPort, EphemeralPort
<1>3. R!LoadFlags(flags, cfg) = LoadFlags(flags, cfg)
  BY <1>1 DEF R!LoadFlags, LoadFlags, R!FlagOverrides, FlagOverrides, R!Over, Over
<1>4. \A k \in Keys : R!IsHot(k) <=> IsHot(k)
  BY DEF R!IsHot, IsHot
<1> QED
  BY <1>1, <1>2, <1>3, <1>4 DEF R!RunningSound, RunningSound

(***************************************************************************)
(* However often the file is edited and the process told to reload, what   *)
(* it runs with is valid, keeps its load-time keys and its flags.          *)
(***************************************************************************)
THEOREM ReloadSound == R!Spec => []RunningSound
<1>1. ReloadInv => RunningSound
  BY SameConfiguration DEF ReloadInv
<1> QED
  BY <1>1, ReloadInvariance, PTL

(***************************************************************************)
(* The refusal "invalid after merge" cannot happen.                        *)
(***************************************************************************)
THEOREM MergeNeverRefused == R!Spec => [](R!Validate(R!ApplyHot(cfg, next)))
<1>1. ReloadInv => R!Validate(R!ApplyHot(cfg, next))
  BY MergeStaysValid DEF ReloadInv, R!RunningSound
<1> QED
  BY <1>1, ReloadInvariance, PTL
=============================================================================
