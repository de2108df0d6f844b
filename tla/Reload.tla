------------------------------- MODULE Reload -------------------------------
(***************************************************************************)
(* A running process and its configuration: the operator edits the file    *)
(* and sends SIGHUP, the reloader reads, checks, merges and publishes, and *)
(* the admin listener moves the log level.  Components are built from the  *)
(* configuration the process starts with.                                  *)
(***************************************************************************)
EXTENDS Configuration

vars == <<file, flags, named, boot, cfg, level, sighup, reloader, next, asked, put>>
process == <<flags, named, boot>>

-----------------------------------------------------------------------------
(* The operator.                                                           *)

\* An edit, and every half-written state of one: contents are a set of keys.
Edit ==
  /\ \E f \in Files \ {file} : file' = f
  /\ asked' = FALSE
  /\ UNCHANGED <<process, cfg, level, sighup, reloader, next, put>>

\* Mutant: nobody holds a signal that comes during a reload.
SighupUnbuffered ==
  /\ sighup' = (reloader = "idle" \/ sighup)
  /\ asked' = TRUE
  /\ UNCHANGED <<file, process, cfg, level, reloader, next, put>>

Sighup ==
  /\ sighup' = TRUE
  /\ asked' = TRUE
  /\ UNCHANGED <<file, process, cfg, level, reloader, next, put>>

\* PUT /debug/log-level: an unknown name is refused.
SetLevel ==
  /\ reloader # "stopped"
  /\ \E l \in Levels : level' = l
  /\ put' = TRUE
  /\ UNCHANGED <<file, process, cfg, sighup, reloader, next, asked>>

-----------------------------------------------------------------------------
(* runReloader.                                                            *)

Take ==
  /\ reloader = "idle" /\ sighup
  /\ sighup' = FALSE
  /\ reloader' = "read"
  /\ UNCHANGED <<file, process, cfg, level, next, asked, put>>

\* Mutant: the flags are not replayed.
ReadConfigFileOnly ==
  /\ reloader = "read"
  /\ LET loaded == LoadEnv(LoadFile(file, Defaults))
     IN  IF FileFails(file, named) \/ ~Validate(loaded)
         THEN reloader' = "idle" /\ next' = cfg
         ELSE reloader' = "apply" /\ next' = loaded
  /\ UNCHANGED <<file, process, cfg, level, sighup, asked, put>>

\* readConfig: the same merge as at the start, checked as a whole.
ReadConfig ==
  /\ reloader = "read"
  /\ LET loaded == Load(file, flags)
     IN  IF FileFails(file, named) \/ ~Validate(loaded)
         THEN reloader' = "idle" /\ next' = cfg
         ELSE reloader' = "apply" /\ next' = loaded
  /\ UNCHANGED <<file, process, cfg, level, sighup, asked, put>>

\* planReload and applyHot, up to the publication.  A merge that is not valid
\* is refused.
Publish ==
  /\ reloader = "apply"
  /\ LET merged == ApplyHot(cfg, next)
         apply  == Diff(cfg, next) # {} /\ Validate(merged)
     IN  /\ cfg' = IF apply THEN merged ELSE cfg
         /\ reloader' = IF apply THEN "level" ELSE "idle"
         /\ put' = (put /\ ~apply)
  /\ UNCHANGED <<file, process, level, sighup, next, asked>>

ApplyLevel ==
  /\ reloader = "level"
  /\ level' = cfg["logging.level"]
  /\ reloader' = "idle"
  /\ UNCHANGED <<file, process, cfg, sighup, next, asked, put>>

\* The context ends.
Shutdown ==
  /\ reloader = "idle"
  /\ reloader' = "stopped"
  /\ UNCHANGED <<file, process, cfg, level, sighup, next, asked, put>>

\* boot: a process that cannot load a valid configuration does not start.
Init ==
  /\ file \in Files /\ flags \in CommandLines
  /\ named \in {file.kind = "yaml", TRUE}
  /\ ~FileFails(file, named) /\ Validate(Load(file, flags))
  /\ boot = Load(file, flags) /\ cfg = boot /\ next = boot
  /\ level = boot["logging.level"]
  /\ sighup = FALSE /\ asked = FALSE /\ put = FALSE
  /\ reloader = "idle"

Next ==
  \/ Edit \/ Sighup \/ SetLevel
  \/ Take \/ ReadConfig \/ Publish \/ ApplyLevel \/ Shutdown

Spec == Init /\ [][Next]_vars

-----------------------------------------------------------------------------
(***************************************************************************)
(* What docs/plan.md says of the hot set: after a reload, each tunable is  *)
(* in use.  (The log level is the one that has a path to its user.)        *)
(***************************************************************************)
TunablesInForce ==
  reloader = "idle" =>
    \A k \in Keys \ {"logging.level"} : IsHot(k) => boot[k] = cfg[k]

\* The file is refused, or its hot part runs and the level follows unless it
\* was set by hand.
Settled ==
  \/ FileFails(file, named)
  \/ ~Validate(Load(file, flags))
  \/ LET loaded == Load(file, flags)
     IN  /\ \A k \in Keys : IsHot(k) => cfg[k] = loaded[k]
         /\ level = cfg["logging.level"] \/ put

(***************************************************************************)
(* Fairness: the reloader runs.                                            *)
(***************************************************************************)
FairSpec == Spec /\ WF_vars(Take \/ ReadConfig \/ Publish \/ ApplyLevel)

(***************************************************************************)
(* No SIGHUP is lost: when one is sent after the last edit, also while an  *)
(* earlier reload is under way, the whole hot part of a valid file comes   *)
(* to run, unless the process is shut down; tunables that are valid only   *)
(* together arrive together.                                               *)
(***************************************************************************)
EditApplied == asked ~> (Settled \/ ~asked \/ reloader = "stopped")
=============================================================================
