--------------------------- MODULE Configuration ----------------------------
(***************************************************************************)
(* The configuration of a running process: what it is read from, where it  *)
(* is kept, and what must always hold of it.  Reload says how it changes.  *)
(***************************************************************************)
EXTENDS Settings

CONSTANTS
  Files,       \* what the file may be: records of a kind and the keys it sets
  CommandLines \* the command lines a process may be started with

ASSUME ReloadAssumption ==
  /\ \A k \in DOMAIN Environ : Environ[k] \in Nat
  /\ \A f \in Files : f.kind = "yaml" => \A k \in DOMAIN f.keys : f.keys[k] \in Nat
  /\ \A l \in CommandLines :
       /\ DOMAIN l.paths \subseteq Keys /\ DOMAIN l.set \subseteq Keys
       /\ \A k \in DOMAIN l.paths : l.paths[k] \in Nat
       /\ \A k \in DOMAIN l.set : l.set[k] \in Nat
       /\ l.shorthand \in Nat

VARIABLES
  file,      \* the configuration file
  flags,     \* the command line
  named,     \* whether a.configFile is set: a file was named or found
  boot,      \* the configuration the components were built from
  cfg,       \* a.cfg
  level,     \* the logger's LevelVar
  sighup,    \* whether the signal channel holds its one signal
  reloader,  \* "idle", "read", "apply", "level", "stopped"
  next,      \* what the reloader has read
  \* What the properties look back to:
  asked,     \* a SIGHUP was sent after the last edit
  put        \* the level was set by hand after the last change that was applied

-----------------------------------------------------------------------------
(***************************************************************************)
(* Whatever is in the file when the reloader reads it, half-written text   *)
(* included, the running configuration is valid, names the sockets that    *)
(* are open, and keeps every value that the command line gave: replaying   *)
(* the flags over it changes nothing.                                      *)
(***************************************************************************)
RunningSound ==
  /\ Validate(cfg)
  /\ \A k \in Keys : ~IsHot(k) => cfg[k] = boot[k]
  /\ LoadFlags(flags, cfg) = cfg
=============================================================================
