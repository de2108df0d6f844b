------------------------------ MODULE Settings ------------------------------
(***************************************************************************)
(* The configuration: its keys, what makes one valid, the four layers it   *)
(* is merged from, and the part of it that a reload may change.  A value   *)
(* is a number: a duration, a count, a port, or a level's rank.  The keys  *)
(* stand for the groups that differ in what a reload and Validate do with  *)
(* them: hot or load-time, checked alone, with a key of the same section   *)
(* or with one of another section.                                         *)
(***************************************************************************)
EXTENDS Naturals

CONSTANTS Environ    \* what TASKAPI_* variables set, which includes typing errors

Keys == {"logging.level", "queue.workers", "webhook.timeout",
         "breaker.webhook.open_duration", "http.addr", "admin.addr",
         "queue.lease", "queue.heartbeat_interval"}

Levels  == 1..5      \* error, warn, info, debug, trace
Configs == [Keys -> Nat]

Defaults ==
  [k \in Keys |-> CASE k = "logging.level" -> 3
                    [] k = "http.addr"     -> 1
                    [] k = "admin.addr"    -> 2
                    [] k = "queue.lease"   -> 3
                    [] OTHER               -> 1]

\* Port 0 asks the kernel for a port.
EphemeralPort(addr) == addr = 0

\* Validate: each section's rules, and the rules that relate sections.
ValidateLogging(c) == c["logging.level"] \in Levels

ValidateQueue(c) ==
  /\ c["queue.workers"] >= 1
  /\ c["queue.lease"] > 0 /\ c["queue.heartbeat_interval"] > 0
  /\ c["queue.heartbeat_interval"] * 3 <= c["queue.lease"]

ValidateWebhook(c) == c["webhook.timeout"] > 0

ValidateBreaker(c) == c["breaker.webhook.open_duration"] > 0

ValidateAcrossSections(c) ==
  /\ c["admin.addr"] = c["http.addr"] => EphemeralPort(c["admin.addr"])
  /\ c["webhook.timeout"] <= c["breaker.webhook.open_duration"]

Validate(c) ==
  /\ ValidateLogging(c) /\ ValidateQueue(c)
  /\ ValidateWebhook(c) /\ ValidateBreaker(c)
  /\ ValidateAcrossSections(c)

-----------------------------------------------------------------------------
(* Load.  A layer sets some keys; what it does not know or set is passed by.*)

Over(layer, below) ==
  [k \in Keys |-> IF k \in DOMAIN layer THEN layer[k] ELSE below[k]]

\* What a command line is: the flags named after keys that the user set, the
\* shorthand for a level (0 is none), and the --set pairs.
FlagOverrides(flags) ==
  [k \in DOMAIN flags.set \cup (IF flags.shorthand # 0 /\ "logging.level" \notin DOMAIN flags.paths
                                THEN {"logging.level"} ELSE {})
     |-> IF k \in DOMAIN flags.set THEN flags.set[k] ELSE flags.shorthand]

LoadFlags(flags, below) == Over(FlagOverrides(flags), Over(flags.paths, below))

UnknownKeys(layer) == DOMAIN layer \ Keys

\* The file may be "missing", "unreadable" or contents.  A missing file is an
\* error only where one was named, or read at the start.
FileFails(file, named) ==
  IF file.kind = "yaml" THEN UnknownKeys(file.keys) # {}
  ELSE file.kind = "unreadable" \/ named

LoadFile(file, below) == IF file.kind = "yaml" THEN Over(file.keys, below) ELSE below

LoadEnv(below) == Over(Environ, below)

Load(file, flags) == LoadFlags(flags, LoadEnv(LoadFile(file, Defaults)))

-----------------------------------------------------------------------------
(* The hot set.                                                            *)

IsHot(k) == k \in {"logging.level", "queue.workers", "webhook.timeout",
                   "breaker.webhook.open_duration"}

\* The hot keys that differ.
Diff(old, next) == {k \in Keys : IsHot(k) /\ old[k] # next[k]}

ApplyHot(old, next) == [k \in Keys |-> IF IsHot(k) THEN next[k] ELSE old[k]]
=============================================================================
