------------------------------ MODULE MCReload ------------------------------
(* Instances of Reload for TLC.                                            *)
EXTENDS Reload, TLC

None == [k \in {} |-> 0]
Yaml(keys) == [kind |-> "yaml", keys |-> keys]

\* The environment names one key and holds one typing error.
Environment == ("logging.level" :> 2) @@ ("http.addrr" :> 9)

\* No file, a file that does not parse, an empty (truncated) one, one with an
\* unknown key, one out of range, hot keys valid only together, the same keys
\* in conflict, and hot with load-time keys.
Contents ==
  { [kind |-> "missing", keys |-> None], [kind |-> "unreadable", keys |-> None],
    Yaml(None), Yaml("queue.worker" :> 2), Yaml("queue.workers" :> 0),
    Yaml(("webhook.timeout" :> 2) @@ ("breaker.webhook.open_duration" :> 2)),
    Yaml("webhook.timeout" :> 2),
    Yaml(("http.addr" :> 3) @@ ("queue.workers" :> 2)),
    Yaml(("queue.lease" :> 6) @@ ("queue.heartbeat_interval" :> 2) @@ ("logging.level" :> 4)) }

\* Nothing; -v with --queue.workers; both a level and -v; --set.
Starts ==
  { [paths |-> None, shorthand |-> 0, set |-> None],
    [paths |-> ("queue.workers" :> 3), shorthand |-> 4, set |-> None],
    [paths |-> ("logging.level" :> 1), shorthand |-> 5, set |-> None],
    [paths |-> None, shorthand |-> 0, set |-> ("webhook.timeout" :> 1)] }
=============================================================================
