---------------------------- MODULE MCLifecycle ----------------------------
(* An instance of Lifecycle for TLC: four kinds of worker of the table.    *)
EXTENDS Lifecycle

CONSTANTS api, jobs, maintenance, tracing

DrainTable == <<api, jobs, maintenance, tracing>>
=============================================================================
