SPECIFICATION FairSpec
CONSTANTS
  api = api  jobs = jobs  maintenance = maintenance  tracing = tracing
  Workers = {api, jobs, maintenance, tracing}
  Table <- DrainTable
  Stoppable = {api, jobs, tracing}
  None = None  Drain = Drain
INVARIANTS CleanExit StopsBeforeCancel
PROPERTIES ShutdownEnds
CHECK_DEADLOCK FALSE
