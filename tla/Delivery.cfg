SPECIFICATION FairSpec
CONSTANTS
  good = good  picky = picky  bad = bad
  Jobs = {good, picky, bad}
  Malformed = {bad}
  Rejected = {picky}
  MaxAttempts = 2
  MaxTries = 2
  Timeout = 1
  BudgetNum = 1  BudgetDen = 5
  MinConcurrency = 1
  BackoffBase = 1  BackoffMax = 2  Jitter = "full"
  RateNum = 1  RateDen = 2
  MinThroughput = 2
  OpenDuration = 2
  HalfOpenMaxCalls = 2
  HalfOpenSuccessThreshold = 1
  WindowCap = 3
INVARIANTS OwnFaultsDontTrip DiscardedWasTried RefusedOnce
PROPERTIES RecoveryDrains

