SPECIFICATION FairSpec
CONSTANTS
  j1 = j1  j2 = j2
  Jobs = {j1, j2}
  ClaimBatch = 1
  Goroutines = 1
  EventBuffer = 1
  MaxFaults = 3
INVARIANTS NoLostWakeup
PROPERTIES PickedUp
CHECK_DEADLOCK FALSE
