SPECIFICATION HistorySpec
CONSTANTS
  j1 = j1  j2 = j2  w1 = w1  w2 = w2
  Jobs = {j1, j2}
  Workers = {w1}
  NoWorker = NoWorker
  MaxAttempts <- TwoAttempts
  Ceiling <- FleetOfTwo
  UniqueKey <- OwnKeys
  ClaimBatch = 2
  MaxClaims = 2
  MinUp = 1
  Goroutines = 2
  Timely = TRUE
INVARIANTS EntryHasOwner  
 
SYMMETRY AnyJobOrder
CHECK_DEADLOCK FALSE
