SPECIFICATION Spec
CONSTANTS
  j1 = j1  j2 = j2  w1 = w1  w2 = w2
  Jobs = {j1, j2}
  Workers = {w1}
  NoWorker = NoWorker
  MaxAttempts <- TwoAttempts
  Ceiling <- FleetOfTwo
  UniqueKey <- OwnKeys
  ClaimBatch = 2
  MaxClaims = 1
  MinUp = 0
  Goroutines = 1
  Timely = TRUE
PROPERTIES NoLiveClaimReaped
CHECK_DEADLOCK FALSE
