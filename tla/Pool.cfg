SPECIFICATION FairSpec
CONSTANTS
  j1 = j1  j2 = j2  w1 = w1  w2 = w2
  Jobs = {j1}
  Workers = {w1, w2}
  NoWorker = NoWorker
  MaxAttempts <- TwoAttempts
  Ceiling <- FleetOfTwo
  UniqueKey <- OwnKeys
  ClaimBatch = 1
  MaxClaims = 2
  MinUp = 1
  Goroutines = 2
  Timely = TRUE
PROPERTIES ImplementsQueue DrainEnds NoJobLost
CHECK_DEADLOCK FALSE
