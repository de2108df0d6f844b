SPECIFICATION FairSpec
CONSTANTS
  j1 = j1  j2 = j2  w1 = w1  w2 = w2
  Jobs = {j1}
  Workers = {w1, w2}
  NoWorker = NoWorker
  MaxAttempts <- TwoAttempts
  Ceiling <- LowerOnW1
  UniqueKey <- OwnKeys
  ClaimBatch = 1
  MaxClaims = 3
  MinUp = 1
PROPERTIES FinalRowsPurged
CHECK_DEADLOCK FALSE
