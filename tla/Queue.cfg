SPECIFICATION FairSpec
CONSTANTS
  j1 = j1  j2 = j2  w1 = w1  w2 = w2
  Jobs = {j1, j2}
  Workers = {w1, w2}
  NoWorker = NoWorker
  MaxAttempts <- TwoAttempts
  Ceiling <- LowerOnW1
  UniqueKey <- SharedKey
  ClaimBatch = 1
  MaxClaims = 2
  MinUp = 1
INVARIANTS TypeOK LeaseIffRunning ErrorHistory AttemptBudget FencedByAttempt OneLiveJobPerKey
PROPERTIES ImplementsLifecycle CrashedJobReclaimed EndedRowsPurged
CHECK_DEADLOCK FALSE
