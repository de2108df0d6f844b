SPECIFICATION FairSpec
CONSTANTS
  Environ <- Environment
  Files <- Contents
  CommandLines <- Starts
INVARIANTS RunningSound
PROPERTIES EditApplied
CHECK_DEADLOCK FALSE
