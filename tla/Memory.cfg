SPECIFICATION Spec
CONSTANTS
  r1 = r1  r2 = r2  r3 = r3  k1 = k1
  Requests = {r1, r2, r3}
  Tasks = {1, 2, 3}
  Keys = {k1}
  NoKey = NoKey
  Ops <- SomeOps
  MaxTime = 2
  PageSize = 1
  Slow = FALSE
SYMMETRY AnyOrder
CHECK_DEADLOCK FALSE
INVARIANTS TruthfulAnswers KeyHasOwner WalkComplete
PROPERTIES ImplementsAtomicWrites
