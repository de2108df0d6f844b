SPECIFICATION FairSpec
CONSTANTS
  t1 = t1  t2 = t2
  Requests = {r1, r2, r3}
  Tasks = {t1, t2}
  Keys = {k1}
  NoKey = NoKey
  Ops <- SomeOps
INVARIANTS EventPerChange TruthfulAnswers NotifiedIsVisible
PROPERTIES ImplementsAtomicWrites RequestAnswered
CHECK_DEADLOCK FALSE
