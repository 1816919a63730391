SPECIFICATION Spec
CONSTANTS
  t1 = t1
  t2 = t2
  Threads = {t1, t2}
  NoThread = NoThread
  MaxHandlers = 4
  MaxRaises = 4
  MaxDepth = 3
INVARIANTS
  TypeOK
  ListsSafe
  NeverCalledAfter
PROPERTIES
  AllCalled
  RaiseEnds
CHECK_DEADLOCK FALSE
