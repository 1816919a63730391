SPECIFICATION Spec
CONSTANTS
  t1 = t1
  t2 = t2
  t3 = t3
  Tasks = {t1, t2, t3}
  Intervals = {1, 3}
  MaxLate = 1
  NoTask = NoTask
  Infinite = Infinite
SYMMETRY TaskSymmetry
INVARIANT
  WakesForNextTask
CHECK_DEADLOCK FALSE
