SPECIFICATION FairSpec
CONSTANTS
  t1 = t1
  t2 = t2
  t3 = t3
  Tasks = {t1, t2, t3}
  Intervals = {1, 2}
  MaxLate = 1
  NoTask = NoTask
  Infinite = Infinite
INVARIANTS
  TypeOK
  ListedOnce
  WakesForFirst
PROPERTY
  SchedulerLives
CHECK_DEADLOCK FALSE
