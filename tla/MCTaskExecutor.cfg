SPECIFICATION FairSpec
CONSTANTS
  w1 = w1
  w2 = w2
  w3 = w3
  t1 = t1
  t2 = t2
  t3 = t3
  Worker = {w1, w2, w3}
  Task = {t1, t2, t3}
  NoTask = NoTask
  MaxSpurious = 2
CHECK_DEADLOCK FALSE
INVARIANTS
  WorkConserving
  NoSleeperAtJoin
PROPERTIES
  PoolSpec
  ExecutorProgress
