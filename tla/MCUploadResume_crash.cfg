SPECIFICATION FairSpec
CONSTANTS
  c1 = c1
  c2 = c2
  p1 = p1
  p2 = p2
  w1 = w1
  w2 = w2
  f1 = f1
  f2 = f2
  f3 = f3
  Client <- OneClient
  Path <- OnePath
  PathOf <- PathOfOne
  Blocks = 3
  UseMmap = TRUE
  Worker = {w1, w2}
  Fd = {1, 2}
  MaxDrops = 2
  MaxCrashes = 1
  MaxOverlap = 1
  Apart = FALSE
  None = None
CHECK_DEADLOCK FALSE
INVARIANTS
  CheckpointHonest
PROPERTIES
  
  EventuallyIndexed
