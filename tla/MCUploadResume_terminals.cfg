SPECIFICATION Spec
CONSTANTS
  c1 = c1
  c2 = c2
  p1 = p1
  p2 = p2
  w1 = w1
  w2 = w2
  f1 = f1
  f2 = f2
  f3 = f3
  Client <- TwoClients
  Path <- TwoPaths
  PathOf <- PathOfTwo
  Blocks = 2
  UseMmap = TRUE
  Worker = {w1, w2}
  Fd = {f1, f2, f3}
  MaxDrops = 1
  MaxCrashes = 0
  MaxOverlap = 1
  Apart = TRUE
  None = None
CHECK_DEADLOCK FALSE
SYMMETRY Symmetry
INVARIANT
  ToldOnlyIndexed
