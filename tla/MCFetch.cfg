SPECIFICATION FairFetch
CONSTANTS
  v1 = v1
  v2 = v2
  v3 = v3
  Version = {v1, v2, v3}
  SizeOf <- Sizes
  ClientChunk = 2
  ServerChunk = 2
  Threshold = 4
  MaxTries = 3
  MaxChanges = 3
  Hole = Hole
  None = None
CHECK_DEADLOCK FALSE
INVARIANTS
  FetchedIsRemote
PROPERTY
  FetchEnds
