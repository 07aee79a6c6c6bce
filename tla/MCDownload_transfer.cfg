SPECIFICATION FairSpec
CONSTANTS
  small = small
  large = large
  File = {small, large}
  Size <- Sizes
  Mapped = {large}
  TaskMax = 2
  AVG_CLIENT_NUM = 2
  Window = 2
  Conn = {1, 2, 3}
  MaxGets = 3
  MaxExits = 1
  Again = FALSE
  None = None
CHECK_DEADLOCK FALSE
INVARIANT
  RightFile
  
PROPERTY
  GetEnds
