SPECIFICATION FairSpec
CONSTANTS
  w1 = w1
  w2 = w2
  Fd = {1, 2}
  Worker = {w1, w2}
  Impatient = FALSE
  MaxConns = 4
  MaxRequests = 5
  Listen = Listen
  Notify = Notify
CHECK_DEADLOCK FALSE
INVARIANTS
  RightConnection
  ArmedIffPending
  OneReplyInFlight
PROPERTY
  OwnRepliesDrained
