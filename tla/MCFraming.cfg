SPECIFICATION FairFraming
CONSTANTS
  Shape <- Shapes
  FieldLimit = 3
  RecvMax = 4
  MaxMessages = 3
CHECK_DEADLOCK FALSE
INVARIANTS
  DecodedIsSent
PROPERTY
  EveryMessageRead
