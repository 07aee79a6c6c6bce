SPECIFICATION Spec
CONSTANTS
  f1 = f1
  f2 = f2
  n1 = n1
  n2 = n2
  File <- OneFile
  NameOf <- JustOne
  FileSize = 3
  SECTION_NUM = 3
  SPOT_NUM = 2
  NM = 2
  Window = 1
  MaxGets = 2
  MaxExits = 1
  None = None
CHECK_DEADLOCK FALSE
INVARIANT
  RecordHonest
  
PROPERTY
  WholeWhenOver
