SPECIFICATION FairSpec
CONSTANTS
  t1 = t1
  t2 = t2
  x = x
  y = y
  m1 = m1
  m2 = m2
  Terminal = {t1, t2}
  Name = {x}
  MD5 = {m1, m2}
  Blocks = 2
  UP_TASK_NUM = 3
  Upload = {1, 2}
  MaxCommands = 3
  MaxDrops = 1
  Ahead = 1
  Apart = TRUE
CHECK_DEADLOCK FALSE
INVARIANT
  RowHasContent
PROPERTY
  
  UploadEnds
