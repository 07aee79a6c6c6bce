SPECIFICATION Spec
CONSTANTS
  f1 = f1
  f2 = f2
  f3 = f3
  f4 = f4
  f5 = f5
  Fd <- Numbers
  Down = {1, 2}
  Up = {3}
  AVG_CLIENT_NUM = 1
  UP_TASK_NUM = 2
  MAX_CONNECT_NUM = 1
  MaxBacklog = 1
  Listen = Listen
  None = None
SYMMETRY Symmetry
INVARIANTS
  BusyExact
  SlotAlwaysFound
  OneOwner
  SumExact
  
PROPERTY
  OnlyIdleClosed
