SPECIFICATION Spec
CONSTANTS
  u1 = u1
  u2 = u2
  t1 = t1
  t2 = t2
  a = a
  b = b
  n1 = n1
  User = {u1, u2}
  Term = {t1, t2}
  Content = {a, b}
  Mine <- Common
  Name = {n1}
  Depth = 2
  MaxLogins = 1
  MaxCommands = 5
  Dotdot = Dotdot
  Dir = Dir
  None = None
SYMMETRY Symmetry
CHECK_DEADLOCK FALSE
INVARIANTS
  SessionAgrees
  
  

  
