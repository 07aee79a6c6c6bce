SPECIFICATION FairSpec
CONSTANTS
  t1 = t1
  t2 = t2
  u1 = u1
  u2 = u2
  p1 = p1
  p2 = p2
  s1 = s1
  None = None
  Terminal = {t1, t2}
  User = {u1}
  Password = {p1, p2}
  Salt = {s1}
  Conn <- TwoConns
  MaxDialogues = 2
  MaxCommands = 2
  MaxTimeouts = 1
  Timely = TRUE
CHECK_DEADLOCK FALSE
INVARIANT
  SessionAgrees
PROPERTIES
  AccountKept
  LoggedOutOnlyByLogin
  SessionResumes
  
