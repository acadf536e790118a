SPECIFICATION Spec
CONSTANTS
  s1 = s1
  s2 = s2
  s3 = s3
  t1 = t1
  t2 = t2
  n1 = n1
  n2 = n2
  NoSess = NoSess
  NoName = NoName
  NoTask = NoTask
  Dangling = Dangling
  Sess = {s1, s2}
  Name = {n1}
  Task = {t1, t2}
  UnsubLast = FALSE
  OneAuth = TRUE
  Pipelined = FALSE
  SendFails = {}
CHECK_DEADLOCK FALSE
INVARIANTS SubsMatchTable
