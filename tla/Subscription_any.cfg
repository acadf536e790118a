SPECIFICATION Spec
CONSTANTS
  s1 = s1
  s2 = s2
  s3 = s3
  t1 = t1
  t2 = t2
  n1 = n1
  n2 = n2
  NoSess = NoSess
  NoName = NoName
  NoTask = NoTask
  Dangling = Dangling
  Sess = {s1, s2, s3}
  Name = {n1, n2}
  Task = {t1, t2}
  UnsubLast = TRUE
  OneAuth = TRUE
  Pipelined = FALSE
  SendFails = {"answer", "publish"}
SYMMETRY Symmetry
CHECK_DEADLOCK FALSE
INVARIANTS TypeOK SubsMatchTable
INVARIANT NoUseAfterFree
PROPERTY PromiseKept
