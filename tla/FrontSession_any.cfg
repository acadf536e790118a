SPECIFICATION FairSpec
CONSTANTS
  s1 = s1
  s2 = s2
  s3 = s3
  f1 = f1
  f2 = f2
  f3 = f3
  short = short
  long = long
  mixed = mixed
  NoSess = NoSess
  NoName = NoName
  Bucket <- MCBucket
  Overlay <- MCOverlay
  Sess = {s1, s2}
  Fd = {f1, f2}
  Name = {short}
  Frames = {"auth", "authshort", "awake", "autherr", "forward"}
  OneAuth = FALSE
  Pipelined = TRUE
  SendFails = TRUE
INVARIANTS TypeOK OneHome SlotOwner ReaderAllocated
CHECK_DEADLOCK FALSE
PROPERTY SilentReaped
