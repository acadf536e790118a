SPECIFICATION Spec
CONSTANTS
  s1 = s1
  s2 = s2
  s3 = s3
  f1 = f1
  f2 = f2
  f3 = f3
  short = short
  long = long
  mixed = mixed
  NoSess = NoSess
  NoName = NoName
  Bucket <- MCBucket
  Overlay <- MCOverlay
  Sess = {s1, s2, s3}
  Fd = {f1, f2, f3}
  Name = {short, mixed}
  Frames = {"auth", "autherr", "awakeerr", "ping", "forward", "badframe"}
  OneAuth = TRUE
  Pipelined = FALSE
  SendFails = FALSE
SYMMETRY Symmetry
INVARIANTS RegisteredOpen Reachable PollSetOpen NoUseAfterFree
