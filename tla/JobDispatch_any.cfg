SPECIFICATION DispatchFairSpec
CONSTANTS
  d1 = d1
  d2 = d2
  j1 = j1
  j2 = j2
  j3 = j3
  NoDevice = NoDevice
  NoJob = NoJob
  Device = {d1}
  Job = {j1, j2, j3}
  Freq = 1
  Normal = {d1}
  WriteZero = FALSE
  BadJob = {j3}
  MaxLink = 2
  MaxFaults = 1
CHECK_DEADLOCK FALSE
INVARIANTS AtMostOnce SomeoneMoves
PROPERTIES JobsLeave
