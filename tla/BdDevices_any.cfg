SPECIFICATION FairSpec
CONSTANTS
  d1 = d1
  d2 = d2
  j1 = j1
  j2 = j2
  NoDevice = NoDevice
  NoJob = NoJob
  Device = {d1, d2}
  Job = {j1, j2}
  Freq = 3
  Normal = {d1}
  WriteZero = TRUE
CHECK_DEADLOCK FALSE
INVARIANTS OneList NoOverwrite
PROPERTIES FrequencyKept
PROPERTIES ComesBack
