SPECIFICATION FairSpec
CONSTANTS
  b1 = b1
  b2 = b2
  Box = {b1, b2}
  WarnTime <- Times
  Sec = 2
  SendFails = TRUE
INVARIANTS TypeOK OneRecord RecordAgrees ViewAgrees
PROPERTIES NoFalseAlarm SilenceNoted
