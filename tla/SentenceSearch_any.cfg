SPECIFICATION Spec
CONSTANTS
  d1 = d1
  d2 = d2
  Device = {d1}
  Kinds <- KindsOf
  Text = {"fki"}
  HeadLen <- HeadLens
  Length <- Lengths_
  Claims = {1, 7, 11}
  Limit = 11
  Alone = TRUE
  MaxSent = 4
  MaxDamage = 1
CHECK_DEADLOCK FALSE
INVARIANTS TypeOK OnlyDamagedLost
