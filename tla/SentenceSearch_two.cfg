SPECIFICATION Spec
CONSTANTS
  d1 = d1
  d2 = d2
  Device = {d1, d2}
  Kinds <- KindsOf
  Text = {"fki"}
  HeadLen <- HeadLens
  Length <- Lengths_
  Claims = {1, 7, 11}
  Limit = 11
  Alone = FALSE
  MaxSent = 2
  MaxDamage = 0
CHECK_DEADLOCK FALSE
INVARIANTS OnlyDamagedLost
