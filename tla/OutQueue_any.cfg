SPECIFICATION Spec
CONSTANTS
  MaxQueue = 1
  MaxSize = 2
  MaxPush = 5
  MaxWant = 4
CHECK_DEADLOCK FALSE
INVARIANTS NoStall WholeInOrder Lent
PROPERTIES ImplementsFifo
