SPECIFICATION DSpec
CONSTANTS
  Bodies = {b1, b2}
  Senders = {s1}
  Passes = {p1}
  MaxRecords = 2
  MaxSends = 2
  MaxFaults = 1
  Serial = TRUE
  None = None
SYMMETRY Symmetric
CHECK_DEADLOCK FALSE
INVARIANTS
  DTypeOK
  OneTake
  DeliveredIsTaken
  PointerOnce
