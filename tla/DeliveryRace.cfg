SPECIFICATION DSpec
CONSTANTS
  Bodies = {b1, b2}
  Senders = {s1}
  Passes = {p1}
  MaxRecords = 2
  MaxSends = 2
  MaxFaults = 0
  Serial = FALSE
  None = None
CHECK_DEADLOCK FALSE
INVARIANT
  DeliveredIsTaken
