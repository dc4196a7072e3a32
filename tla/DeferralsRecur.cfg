SPECIFICATION DSpec
CONSTANTS
  Beads = {b1, b2}
  Pressing = {b1, b2}
  Store = Store
  Limit = 2
  MaxMoves = 4
  MaxFalls = 0
  Serial = TRUE
  None = None
INVARIANT RecordedIsTold
