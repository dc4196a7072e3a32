SPECIFICATION PSpec
CONSTANTS
  Items = {i1}
  Owners = {a1, a2}
  Writers = {w1, w2}
  MaxActive = 1
  MaxOps = 3
  Serial = FALSE
  None = None
CHECK_DEADLOCK FALSE
INVARIANT
  GivenToOne
