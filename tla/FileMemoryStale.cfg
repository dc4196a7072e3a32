SPECIFICATION MSpec
CONSTANTS
  Paths = {f1}
  Procs = {p1}
  MaxEdits = 2
  MaxGens = 1
  Serial = FALSE
  None = None
CHECK_DEADLOCK FALSE
INVARIANT
  NoRevert
