SPECIFICATION Spec
CONSTANTS
  Hooks = {h1, h2}
  Readers = {r1}
  Keys = {k1}
  Serial = FALSE
  MaxId = 2
  MaxEvents = 2
  MaxPeeks = 0
  MaxCrashes = 0
  None = None
CHECK_DEADLOCK FALSE
INVARIANT
  Survives
