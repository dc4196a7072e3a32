SPECIFICATION Spec
CONSTANTS
  Agents = {a1}
  Procs = {p1, p2}
  Orderly = TRUE
  MaxGens = 1
  MaxEpisodes = 1
  MaxStamps = 0
  MaxMail = 1
  MaxCrashes = 0
  None = None
CHECK_DEADLOCK FALSE
INVARIANT
  NoMailBuried
