SPECIFICATION Spec
CONSTANTS
  Agents = {a1}
  Procs = {p1, p2}
  Orderly = TRUE
  MaxGens = 2
  MaxEpisodes = 2
  MaxStamps = 1
  MaxMail = 1
  MaxCrashes = 1
  None = None
SYMMETRY Symmetric
CHECK_DEADLOCK FALSE
INVARIANTS
  TypeOK
  NoStaleStop
PROPERTIES
  SendsOnce
  ReceiptStays
