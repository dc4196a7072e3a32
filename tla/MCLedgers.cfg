SPECIFICATION LSpec
CONSTANTS
  Subjects = {"events", "window", "reminders", "plates", "pulls", "memory", "cycles",
              "deferrals", "unblocked"}
  Serial = TRUE
  None = None
  Hooks = {x1, x2}
  Readers = {r1}
  Keys = {k1}
  MaxId = 3
  MaxEvents = 3
  MaxPeeks = 2
  MaxCrashes = 1
  Operators = {x1, x2}
  Launchers = {l1}
  Ids = {w1, w2}
  Agents = {a1, a2}
  Due = {d1}
  Unlocks = {u1}
  Recipients = {x1, x2}
  MaxDay = 1
  MaxPackets = 2
  MaxUpsets = 2
  Items = {i1, i2}
  Owners = {y1, y2}
  Writers = {x1, x2}
  MaxActive = 1
  MaxOps = 3
  MaxPulls = 2
  MaxPeople = 2
  Paths = {f1, f2}
  Runners = {x1, x2}
  MaxEdits = 2
  MaxGens = 2
  Servers = {x1, x2}
  Humans = {h1, h2}
  MaxRequests = 2
  Beads = {b1, b2}
  Pressing = {b1}
  Store = Store
  Limit = 2
  MaxMoves = 3
  MaxFalls = 1
  Blocked = {b1}
  Passes = {x1, x2}
  MaxFirings = 3
SYMMETRY Symmetric
INVARIANTS
  AllTypesOK
  Survives
  BlockOnce
  MarkedIsTold
  ClearIsQuiet
  TimerComesBack
  ToldOnce
  AckIsTold
  PlateBounded
  GivenToOne
  NoReplay
  OneMergeAtATime
  NoRevert
  AcceptedWhole
  StopHolds
  ServedOnce
  SaidOnce
  NothingPassedOver
  ReportedOnce
PROPERTIES
  LeaseKept
  RequestKept
  ReleasedWhenMet
