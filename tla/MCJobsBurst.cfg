SPECIFICATION Spec
CONSTANTS
  Passes = {p1, p2}
  Operator = op
  Children = {c1}
  JobFiles <- MCGhFiles
  MaxEvent = 3
  Items = {1, 2}
  Matching <- MCMatching
  Slots <- MCSlots
  MaxNow = 2
  Every = 1
  LateGrace = 1
  Limit = 1
  Page = 1
  SeedPages = 1
  Backoff = 1
  MaxCrashes = 1
  MaxTimeouts = 1
  MaxClosings = 2
  MaxListings = 1
  None = None
  p1 = p1
  p2 = p2
INVARIANT
  NeverDropped
