SPECIFICATION FairSpec
CONSTANTS
  Passes = {p1, p2}
  Operator = op
  Children = {c1, c2}
  JobFiles <- MCLiveFiles
  MaxEvent = 2
  Items = {1, 2}
  Matching = {1, 2}
  Slots = {1}
  MaxNow = 1
  Every = 1
  LateGrace = 1
  Limit = 2
  Page = 1
  SeedPages = 1
  Backoff = 1
  MaxCrashes = 1
  MaxTimeouts = 0
  MaxClosings = 2
  MaxListings = 1
  None = None
  p1 = p1
  p2 = p2
PROPERTY
  EveryFiringFinishes
