SPECIFICATION Spec
CONSTANTS
  Ids = {p1, p2}
  NoJob = NoJob
  k1 = k1
  b1 = b1
  b2 = b2
  Keys = {k1}
  Batches = {b1, b2}
  Drafts <- MixedDrafts
  Ttl = 2
  QueueLag = 0
  MaxClock = 2
  CreateUntil = 2
  MaxFaults = 1
  MaxCrashes = 1
SYMMETRY Symmetry
INVARIANTS
  CancelSticks
