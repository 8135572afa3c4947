SPECIFICATION FairSpec
CONSTANTS
  Ids = {p1, p2}
  NoJob = NoJob
  k1 = k1
  b1 = b1
  b2 = b2
  Keys = {k1}
  Batches = {b1, b2}
  Drafts <- MixedDrafts
  Ttl = 1
  QueueLag = 0
  MaxClock = 2
  CreateUntil = 1
  MaxFaults = 1
  MaxCrashes = 0
PROPERTIES
  SendingEnds
