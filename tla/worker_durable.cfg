SPECIFICATION FairSpec
CONSTANTS
  Ids = {p1, p2}
  NoJob = NoJob
  k1 = k1
  b1 = b1
  b2 = b2
  Keys = {k1}
  Batches = {b1, b2}
  Drafts <- MixedDrafts
  Ttl = 1
  QueueLag = 1
  MaxClock = 3
  CreateUntil = 2
  MaxFaults = 0
  MaxCrashes = 2
INVARIANTS
  CancelSticks
PROPERTIES
  AnswersLast
  ImplementsLife
  EveryProposalSettles
