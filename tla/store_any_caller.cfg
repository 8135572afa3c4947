SPECIFICATION StoreSpec
CONSTANTS
  Ids = {p1, p2}
  k1 = k1
  b1 = b1
  b2 = b2
  Keys = {k1}
  Batches = {b1, b2}
  Drafts <- MCDrafts
  Ttl = 2
  QueueLag = 1
  MaxClock = 3
  CreateUntil = 3
  MaxFaults = 1
  MaxCrashes = 1
SYMMETRY Symmetry
INVARIANTS
  StoreTypeOK
  DiskIsBehind
  OneProposalPerKey
  ApprovedInWindow
PROPERTIES
  FollowsDiagram
