SPECIFICATION FairSpec
CONSTANTS
  p1 = p1
  p2 = p2
  k1 = k1
  NoId = NoId
  Ids = {p1, p2}
  Clients = {k1}
  Limit = 1
  Window = 2
  MaxInFlight = 2
  Wait = 2
  Poll = 1
  RequestTimeout = 1
  ElicitTimeout = 4
INVARIANT BoundedBySetting
