SPECIFICATION FairSpec
CONSTANTS
  c1 = c1
  c2 = c2
  s1 = s1
  s2 = s2
  NoSid = NoSid
  Conns = {c1, c2}
  Sids = {s1, s2}
  MaxSessions = 1
  IdleTime = 1
  Presented = {"assertion", "other"}
  AccessOn = TRUE
  MaxFailures = 1
INVARIANTS
  TypeOK
  NoOrphans
  OverCommitBounded
  OnlyAuthorisedServed
PROPERTIES
  OneHead
  StreamKept
  ShortCallsSurvive
  EveryRequestIsAnswered
  AbandonedSessionsGo
  ShutdownEnds
