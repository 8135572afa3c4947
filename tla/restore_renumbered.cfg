SPECIFICATION Spec
CONSTANTS
  m1 = m1
  m2 = m2
  m3 = m3
  Messages = {m1, m2, m3}
  Inbox = Inbox
  Archive = Archive
  Mailboxes = {Inbox, Archive}
  id1 = id1
  id3 = id3
  h1 = h1
  h2 = h2
  h3 = h3
  NoId = NoId
  NoMessage = NoMessage
  NoMailbox = NoMailbox
  NoBatch = NoBatch
  MessageId <- MCMessageId
  Headers <- MCHeaders
  Storable <- MCStorable
  Batches = {b1, b2}
  MoveRequests <- MCMoveRequests
  Sources = {Inbox, Archive}
  Destinations = {Inbox, Archive}
  MaxItems = 2
  MaxUid = 2
  MaxForeign = 0
  MaxRenumbers = 1
  MaxCrashes = 0
SYMMETRY Symmetry
INVARIANTS
  RestoreReturnsTheMessages
CHECK_DEADLOCK FALSE
