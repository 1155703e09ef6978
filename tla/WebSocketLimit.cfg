\* Three ids compete for two permits; at most one item per connection.
SPECIFICATION Spec
CONSTANTS
  Conns = {c1, c2, c3}
  Callers = {p1, p2}
  NoConn = NoConn
  MaxActive = 2
  MaxReconnect = 0
  BaseDelay = 2
  MaxDelay = 3
  MessageCap = 1
  ResponseCap = 1
  Batches = {0, 1}
  Replies = {0}
  DialOutcomes = {"ok"}
  SharedHandle = TRUE
  MaxItems = 1
SYMMETRY Symmetry
CHECK_DEADLOCK FALSE
INVARIANT TypeOK
INVARIANT PermitsAccounted
INVARIANT NoLeakedReference
INVARIANT NoRunawayTask
PROPERTY EntryRemovedForCause
