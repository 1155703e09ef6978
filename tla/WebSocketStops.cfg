\* Liveness that needs little more than the runtime, and the provider as a feed.
SPECIFICATION RuntimeSpec
CONSTANTS
  Conns = {c1}
  Callers = {p1, p2}
  NoConn = NoConn
  MaxActive = 1
  MaxReconnect = 2
  BaseDelay = 2
  MaxDelay = 3
  MessageCap = 1
  ResponseCap = 1
  Batches = {0, 1, 2}
  Replies = {0, 1, 2}
  DialOutcomes = {"ok", "failed", "handshake_failed"}
  SharedHandle = TRUE
  MaxItems = 3
CHECK_DEADLOCK FALSE
PROPERTY CallersReturn
PROPERTY AbortedTasksEnd
PROPERTY PermitReturned
PROPERTY UnreachableGivesUp
PROPERTY ImplementsFeed
