\* One connection, two receivers, batches larger than the item channel.
SPECIFICATION Spec
CONSTANTS
  Conns = {c1}
  Callers = {p1, p2}
  NoConn = NoConn
  MaxActive = 1
  MaxReconnect = 3
  BaseDelay = 2
  MaxDelay = 7
  MessageCap = 1
  ResponseCap = 1
  Batches = {0, 1, 2}
  Replies = {0, 1, 2}
  DialOutcomes = {"ok", "failed", "invalid", "handshake_failed"}
  SharedHandle = FALSE
  MaxItems = 4
SYMMETRY Symmetry
CHECK_DEADLOCK FALSE
INVARIANT DeliveredInOrder
INVARIANT ClosedMeansDrained
INVARIANT BackoffSchedule
PROPERTY GivesUpOnlyExhausted
PROPERTY DisconnectIsFinal
