\* Two callers of one masked connection, a window of two buckets of two units.
SPECIFICATION Spec
CONSTANTS
  Texts = {hello, spam}
  Blacklist = {spam}
  BucketCount = 2
  Window = 4
  MaxFrequency = 1
  Conns = {c1}
  Callers = {p1, p2}
  NoConn = NoConn
  NoText = NoText
  Configs <- AllConfigs
  MaxMessages = 5
  Start = 3
  MaxTime = 7
INVARIANTS
  TypeOK
  FrequencyMatchesBuckets
  RateLimited
  BlacklistHolds
  DisconnectCleans
  NoCircularWait
SYMMETRY Symmetry
CHECK_DEADLOCK FALSE
