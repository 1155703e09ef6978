\* All five platforms with shared handles: what stops, and the provider as a feed.
SPECIFICATION RuntimeSpec
CONSTANTS
  Conns = {c1}
  Callers = {p1, p2}
  NoConn = NoConn
  Greetings <- GreetingsOf
  Announced <- AnnouncedOf
  Frames <- MCFrames
  Outputs <- OutputsOf
  Platforms <- AllPlatforms
  MessageCap = 1
  SharedHandle = TRUE
  MaxOutputs = 3
CHECK_DEADLOCK FALSE
INVARIANT NothingOutlivesItsHandle
PROPERTY CallersReturn
PROPERTY AbortedTasksEnd
PROPERTY ImplementsFeed
