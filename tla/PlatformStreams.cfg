\* All five platforms: frames into a channel of two, one handle per connection.
SPECIFICATION Spec
CONSTANTS
  Conns = {c1}
  Callers = {p1, p2}
  NoConn = NoConn
  Greetings <- GreetingsOf
  Announced <- AnnouncedOf
  Frames <- MCFrames
  Outputs <- OutputsOf
  Platforms <- AllPlatforms
  MessageCap = 2
  SharedHandle = FALSE
  MaxOutputs = 6
CHECK_DEADLOCK FALSE
SYMMETRY Symmetry
INVARIANT DeliveredInOrder
INVARIANT EndAnnouncedBeforeClosed
PROPERTY DisconnectIsFinal
