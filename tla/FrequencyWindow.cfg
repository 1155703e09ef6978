\* The limit the mask is documented to keep over its window.
SPECIFICATION Spec
CONSTANTS
  Texts = {hello, spam}
  Blacklist = {spam}
  BucketCount = 2
  Window = 4
  MaxFrequency = 1
  Conns = {c1}
  Callers = {p1, p2}
  NoConn = NoConn
  NoText = NoText
  Configs <- AllConfigs
  MaxMessages = 4
  Start = 3
  MaxTime = 7
INVARIANTS
  WindowLimited
SYMMETRY Symmetry
CHECK_DEADLOCK FALSE
