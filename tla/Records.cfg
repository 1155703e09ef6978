\* Two tracked talkers of four and two words of four, in sessions of five
\* messages; a window of two seconds, pruned above two entries; three rows with
\* a flush every second one, two failed writes and one dropped call; frames of
\* two packets.  A session that has said everything stops.
INIT MCInit
NEXT MCNext
CONSTANTS
  Depth = 2
  Width = 3
  Column <- MCColumn
  MaxTopTalkers = 2
  MaxTopWords = 2
  TalkerCapacity = 2
  WordCapacity = 2
  MaxRatePoints = 2
  BucketSecs = 2
  Words = {1, 2, 3, 4, 9}
  Skipped = {9}
  Crowds <- MCCrowds
  Never = Never
  Ends = {4}
  MaxMessages = 5
  MaxReports = 2
  SecondTicks = 2
  FixedSecs = 1
  MinSecs = 1
  MaxSecs = 4
  Target = 2
  WindowSecs = 2
  PruneAbove = 2
  NoSample = NoSample
  MaxTick = 7
  MessageTypes = {"Chat", "Gift", "SuperChat", "System"}
  Comments <- MCComments
  FlushEvery = 2
  NoWrite = NoWrite
  NoCall = NoCall
  MaxRows = 3
  MaxFailures = 2
  MaxCancelled = 1
  Commands = {"DANMU_MSG", "ROOM_CHANGE", "UNKNOWN"}
  MaxPackets = 2
INVARIANTS
  HeavyHittersBounded RatesAccounted IntervalFollowsMessages RecordWellFormed CompressedArrive
CHECK_DEADLOCK FALSE
