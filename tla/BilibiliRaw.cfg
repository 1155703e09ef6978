\* Raw JSON notifications, which the overview lists as protocol version 0.
SPECIFICATION Spec
CONSTANTS
  Commands = {"DANMU_MSG", "ROOM_CHANGE", "UNKNOWN"}
  MaxPackets = 2
CHECK_DEADLOCK FALSE
INVARIANT NotificationsArrive
