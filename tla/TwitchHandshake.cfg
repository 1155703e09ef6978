\* The task's doc says the handshake sends JOIN.
SPECIFICATION Spec
CONSTANT Channel = "#channel"
CHECK_DEADLOCK FALSE
INVARIANT JoinedAfterHandshake
