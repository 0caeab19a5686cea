CONSTANT MaxPackets = 3
SPECIFICATION LateSpec
CHECK_DEADLOCK FALSE
INVARIANTS QuietAfterStop
PROPERTIES StopReturns PacketsReceived
