CONSTANT MaxPackets = 1
SPECIFICATION LoopSpec
CHECK_DEADLOCK FALSE
PROPERTY StopReturns
