CONSTANTS
  f1 = f1
  f2 = f2
  Fds <- TwoFds
  Listen = Listen
  NoFd = NoFd
  NoFrame = NoFrame
  MaxDials = 2
  MaxFrames = 3
  MaxStarts = 2
SPECIFICATION FairSpec
INVARIANTS ConnsAreOpenSockets CallbacksPaired OnlyStaleSendsAreEarly NothingStuck
PROPERTIES TextsDelivered StopReturns HangupNoticed
