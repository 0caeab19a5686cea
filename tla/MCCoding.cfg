CONSTANTS
  SeqSpace = 65536
  BlpBits = 16
  MaxRtpPayload = 4
  TrendlineWin = 5
  Limit = 2
  NoNumber = NoNumber
  Inputs <- MCInputs
  Depth <- MCDepth
SPECIFICATION Spec
INVARIANTS NackExact MediaArrives StunSurvives SdpNormalForm
  RateFollowsTrend JitterDepth
CHECK_DEADLOCK FALSE
