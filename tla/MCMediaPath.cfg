CONSTANTS
  SeqSpace = 8
  GroupSize = 2
  FirstSeq = 6
  MaxSent = 4
  LengthOf <- MCLengthOf
SPECIFICATION FairSpec
INVARIANTS MissingExact RebuiltIsPadded PlayedInOrder
PROPERTIES LossIsRequested PlaybackGoesOn
CHECK_DEADLOCK FALSE
