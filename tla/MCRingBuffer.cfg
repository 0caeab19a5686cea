SPECIFICATION FairSpec
CONSTANTS
  N = 4
  Items <- MCItems
  NoItem = NoItem
INVARIANTS
  SlotRaceFree
  IndInv
PROPERTIES
  ImplementsFifo
  ChecksAreStable
  FullBufferDrains
