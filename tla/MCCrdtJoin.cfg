SPECIFICATION JoinSpec
CONSTANTS
  Replicas <- MCReplicas
  Uuids <- MCUuids
  Bodies <- MCBodies
  NoBody = NoBody
  NoEntry = NoEntry
  MaxOps = 3
  MaxDocs = 1
INVARIANTS
  MutualMergeConverges
