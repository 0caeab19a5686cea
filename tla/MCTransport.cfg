SPECIFICATION FairSpec
INVARIANTS DoneIsMutual
PROPERTIES ConnectedIsMutual HandshakeCompletes
CHECK_DEADLOCK FALSE
