CONSTANTS
  c1 = c1
  c2 = c2
  c3 = c3
  r1 = r1
  r2 = r2
  NoRoom = NoRoom
  NoSender = NoSender
  Conns <- MCConns
  Rooms <- MCRooms
SYMMETRY Symmetry
SPECIFICATION CalmSpec
INVARIANTS IndexConsistent MembersKnown RosterExactWhileCalm
PROPERTY BroadcastFromKnownPeer
