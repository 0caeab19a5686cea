CONSTANTS
  c1 = c1
  c2 = c2
  r1 = r1
  Conns <- MCConns
  Rooms <- MCRooms
  NoRoom = NoRoom
  NoConn = NoConn
SPECIFICATION Spec
CHECK_DEADLOCK FALSE
PROPERTY JoinIsAnswered
