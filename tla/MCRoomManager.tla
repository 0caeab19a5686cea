--------------------------- MODULE MCRoomManager ---------------------------
(* Instance of CalmRooms for TLC: three connections, two rooms.             *)
EXTENDS CalmRooms, TLC

CONSTANTS c1, c2, c3, r1, r2

MCConns == {c1, c2, c3}
MCRooms == {r1, r2}

\* Connections are interchangeable, and so are rooms.
Symmetry == Permutations(MCConns) \cup Permutations(MCRooms)
=============================================================================
