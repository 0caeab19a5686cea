---------------------------- MODULE MCSignaling ----------------------------
(* Instance of Signaling for TLC: two connections, one room.               *)
EXTENDS Signaling

CONSTANTS c1, c2, r1
MCConns == {c1, c2}
MCRooms == {r1}
=============================================================================
