------------------------- MODULE MCWebSocketServer -------------------------
(* Instance of WebSocketServer for TLC: two descriptors, two connections,  *)
(* and a server that is started twice.                                     *)
EXTENDS WebSocketServer

CONSTANTS f1, f2
TwoFds == {f1, f2}
=============================================================================
