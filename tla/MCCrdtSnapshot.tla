--------------------------- MODULE MCCrdtSnapshot ---------------------------
(* Instance of CrdtSnapshot for TLC.                                       *)
EXTENDS CrdtSnapshot

MCReplicas == 1..2
MCUuids    == {"s1"}
MCBodies   == {"red", "blue"}
=============================================================================
