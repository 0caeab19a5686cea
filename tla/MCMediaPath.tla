---------------------------- MODULE MCMediaPath ----------------------------
(* Instance of MediaPath for TLC: groups of two, numbers that wrap in the  *)
(* middle of the stream, and a packet that is shorter than the other one   *)
(* of its group, as the first and as the second of it.                     *)
EXTENDS MediaPath

MCLengthOf == [i \in Indices |-> IF i = 0 THEN 1 ELSE IF i = 3 THEN 0 ELSE 2]
=============================================================================
