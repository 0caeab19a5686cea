---------------------------- MODULE MCRingBuffer ----------------------------
(* Instance of RingBuffer for TLC: four slots, two distinguishable items.  *)
EXTENDS RingBuffer

MCItems == {"a", "b"}
=============================================================================
