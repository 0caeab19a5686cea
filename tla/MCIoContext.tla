---------------------------- MODULE MCIoContext ----------------------------
(* Instances of IoContext for TLC; the bound is set in the cfg files.      *)
EXTENDS IoContext
=============================================================================
