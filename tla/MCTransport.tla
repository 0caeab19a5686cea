----------------------------- MODULE MCTransport -----------------------------
(* Transport for TLC: it is finite as it stands.                            *)
EXTENDS Transport
=============================================================================
