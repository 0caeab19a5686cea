----------------------------- MODULE MCSfuRoom -----------------------------
(* Instance of SfuRoom for TLC: three peers and an SSRC space so small that *)
(* next_ssrc_ wraps past zero and gives out values a second time.          *)
EXTENDS SfuRoom, TLC

CONSTANTS p1, p2, p3
MCPeers == {p1, p2, p3}
PeersAlike == Permutations(MCPeers)
=============================================================================
