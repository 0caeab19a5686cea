CONSTANTS
  p1 = p1
  p2 = p2
  p3 = p3
  NoSsrc = NoSsrc
  SsrcSpace = 3
  FirstSsrc = 2
  MaxAdds = 5
  Peers <- MCPeers
SYMMETRY PeersAlike
SPECIFICATION Spec
INVARIANTS MapAndVectorAgree StreamsUnmixed
