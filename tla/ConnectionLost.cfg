SPECIFICATION Spec
CONSTANTS
  p1 = p1
  p2 = p2
  c1 = c1
  c2 = c2
  x1 = x1
  x2 = x2
  x3 = x3
  x4 = x4
  None = None
  Peer <- TwoPeers
  Caller <- TwoCallers
  Conn <- FourConns
INVARIANT
  StopClosesAll
