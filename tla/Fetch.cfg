SPECIFICATION FairFetchSpec
CONSTANTS
  p1 = p1
  p2 = p2
  NoPeer = NoPeer
  Holder <- TwoPeers
  Slow <- OneSlow
  Size = 3
  Window = 2
\* The one request is over in the end, and all that belongs to it.
CHECK_DEADLOCK FALSE
INVARIANTS
  FetchTypeOK
PROPERTIES
  FetchEnds
  TransferEnds
