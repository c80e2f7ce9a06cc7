SPECIFICATION Spec
CONSTANTS
  n1 = n1
  n2 = n2
  n3 = n3
  b1 = b1
  t1 = t1
  m1 = m1
  m2 = m2
  p1 = p1
  p2 = p2
  p3 = p3
  None = None
  Node <- TwoNodes
  Peers <- FullMesh
  Blob <- OneBlob
  Small <- OneBlob
  Tag <- OneTag
  Manifest <- TwoManifests
  Strategy <- Hybrid
  ReplicationFactor = 1
  Request <- TwoRequests
CONSTRAINTS
  OneKey
  TwoAtOnce
CHECK_DEADLOCK FALSE
INVARIANT
  HeadFinds
