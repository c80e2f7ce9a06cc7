SPECIFICATION Spec
CONSTANTS
  n1 = n1
  n2 = n2
  n3 = n3
  b1 = b1
  t1 = t1
  m1 = m1
  m2 = m2
  p1 = p1
  p2 = p2
  p3 = p3
  None = None
  Node <- ThreeNodes
  Peers <- FullMesh
  Blob <- OneBlob
  Small <- OneBlob
  Tag <- OneTag
  Manifest <- TwoManifests
  Strategy <- Eager
  ReplicationFactor = 1
  Request <- ThreeRequests
CONSTRAINTS
  OneKey
  TwoAtOnce
SYMMETRY Symmetry
CHECK_DEADLOCK FALSE
INVARIANTS
  EagerReplicates
