SPECIFICATION FairSpec
CHECK_DEADLOCK FALSE
CONSTANTS
  n1 = n1
  n2 = n2
  host = host
  hostport = hostport
  u1 = u1
  u2 = u2
  r1 = r1
  r2 = r2
  c1 = c1
  NoId = NoId
  HostName = host
  MaxStarts = 2
  Id <- MCId
  Address <- MCAddress
  HostPort <- MCHostPort
  Malformed <- MCMalformed
  File <- MCFile
  Env <- MCEnv
  Uuid <- MCUuid
  Request <- TwoRequests
  Call <- OneCall
INVARIANT
  NeverPanics
