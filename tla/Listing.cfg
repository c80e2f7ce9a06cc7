SPECIFICATION Spec
CONSTANTS
  signature = signature
  c1 = c1
  s1 = s1
  NoFile = NoFile
  Unparsable = Unparsable
  PageSize = 1
  Tag <- MCTag
  Digest <- MCDigest
  Temp <- MCTemp
  Document <- MCDocument
  Refers <- MCDocument
  Client <- OneClient
  Scan <- OneScan
CONSTRAINT OneAtATime
INVARIANTS
  TypeOK
  WalkExact
  ScanComplete
