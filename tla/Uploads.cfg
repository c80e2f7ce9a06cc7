SPECIFICATION Spec
CHECK_DEADLOCK FALSE
CONSTANTS
  s1 = s1
  q1 = q1
  q2 = q2
  q3 = q3
  Zero = 0
  Byte <- MCByte
  Digest <- MCDigest
  Session <- OneSession
  Request <- TwoRequests
  MaxLen = 2
VIEW ActiveView
SYMMETRY Symmetry
INVARIANTS
  ResumeKeepsPrefix
  PublishesWhatWasAccepted
  SerialChunkOnce
