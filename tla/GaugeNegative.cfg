SPECIFICATION GaugeSpec
CONSTANTS
  s1 = s1
  s2 = s2
  s3 = s3
  r1 = r1
  r2 = r2
  r3 = r3
  Session <- ThreeSessions
  Request <- ThreeRequests
  MaxDrift = 3
INVARIANT
  GaugeCounts
