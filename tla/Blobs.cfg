SPECIFICATION Spec
CONSTANTS
  w1 = w1
  w2 = w2
  r1 = r1
  i1 = i1
  i2 = i2
  i3 = i3
  i4 = i4
  i5 = i5
  None = None
  Zero = 0
  Byte <- MCByte
  MaxLen = 2
  Digest <- OneDigest
  Writer <- TwoWriters
  Reader <- OneReader
  Inode <- FiveFiles
VIEW LiveView
SYMMETRY Symmetry
INVARIANTS
  TypeOK
  QuietBlobIntact
  NoStrayTemp
  TrustedBody
PROPERTIES
  ImplementsContentStore
