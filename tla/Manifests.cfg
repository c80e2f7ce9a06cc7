SPECIFICATION Spec
CONSTANTS
  t1 = t1
  d1 = d1
  d2 = d2
  m1 = m1
  n1 = n1
  m2 = m2
  b1 = b1
  w1 = w1
  w2 = w2
  r1 = r1
  i1 = i1
  i2 = i2
  i3 = i3
  i4 = i4
  i5 = i5
  i6 = i6
  i7 = i7
  None = None
  Tag <- MCTag
  Digest <- MCDigest
  Manifest <- MCManifest
  DigestOf <- MCDigestOf
  Byte <- MCByte
  Marshal <- MCMarshal
  Blob <- MCBlob
  Layers <- MCLayers
  Request <- MCRequest
  Writer <- TwoWriters
  Reader <- OneReader
  Inode <- Files
VIEW ActiveView
SYMMETRY Symmetry
INVARIANTS
  TypeOK
  SoloGet
  TagHasManifest
  ManifestComplete
PROPERTIES
  ImplementsManifestTable
