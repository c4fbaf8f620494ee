CONSTANTS
  i1 = i1
  i2 = i2
  i3 = i3
  i4 = i4
  i5 = i5
  k1 = k1
  k2 = k2
  k3 = k3
  Item = {i1, i2, i3, i4, i5}
  Key = {k1, k2, k3}
  NULL = NULL
  JUNK = JUNK
  Hash <- MCHash
  InitBuckets = 1
  Thresh = 2
  MaxBuckets = 16
SYMMETRY Symmetry
SPECIFICATION Spec
INVARIANTS
  UtHashTypeOK
  Fsck
  FindIsRight
  ChainsBounded
PROPERTIES
  FoundStaysFound
  KeepsOrder
