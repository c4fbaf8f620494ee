CONSTANTS
  n1 = n1
  n2 = n2
  n3 = n3
  c1 = c1
  c2 = c2
  c3 = c3
  k1 = k1
  k2 = k2
  Node <- MCNode
  Cell <- MCCell
  Key <- MCKey
  CKey <- MCCKey
  NULL = NULL
SPECIFICATION SpecIter
SYMMETRY Symm
INVARIANTS
  WalkIsExact
  WalkKeepsOrder
PROPERTIES
  GivenMayGo
