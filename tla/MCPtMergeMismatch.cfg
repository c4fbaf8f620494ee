CONSTANTS
  n1 = n1
  n2 = n2
  n3 = n3
  n4 = n4
  n5 = n5
  n6 = n6
  n7 = n7
  n8 = n8
  m1 = m1
  m2 = m2
  m3 = m3
  c1 = c1
  c2 = c2
  c3 = c3
  c4 = c4
  c5 = c5
  c6 = c6
  c7 = c7
  d1 = d1
  d2 = d2
  d3 = d3
  k1 = k1
  k2 = k2
  k1nul = k1nul
  int1 = int1
  int2 = int2
  dbl = dbl
  str1 = str1
  str2 = str2
  NULL = NULL
  Node <- MCNode
  Cell <- MCCell
  Key <- MCKey
  CKey <- MCCKey
  CStr <- MCCStr
  Load <- MCLoad
  Kind <- MCKind
  Start <- MCStart
  Args <- MCArgs
  MaxCalls = 2
  Depth = 3
SPECIFICATION Spec
SYMMETRY Spares
CHECK_DEADLOCK FALSE
INVARIANT MismatchIsReported
