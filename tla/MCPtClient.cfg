CONSTANTS
  n1 = n1
  n2 = n2
  n3 = n3
  c1 = c1
  c2 = c2
  k1 = k1
  r1 = r1
  r2 = r2
  b1 = b1
  Node <- MCNode
  Cell <- MCCell
  Key <- MCKey
  CKey <- MCKey
  Resp <- MCResp
  Code <- MCCode
  Body <- MCBody
  NULL = NULL
SPECIFICATION ClientSpec
SYMMETRY Symm
PROPERTIES
  ClientKeepsDocuments
