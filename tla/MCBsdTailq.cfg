CONSTANTS
  a1 = a1
  a2 = a2
  a3 = a3
  e1 = e1
  e2 = e2
  e3 = e3
  e4 = e4
  x1 = x1
  x2 = x2
  Array = {a1, a2, a3}
  Elem = {e1, e2, e3, e4}
  Node = {x1, x2}
  NULL = NULL
  JUNK = JUNK
SYMMETRY Symmetry
SPECIFICATION Spec
INVARIANTS
  TailqTypeOK
  QmdChecks
  WalkIsOrder
PROPERTIES
  KeepsPromise
