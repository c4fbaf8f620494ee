CONSTANTS
  b1 = b1
  b2 = b2
  b1nul = b1nul
  Bytes <- MCBytes
  CBytes <- MCCBytes
  CStr <- MCCStr
  NULL = NULL
  IntBits = 3
  Texts <- MCTexts
  Docs <- MCDocs
SPECIFICATION Spec
INVARIANTS
  WritesJson
  TextPasses
  LooksTheSame
PROPERTY TextSettles
