CONSTANTS
  a = a
  b = b
  Byte <- MCByte
  NUL = NUL
  JUNK = JUNK
  STDIN = STDIN
  NULL = NULL
  Code <- MCCode
  Body <- MCBody
  Doc <- MCDoc
  ReadMax = 3
  WriteMax = 3
  ReallocMayFail = TRUE
SPECIFICATION Spec
INVARIANT UnparsedIsTheText
CHECK_DEADLOCK FALSE
