CONSTANTS
  a = a
  b = b
  Byte <- MCByte
  NUL = NUL
  JUNK = JUNK
  STDIN = STDIN
  NULL = NULL
  Code <- MCCode
  Body <- MCBody
  Doc <- MCDoc
  ReadMax = 3
  WriteMax = 3
  ReallocMayFail = FALSE
SPECIFICATION Spec
INVARIANTS
  HttpTypeOK
  ReceivedIsArrived
  SentIsData
  SuccessIsEndToEnd
PROPERTY
  KeepsThePromise
