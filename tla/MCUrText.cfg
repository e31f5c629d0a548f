SPECIFICATION Spec
CONSTANTS
  WORDS <- MCWords
  Checksum <- MCChecksum
  Lines <- MCLines
  Limits <- MCLimits
  DefaultLimits <- MCDefaultLimits
  U32Max = 2147483647
  IsDcbor <- MCIsDcbor
INVARIANTS
  ReadsEverySpelling
  TakesNothingElse
  ParsersAgree
CHECK_DEADLOCK FALSE
