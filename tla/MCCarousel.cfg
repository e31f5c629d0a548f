SPECIFICATION FairSpec
CONSTANTS
  Parts <- MCParts
  Sources <- MCMessages
  Mixed <- MCMixed
  Crc32 <- MCCrc32
  Messages <- MCMessages
  Options <- MCOptions
  Counts <- MCCounts
  AcceptLists <- MCAcceptLists
  Type = "bytes"
  U32Max = 8
  MinLines = 3
  MaxRestarts = 1
  MaxFragmentCount = 3
  MaxMessageLength = 6
  MaxFragmentLength = 3
  MaxProcessed = 1
  MaxFrames = 2
INVARIANTS
  TransferIsExact
PROPERTY CycleDelivers
CHECK_DEADLOCK FALSE
