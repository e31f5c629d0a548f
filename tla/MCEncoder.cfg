SPECIFICATION Spec
CONSTANTS
  Parts <- MCParts
  Sources <- MCSources
  Mixed <- MCMixed
  Crc32 <- MCCrc32
  Messages <- MCMessages
  Options <- MCOptions
  U32Max = 12
  MaxFragmentCount = 12
  MaxMessageLength = 12
  MaxFragmentLength = 12
INVARIANTS
  EmitsValidParts
  PartitionIsNominal
  PartitionLosesNothing
