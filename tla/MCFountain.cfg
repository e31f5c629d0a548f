SPECIFICATION Spec
CONSTANTS
  Parts <- MCParts
  Sources <- MCSources
  Mixed <- MCMixed
  Crc32 <- MCCrc32
  MaxFragmentCount = 3
  MaxMessageLength = 6
  MaxFragmentLength = 2
  MaxProcessed = 4
INVARIANTS
  TypeOK
  ReducedEchelon
  ScanCoversPivots
  CountersExact
  CollectingIsShort
  NeverInternal
  DeliversSource
  CompletesWhenDetermined
  RowMemoryBounded
PROPERTY KeepsPromise
