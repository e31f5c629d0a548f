SPECIFICATION Spec
CONSTANTS
  Parts <- MCParts
  Sources <- MCSources
  Mixed <- MCMixed
  Crc32 <- MCCrc32
  Frames <- MCFrames
  AcceptLists <- MCAcceptLists
  MaxFragmentCount = 2
  MaxMessageLength = 3
  MaxFragmentLength = 3
  MaxProcessed = 4
  MaxFrames = 5
INVARIANTS
  LayersAgree
  OneType
  CountsFrames
  ProgressTracksState
PROPERTIES
  ForeignNeverFails
