SPECIFICATION FitSpec
CONSTANTS
  DataLengths <- MCDataLengths
  MaxCharsGiven <- MCMaxCharsGiven
  Sequences <- MCSequences
  TypeLen = 5
  Checksum = 3000000
INVARIANTS
  ResultFits
  MissesNoMultiPart
PROPERTY Terminates
CHECK_DEADLOCK FALSE
