SPECIFICATION FitSpec
CONSTANTS
  DataLengths <- MCDataLengths
  MaxCharsGiven <- MCMaxCharsGiven
  Sequences <- MCSequences
  TypeLen = 5
  Checksum = 3000000
INVARIANT LaterPartsFit
CHECK_DEADLOCK FALSE
