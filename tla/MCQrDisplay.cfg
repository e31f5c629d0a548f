SPECIFICATION FairSpec
CONSTANTS
  Jobs <- MCJobs
  Streams <- MCStreams
  Sizes <- MCSizes
  U32Max = 4
  MaxEvents = 2
  MaxShown = 5
INVARIANTS
  TerminalRestored
  ShowsEveryLine
  SizedToFit
PROPERTY QuitHonoured
CHECK_DEADLOCK FALSE
