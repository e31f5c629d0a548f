SPECIFICATION Spec
CONSTANTS
  Counts = {1, 2, 3, 4, 5}
  Unit <- MCUnit
  Errors <- MCErrors
  MaxError = 2
  Ticks = 6
INVARIANTS
  WorklistsPartition
  TableIsExact
  ChoosesFragments
