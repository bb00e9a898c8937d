SPECIFICATION Spec
CONSTANTS
  Files <- SmallFiles
  IntMax = 7
  RandMax = 4
  MaxCycle = 2
INVARIANTS DocumentedFilesFit LengthsWithinLimits
CHECK_DEADLOCK FALSE
