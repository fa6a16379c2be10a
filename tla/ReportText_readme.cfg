\* The version distribution of the README in small.
SPECIFICATION Spec
CONSTANTS
  bucketCount = 3
  pctls <- ProgramPctls
  Arrivals <- MostlyOne
INVARIANTS
  CommonValueFillsTheTable
CHECK_DEADLOCK FALSE
