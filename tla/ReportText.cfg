\* The histogram and the percentile table over every small data set.
SPECIFICATION FairSpec
CONSTANTS
  bucketCount = 3
  pctls <- ProgramPctls
  Arrivals <- MCArrivals
INVARIANTS
  RowsPartitionTheSizes
  NeverUnderstates
  ExactUnlessTaken
PROPERTIES
  RenderingEnds
CHECK_DEADLOCK FALSE
