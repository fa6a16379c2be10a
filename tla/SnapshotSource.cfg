\* Every history of four revisions, compactions included, saved at any moment.
SPECIFICATION FairSpec
CONSTANTS
  Key <- MCKey
  PrefixArgs <- WholeAndPrefix
  Rejected = {2}
  batchSize = 2
  ChanCap = 1
  MaxRevision = 4
  MaxTxnRows = 2
  MaxDamaged = 1
INVARIANTS
  TypeOK
  CurrentKeyspace
  CountsAreOfTheFile
PROPERTIES
  LookEnds
