\* A running member, or a copy of its log: cuts, snapshots and purges at any
\* moment, and the options for the index range and the entry types.
SPECIFICATION FairSpec
CONSTANTS
  Kind <- PutsAndTxns
  OpsOf <- OpsOfKinds
  StartArgs = {2}
  EndArgs = {3, 99}
  TypeArgs <- SomeFilters
  ChanCap = 1
  MaxIndex = 3
  MaxCuts = 2
  MaxSnaps = 2
INVARIANTS
  TypeOK
  QuietScopeIsTrue
  QuietOpenSucceeds
  StreamIsStretchOfLog
PROPERTIES
  CommandEnds
