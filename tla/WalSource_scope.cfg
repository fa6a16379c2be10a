\* A running member cuts a segment between the listing and the opening.
SPECIFICATION Spec
CONSTANTS
  Kind <- PutsAndTxns
  OpsOf <- OpsOfKinds
  StartArgs = {0}
  EndArgs = {99}
  TypeArgs <- SomeFilters
  ChanCap = 1
  MaxIndex = 3
  MaxCuts = 2
  MaxSnaps = 1
INVARIANTS
  ScopeIsTrue
