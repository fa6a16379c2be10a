\* Puts and deletes between the pages, with and without a prefix and a limit.
SPECIFICATION FairSpec
CONSTANTS
  Key <- MCKey
  PageSizeArgs <- DefaultAndSmall
  LimitArgs <- WithAndWithoutLimit
  PrefixArgs <- WholeAndPrefix
  readCount = 3
  ChanCap = 1
  MaxPuts = 1
  MaxDeletes = 2
INVARIANTS
  TypeOK
  DeliveredAscending
  CompleteUnlessCursorLost
  ScanInv
  MissesBounded
PROPERTIES
  CursorAdvances
  ScanTerminates
  IsCursorScan
