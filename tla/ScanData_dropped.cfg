\* One delete: the key dropped at a page boundary need not be a duplicate.
SPECIFICATION Spec
CONSTANTS
  Key <- MCKey
  PageSizeArgs <- SmallPages
  LimitArgs <- NoLimit
  PrefixArgs <- WholeRange
  readCount = 3
  ChanCap = 2
  MaxPuts = 0
  MaxDeletes = 1
INVARIANTS
  DroppedKeyIsDuplicate
