\* A write inside a nested transaction that was applied.
SPECIFICATION SummarySpec
CONSTANTS
  Key <- MCKey
  Item <- MCItem
  Entries <- MCEntries
  JSONKey <- MCJSONKey
  EntryTypeArgs <- NoTypes
  SortArgs <- ByPuts
  TopArgs <- NoTop
  MaxEntries = 2
INVARIANTS
  NoUndercounting
