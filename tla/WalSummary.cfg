\* Logs of up to two entries, a file that is rewritten or cut short, every
\* sort key and cut.
SPECIFICATION SummarySpec
CONSTANTS
  Key <- MCKey
  Item <- MCItem
  Entries <- MCEntries
  JSONKey <- MCJSONKey
  EntryTypeArgs <- MCTypes
  SortArgs <- MCSorts
  TopArgs <- MCTops
  MaxEntries = 2
INVARIANTS
  CountsBracketWrites
  TxnsAreWhole
  RowsAccountForOps
  BusiestKeysShown
  OfflineAgreesWithDirect
