\* The records of small stores through both pipelines, filters and cuts.
SPECIFICATION Spec
CONSTANTS
  topN = 3
  Stores <- MCStores
  JSONKey <- MCJSONKey
  PrefixArgs <- MCPrefixes
  FilterArgs <- MCFilters
  Configs <- MCConfigs
INVARIANTS
  TypeOK
  SourcesAgree
  RowsAccountForAllKeys
  TopRowsAreTheLargest
  OverviewAgreesWithSummary
  VerdictsAreSound
