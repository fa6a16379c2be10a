\* Every output format, with --hang, changes by others, failures and kills.
SPECIFICATION FairSpec
CONSTANTS
  Key <- MCKey
  JSONKey <- MCJSONKey
  Size <- MCSize
  Stores <- MCStores
  Configs <- MCConfigs
  MatchArgs <- MCMatches
  LimitArgs <- MCLimits
  MaxChanges = 2
INVARIANTS
  FileIsOneRound
  FindShowsSameKeys
  DistributeShowsSameSizes
PROPERTIES
  FileCatchesUp
