\* Every mode of the report, with and without the refresher.
SPECIFICATION FairSpec
CONSTANTS
  Inputs <- Streams
  Modes <- AllModes
INVARIANTS
  TypeOK
  RenderShowsWholeBatches
  OverviewAgreesWithReport
PROPERTIES
  CommandEnds
