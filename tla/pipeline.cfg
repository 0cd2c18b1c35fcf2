SPECIFICATION FairSpec
CONSTANTS
  None = None
  Torn = Torn
  TornWrites = FALSE
  Discoveries <- MCDiscoveries
  RequiredCount = 2
  Analyses = {"feature_analysis", "pricing_analysis"}
  OtherNodes <- MCOtherNodes
  Plain <- MCPlain
  Issues = {"gap", "stale"}
  MaxGlobalResearchCycles = 2
  MaxRetries = 1
  MaxCrashes = 2
INVARIANTS
  TypeOK
  ProjectionOfOneSelection
PROPERTIES
  RetriedAsPlanned
  RetryStartsOrIsOffered
  ResearchEnds
CHECK_DEADLOCK FALSE
