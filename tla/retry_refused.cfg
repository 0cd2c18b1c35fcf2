SPECIFICATION Spec
CONSTANTS
  None = None
  Torn = Torn
  TornWrites = FALSE
  Discoveries <- MCDiscoveries
  RequiredCount = 2
  Analyses = {"feature_analysis", "pricing_analysis"}
  OtherNodes <- MCOtherNodes
  Plain <- MCPlain
  Issues = {"gap", "stale"}
  MaxGlobalResearchCycles = 2
  MaxRetries = 2
  MaxCrashes = 2
INVARIANT RetriesCanWrite
CHECK_DEADLOCK FALSE
