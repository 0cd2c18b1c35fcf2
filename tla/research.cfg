SPECIFICATION Spec
CONSTANTS
  None = None
  Nodes <- ResearchNodes
  Kind <- ResearchKind
  Parent <- ResearchParent
  DependsOn <- ResearchDependsOn
  Required <- ResearchNodes
  Enabled <- ResearchNodes
  Interactive = {"idea"}
  Condition <- NoConditions
  AnyOf = {}
  OnTerminalEvent = {}
  ContractNode = None
  SortKey <- ResearchOrder
  Declared <- ResearchOrder
  MaxParallel = 2
  MaxRetriesPerNode = 1
  MaxGlobalResearchCycles = 1
  Decisions = {}
  FailureActions = {"RETRY_NODE"}
  UsageReports = {FALSE}
  Proposing = {}
  Manual = {}
  Writing = {"discovery"}
  ChangedNodes = {"idea", "discovery"}
  LateWrites = FALSE
  MaxAttempts = 2
CHECK_DEADLOCK FALSE
INVARIANTS
  DependencyClosure
  InputsCurrent
  VerifiedIsBacked
PROPERTIES
  StartsLast
  ImplementsLedger
