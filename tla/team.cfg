SPECIFICATION Spec
CONSTANTS
  None = None
  Nodes <- TeamNodes
  Kind <- TeamKind
  Parent <- AllTop
  DependsOn <- TeamDependsOn
  Required <- TeamNodes
  Enabled <- TeamNodes
  Interactive = {"idea"}
  Condition <- NoConditions
  AnyOf = {}
  OnTerminalEvent = {}
  ContractNode = None
  SortKey <- TeamOrder
  Declared <- TeamOrder
  MaxParallel = 1
  MaxRetriesPerNode = 1
  MaxGlobalResearchCycles = 1
  Decisions = {}
  FailureActions = {"RETRY_NODE", "OPEN_RESEARCH_GAP", "BLOCK_NODE", "MARK_NOT_READY", "PAUSE_AUTOMATION", "FAIL_WORKFLOW", "WAIT_FOR_USER", "WAIT_FOR_EXTERNAL"}
  UsageReports = {TRUE, FALSE}
  Proposing = {"users"}
  Manual = {"users"}
  Writing = {"market"}
  ChangedNodes = {"idea"}
  LateWrites = TRUE
  MaxAttempts = 2
CHECK_DEADLOCK FALSE
INVARIANTS
  TypeOK
  NodeAttemptAgreement
  AttemptsCounted
  WaitsAreAnswerable
PROPERTIES
  StartsWithinQuota
