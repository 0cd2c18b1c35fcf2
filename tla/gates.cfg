SPECIFICATION Spec
CONSTANTS
  None = None
  Nodes <- GateNodes
  Kind <- GateKind
  Parent <- AllTop
  DependsOn <- GateDependsOn
  Required = {"contract", "gate_direction", "gate_scope", "build_readiness"}
  Enabled <- GateNodes
  Interactive = {}
  Condition <- GateConditions
  AnyOf = {"research_gap"}
  OnTerminalEvent = {"build_readiness"}
  ContractNode = "contract"
  SortKey <- GateOrder
  Declared <- GateOrder
  MaxParallel = 1
  MaxRetriesPerNode = 1
  MaxGlobalResearchCycles = 1
  Decisions = {"APPROVE", "REQUEST_MORE_RESEARCH", "MODIFY", "CANCEL"}
  FailureActions = {"BLOCK_NODE"}
  UsageReports = {FALSE}
  Proposing = {}
  Manual = {}
  Writing = {"contract"}
  ChangedNodes = {"contract"}
  LateWrites = FALSE
  MaxAttempts = 2
CHECK_DEADLOCK FALSE
INVARIANTS
  GateRecordsAgree
