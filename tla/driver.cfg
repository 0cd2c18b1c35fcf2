SPECIFICATION DriverSpec
CONSTANTS
  None = None
  Nodes <- DrivenNodes
  Kind <- DrivenKind
  Parent <- DrivenParent
  DependsOn <- DrivenDependsOn
  Required = {"idea", "gate_research", "competitor", "discovery", "ranking", "users", "synthesis", "proof_result"}
  Enabled <- DrivenNodes
  Interactive = {"idea"}
  Condition <- DrivenConditions
  AnyOf = {}
  OnTerminalEvent = {}
  ContractNode = None
  SortKey <- DrivenOrder
  Declared <- DrivenOrder
  MaxParallel = 2
  MaxRetriesPerNode = 1
  MaxGlobalResearchCycles = 1
  Decisions = {"APPROVE", "REQUEST_MORE_RESEARCH"}
  FailureActions = {"RETRY_NODE"}
  UsageReports = {FALSE}
  Proposing = {}
  Manual = {"users"}
  Writing = {}
  ChangedNodes = {}
  LateWrites = FALSE
  MaxAttempts = 2
CHECK_DEADLOCK FALSE
PROPERTIES
  Finishes
