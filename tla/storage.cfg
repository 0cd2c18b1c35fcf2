SPECIFICATION Spec
CONSTANTS
  None = None
  Torn = Torn
  Mutations <- EveryMutation
  EventsOf <- EveryEvents
  Requests = {"pause_run", "submit_gate_decision"}
  Sourced = {"write_typed_artifact", "complete_business_attempt"}
  Gated = {"open_human_gate"}
  Decided = {"submit_gate_decision"}
  Staged = {"complete_business_attempt"}
  TornWrites = TRUE
  MaxVersion = 2
  MaxCrashes = 2
CHECK_DEADLOCK FALSE
INVARIANTS
  TypeOK
  AppliedOnce
  AuditComplete
  DecisionsLinked
  SourcesComplete
PROPERTIES
  ImplementsHistory
