SPECIFICATION Spec
CONSTANTS
  None = None
  Torn = Torn
  Keys = {k1}
  Contents = {c1}
  Changeable <- ScoringNode
  TornWrites = FALSE
  MaxAttempts = 2
  MaxVersion = 1
  MaxCrashes = 0
INVARIANTS
  CommittedLoadable
CHECK_DEADLOCK FALSE
