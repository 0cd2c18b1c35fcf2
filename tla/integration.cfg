SPECIFICATION Spec
CONSTANTS
  None = None
  Torn = Torn
  Keys = {k1, k2, k3}
  Contents = {c1, c2}
  Changeable <- ReportNodes
  TornWrites = TRUE
  MaxAttempts = 2
  MaxVersion = 2
  MaxCrashes = 1
INVARIANTS
  TypeOK
  CommittedLoadable
  OnceOnly
  InterruptedFinishesUnlessTorn
SYMMETRY Interchangeable
CHECK_DEADLOCK FALSE
