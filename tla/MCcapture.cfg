SPECIFICATION Spec
CONSTANTS
  None = None
  Plans <- CapturePlans
  RuntimeContracts = 2
  MaxEdits = 2
INVARIANTS
  AloneOnChain
  FixtureWhole
  PassReachedCode
ACTION_CONSTRAINTS
  CapturesFirst
  EditsMatter
CHECK_DEADLOCK FALSE
