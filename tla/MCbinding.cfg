SPECIFICATION Spec
CONSTANTS
  Editable = {"mock", "types"}
  MaxEdits = 2
  MaxBuilds = 2
  MaxRuns = 3
  None = None
INVARIANT QualifiedIsCurrent
CHECK_DEADLOCK FALSE
