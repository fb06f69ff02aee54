SPECIFICATION Spec
CONSTANTS
  Places <- ThreePlaces
  MaxEdits = 1
  MaxCommands = 2
INVARIANTS OneFormat MeaningKept
ACTION_CONSTRAINT EditsOrCommands
CHECK_DEADLOCK FALSE
