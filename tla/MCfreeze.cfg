\* Two freezes of the static product while somebody works in the tree.
SPECIFICATION Spec
CONSTANTS
  Missing = Missing  Torn = Torn  Edited = Edited
  EditedSources = {"matrixSrc", "lengthSrc", "runtime", "offsetParse"}
  TouchedOutputs = {"matrix", "offset", "graphs"}
  MaxDisturbances = 2
  MaxRuns = 2
PROPERTIES FreezeSound QuietRunPasses
CHECK_DEADLOCK FALSE
