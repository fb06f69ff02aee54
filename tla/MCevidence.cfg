SPECIFICATION Spec
CONSTANTS
  Editable = {"spec", "token", "base", "hook", "thy", "ledger"}
  Removable = {"det", "foundry", "isa", "kontrol", "certora", "binding", "repro"}
  MaxEdits = 2
  MaxRuns = 3
  None = None
INVARIANTS NoStaleCredit RefreshAccepted
CHECK_DEADLOCK FALSE
