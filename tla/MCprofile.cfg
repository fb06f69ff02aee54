\* Both profiles: one holder and the adapter, three commands, two changes from outside.
SPECIFICATION Spec
CONSTANTS
  Holders = {h1}
  Adapter = Adapter
  InitialBalance <- Balances
  Profiles = {"partial", "hook"}
  CaseIds = {c1, c2}
  Nonces = {n1, n2, n3}
  Entitlements = {e1}
  Targets = {1, 3}
  MaxChanges = 2
  None = None
INVARIANTS OwnedIsAccounted FrozenFloor CustodyBacked
PROPERTIES FailsClosed
SYMMETRY Interchangeable
CHECK_DEADLOCK FALSE
