\* What the vectors exercise, in every order.
SPECIFICATION Spec
CONSTANTS
  None = None
  Zero = Zero
  s1 = s1  s2 = s2  c1 = c1  c2 = c2  c3 = c3
  Subjects = {s1, s2}
  CaseIds = {c1, c2, c3}
  Custodian = Custodian
  Buyer = Buyer
  Recovered = Recovered
  Entitlement = Entitlement
  Shapes <- VectorShapes
  Pairs <- VectorPairs
  MaxCommands = 5
INVARIANTS SameVerdict ReceiptsExplain
CHECK_DEADLOCK FALSE
