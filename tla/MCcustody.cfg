\* Seizures, releases and dispositions between three accounts, two cases
\* deep, with ordinary and delegated transfers, freezes and a restriction in
\* between.
SPECIFICATION Spec
CONSTANTS
  Zero = Zero
  a1 = a1  a2 = a2  a3 = a3  c1 = c1  c2 = c2  e1 = e1
  d1 = d1  k1 = k1  g1 = g1  g2 = g2  id1 = id1
  Accounts = {a1, a2, a3}
  MaxUint = 3
  Supply = 3
  InitialHolder = a1
  CaseIds = {c1, c2}
  ActionIds = {1, 2, 3}
  ReversalIds = {11, 12}
  Requests <- CustodyRequests
  Amounts = {1, 2}
  ApprovalValues = {1, 3}
  AuthorityRefs = {ref}
  AuthorityEpochs = {1}
  InitialAuthorityRef = ref
  InitialAuthority = a2
  Nonces = {1, 2, 3, 4, 5}
  Entitlements = {e1}
  Windows <- AlwaysOpen
  MaxTime = 0
  Dependencies = {d1}
  InitialDependency <- OneDependency
  Codes = {k1}
  Configs = {g1}
  GovernanceIds = {}
  GovernanceNonces = {}
INVARIANTS SupplyConserved CustodyAccounting BackingSolvency
PROPERTIES OrdinaryTransferProtects
ACTION_CONSTRAINTS InOrder OneAllowance
