\* Every kind of action and reversal on two holders, against the kernel.
SPECIFICATION Spec
CONSTANTS
  Zero = Zero
  a1 = a1  a2 = a2  a3 = a3  c1 = c1  c2 = c2  e1 = e1
  d1 = d1  k1 = k1  g1 = g1  g2 = g2  id1 = id1
  Accounts = {a1, a2}
  MaxUint = 3
  Supply = 2
  InitialHolder = a1
  CaseIds = {c1, c2}
  ActionIds = {1, 2, 3, 4}
  ReversalIds = {11, 12}
  Requests <- MixedRequests
  Amounts = {0, 1}
  ApprovalValues = {0}
  AuthorityRefs = {ref}
  AuthorityEpochs = {1}
  InitialAuthorityRef = ref
  InitialAuthority = a2
  Nonces = {1, 2, 3, 4, 5, 6}
  Entitlements = {e1}
  Windows <- AlwaysOpen
  MaxTime = 0
  Dependencies = {d1}
  InitialDependency <- OneDependency
  Codes = {k1}
  Configs = {g1}
  GovernanceIds = {}
  GovernanceNonces = {}
INVARIANTS HeadOwnership FreezeChain OpenCaseReversible ReceiptChain ReversalOnce SpentOnce DerivedState
PROPERTIES TerminalForever ImplementsKernel
ACTION_CONSTRAINT InOrder
SYMMETRY EitherCase
