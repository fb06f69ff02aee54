\* Authority rotation, rebinding, dependency drift and validity windows
\* around two commands.
SPECIFICATION Spec
CONSTANTS
  Zero = Zero
  a1 = a1  a2 = a2  a3 = a3  c1 = c1  c2 = c2  e1 = e1
  d1 = d1  k1 = k1  g1 = g1  g2 = g2  id1 = id1
  Accounts = {a1, a2}
  MaxUint = 3
  Supply = 2
  InitialHolder = a1
  CaseIds = {c1, c2}
  ActionIds = {1, 2}
  ReversalIds = {11}
  Requests <- GovernedRequests
  Amounts = {}
  ApprovalValues = {0}
  AuthorityRefs = {ref}
  AuthorityEpochs = {1, 2, 3}
  InitialAuthorityRef = ref
  InitialAuthority = a2
  Nonces = {1, 2}
  Entitlements = {e1}
  Windows <- SomeWindows
  MaxTime = 1
  Dependencies = {d1}
  InitialDependency <- OneDependency
  Codes = {k1}
  Configs = {g1, g2}
  GovernanceIds <- ClashingGovernanceIds
  GovernanceNonces = {1, 2}
INVARIANTS EvidenceMatchesRoot RootNeverRecurs GovernanceOnce
PROPERTY AuthorityInForce
ACTION_CONSTRAINT InOrder
