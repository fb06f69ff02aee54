\* Two pull requests of the repository, one of them from a fork, three attempts of runs.
SPECIFICATION Spec
CONSTANTS
  PullRequests = {p1, p2}
  Forks = {p2}
  DriverPRs = {p1}
  MaxRevision = 2
  MaxRuns = 3
  NoPR = NoPR
  None = None
INVARIANTS ReuseExact SharedStateOwned NativeBuild
PROPERTIES EveryRunConcludes
CHECK_DEADLOCK FALSE
