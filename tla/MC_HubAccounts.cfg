SPECIFICATION Spec
CONSTANTS
  Requests = {r1, r2}
  Names = {n1}
  Ops <- AllOps
  MaxAccounts = 2
  MaxSessions = 2
  MaxUploads = 2
  MaxEpoch = 2
  None = None
CHECK_DEADLOCK FALSE
SYMMETRY HubSymmetry
INVARIANTS
  NamesUnique
  SessionsHaveUsers
  ClosingTakesStoredRuns
  StaleSessionsExplained
PROPERTIES
  DeletesTheClaimed
