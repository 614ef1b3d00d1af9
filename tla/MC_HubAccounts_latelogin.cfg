SPECIFICATION Spec
CONSTANTS
  Requests = {r1, r2}
  Names = {n1}
  Ops <- SessionOps
  MaxAccounts = 1
  MaxSessions = 3
  MaxUploads = 0
  MaxEpoch = 1
  None = None
CHECK_DEADLOCK FALSE
INVARIANTS
  ChangeEndsSessions
