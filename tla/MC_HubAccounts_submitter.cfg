SPECIFICATION Spec
CONSTANTS
  Requests = {r1, r2}
  Names = {n1, n2}
  Ops <- RunOps
  MaxAccounts = 2
  MaxSessions = 2
  MaxUploads = 2
  MaxEpoch = 0
  None = None
CHECK_DEADLOCK FALSE
INVARIANTS
  ShownUnderUploader
