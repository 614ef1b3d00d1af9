SPECIFICATION GatesSpec
CONSTANTS
  Handlers = {h1, h2, h3}
  Tokens = {a, b, c, d}
  ttl = 2
  cap = 2
  MaxTime = 4
  Callers = {c1, c2}
  Keys = {address, account}
  Accounts = {account}
  Limit = 1
  Factor = 2
  Window = 2
  KeyCap = 1
  Batch = 1
  MaxSkew = 1
  LastSecond = 4
  MaxHits = 3
SYMMETRY GateSymmetry
CHECK_DEADLOCK FALSE
INVARIANTS
  Bounded
  SpentOnce
  WithinLimit
PROPERTIES
  RefusedForCause
