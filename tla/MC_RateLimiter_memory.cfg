SPECIFICATION LimiterSpec
CONSTANTS
  Callers = {h1}
  Keys = {k1, k2, k3}
  Accounts = {}
  Limit = 1
  Factor = 2
  Window = 1
  KeyCap = 1
  Batch = 1
  MaxSkew = 0
  LastSecond = 5
  MaxHits = 2
CHECK_DEADLOCK FALSE
PROPERTIES
  MemoryBounded
