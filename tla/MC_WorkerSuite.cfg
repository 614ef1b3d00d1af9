SPECIFICATION FairSpec
CONSTANTS
  N = 3
  Reps = 2
  Compute = 1
  Points = 2
  Sweep = FALSE
  Memory = "full"
CHECK_DEADLOCK FALSE
INVARIANTS
  MeasuredTogether
  ChaseIntact
  QuietReturn
PROPERTIES
  RunEnds
