\* A buffer of more nodes than the order has numbers for.
SPECIFICATION WorkloadSpec
CONSTANTS
  LaneCount = 2
  Ways = 2
  Nodes = 7
  OrderNumbers = 4
  Words = 4
  Periods = {1}
  Selectors = {1}
  Batches = {1}
  MaxUnits = 2
CHECK_DEADLOCK FALSE
INVARIANT
  ChasesNeverCollapse
