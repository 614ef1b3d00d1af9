SPECIFICATION FairSpec
CONSTANTS
  Threads = {t1, t2, t3, t4}
  NoThread = NoThread
  Crossings = 3
  MaxGeneration = 1
  MaxSpurious = 3
CHECK_DEADLOCK FALSE
INVARIANTS
  NobodyEarly
  NoLostWakeup
PROPERTIES
  RendezvousSpec
  AllCross
