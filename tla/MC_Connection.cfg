SPECIFICATION FairSpec
CONSTANTS
  MaxBody = 2
  MaxAuthBody = 1
  MaxDrain = 3
  MaxLength = 4
  MaxRequests = 2
CHECK_DEADLOCK FALSE
INVARIANTS
  Framed
  AnswersMatch
  NoHangUpOnWriter
PROPERTIES
  EveryRequestAnswered
