SPECIFICATION Spec
CONSTANTS
  Replies <- MCReplies
  MaxReply = 18
  MaxVariants = 2
  Cores = 2
CHECK_DEADLOCK FALSE
INVARIANTS
  ExitMeansStored
