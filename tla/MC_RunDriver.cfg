SPECIFICATION FairSpec
CONSTANTS
  Replies <- MCReplies
  MaxReply = 18
  MaxVariants = 2
  Cores = 2
CHECK_DEADLOCK FALSE
INVARIANTS
  ReplyRead
  ReportWhole
  PrintedFirst
  SigpipeScoped
  SocketExitMeansStored
PROPERTIES
  DriverEnds
