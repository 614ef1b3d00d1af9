SPECIFICATION ReportSpec
CONSTANTS
  Machines <- TimedMachines
  Seconds = 50
  Warmup = 5
  TargetBatch = 4
  MaxBatch = 20
  BatchCap = 16
  Reps = 2
  Delays = {7, 40}
  MaxDelays = 2
  LaneCount = 3
  Ways = 2
  Nodes = 7
  OrderNumbers = 8
  Words = 8
  Periods = {1, 2, 4}
  Selectors = {1, 2}
  Batches = {1, 3}
  MaxUnits = 8
  Ladder <- Rungs
  PlateauPts = 3
  Setups <- MeasuredSetups
  ThreadWorkers <- Threads
  CoreWorkers <- OnOneCore
  MaxRecords = 4
  Binaries <- Executables
  Block = 8
  LenSize = 2
  Chunk = 5
  Documents = 2
  NoDigest = NoDigest
  Hosts <- DescribedHosts
  MaxCpus = 4
  Separator = "+"
  Implementers <- Makers
  ArmLtd = "0x41"
  Generic <- NoNames
  NameSpace = 9
  Commands <- CommandLines
  BuiltinHub = ""
  WebUrls = {"http://a", "https://b"}
  Variants <- Builds
  Distinct = {"scalar-nofma", "vector-nofma"}
  ListSize = 5
  NumberOf <- Numbers
  IntMax = 7
  LongMax = 17
  NeverEnds = FALSE
  Sweeps <- Pinnings
CHECK_DEADLOCK FALSE
INVARIANTS
  RateHonest
  ChasesCoverTheBuffer
  WorkIsWhatIsCounted
  HonestUploadAccepted
  SpanReadsThePredictor
  TotalWithinRows
  DigestNamesTheBinary
  NamesEveryCore
  RunAsAsked
  SizedForDram
  PinnedWhereAsked
PROPERTIES
  TimerEnds
