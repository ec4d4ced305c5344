\* The scripts; two lines contending for one line of each cache.
SPECIFICATION PartsSpec
CONSTANTS
  NONE = NONE
  RAISED = RAISED
  EARLIER = EARLIER
  Launches <- SomeLaunches
  File <- SomeFiles
  Sections = {"defines"}
  HexFiles = {"hello.mem"}
  Words = {"rtl", "tb"}
  DefineOptions = {"-d"}
  IncludeOptions = {"--include"}
  HasSrc = {"rtl"}
  Inputs <- SomeTokens
  Configs <- SomeConfigs
  Checkouts <- SomeCheckouts
  MAX_EVENTS = 4
  MaxKills = 1
  MaxEdits = 1
  WORKLOADS <- SomeWorkloads
  Logs <- SomeLogs
  ANY = ANY
  Designs <- SomeDesigns
  Roots = {ANY, "a", "c", "z"}
  Rounded <- RoundedPairs
  TAGS = 2
  SETS = 1
  WAYS = 1
  I_WAYS = 1
  MEM_TRANSFERS_PER_CL = 2
  Lane = {0}
  AccessBeats = {1}
  Stamps = {100}
  Data <- MCData
  InitMem <- MCInitMem
  InitBank <- MCDataBank
  I_InitBank <- MCInstBank
  Requests <- MCRequests
  Fetches <- MCFetches
INVARIANTS
  SuccessMeansAll OwnArtifacts NoOrphans DefinesOfNearest
  TokensTakenOnce
  SuccessMeansInStep EncodingsAgree
  RightWorkload
  NothingLost GraphComplete
  TableFromScript
  CodeIsIntact OnlyStoredLinesChange
PROPERTIES EveryJobRuns HandWrittenKept
CHECK_DEADLOCK FALSE
