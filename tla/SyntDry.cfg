SPECIFICATION ToolsSpec
CONSTANTS
  NONE = NONE
  RAISED = RAISED
  EARLIER = EARLIER
  Launches <- SomeLaunches
  File <- SomeFiles
  Sections = {"defines"}
  HexFiles = {"hello.mem"}
  Words = {"rtl", "tb"}
  DefineOptions = {"-d"}
  IncludeOptions = {"--include"}
  HasSrc = {"rtl"}
  Inputs <- SomeTokens
  Configs <- SomeConfigs
  Checkouts <- SomeCheckouts
  MAX_EVENTS = 4
  MaxKills = 1
  MaxEdits = 1
  WORKLOADS <- SomeWorkloads
  Logs <- SomeLogs
  ANY = ANY
  Designs <- SomeDesigns
  Roots = {ANY, "a", "c", "z"}
  Rounded <- RoundedPairs
INVARIANT DryRunGenerates
CHECK_DEADLOCK FALSE
