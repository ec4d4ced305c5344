\* The design's two ways and four-word lines, two sets.
SPECIFICATION HSpec
CONSTANTS
  TAGS = 3
  SETS = 2
  WAYS = 2
  MEM_TRANSFERS_PER_CL = 4
  Lane = {0}
  FetchBeats = {3}
  Data <- MCData
  InitMem <- MCInitMem
  InitBank <- MCInitBank
  Fetches <- MCFetches
INVARIANT NoTagDuplicate
PROPERTIES ImplementsAtomicMemory
