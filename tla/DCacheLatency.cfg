\* The design's lines of four bus words, two ways, one set: the first write-back
\* shows it.
SPECIFICATION HSpec
CONSTANTS
  TAGS = 3
  SETS = 1
  WAYS = 2
  MEM_TRANSFERS_PER_CL = 4
  Lane = {0, 1}
  Stamps = {100}
  StoreTags = {0}
  StoreMasks = {{0}}
  StoredBeat = 2
  FirstBeatTags = {1}
  Data <- MCData
  InitMem <- MCInitMem
  InitBank <- MCInitBank
  Requests <- MCRequests
INVARIANT DocumentedLatency
