\* The design's lines of four bus words; three ways, for the general LRU rule;
\* a second set beside the one in which lines are replaced; partial stores.
SPECIFICATION HLiveSpec
CONSTANTS
  TAGS = 4
  SETS = 2
  WAYS = 3
  MEM_TRANSFERS_PER_CL = 4
  Lane = {0, 1}
  Stamps = {100}
  StoreTags = {0}
  StoreMasks = {{0}}
  StoredBeat = 2
  FirstBeatTags = {1}
  Data <- MCData
  InitMem <- MCInitMem
  InitBank <- MCInitBank
  Requests <- MCRequests
INVARIANTS NoTagDuplicate HitExcludesPending CleanLineIsCopy
           LruIsRanking VictimIsLeastRecent
PROPERTIES ImplementsAtomicMemory VictimSavedFirst
