\* Two lines contending for one line of each cache: a fetch after FENCE.I.
SPECIFICATION MSSpec
CONSTANTS
  TAGS = 2
  SETS = 1
  WAYS = 1
  I_WAYS = 1
  MEM_TRANSFERS_PER_CL = 2
  Lane = {0}
  AccessBeats = {1}
  Stamps = {100}
  Data <- MCData
  InitMem <- MCInitMem
  InitBank <- MCDataBank
  I_InitBank <- MCInstBank
  Requests <- MCRequests
  Fetches <- MCFetches
INVARIANTS FenceIOrdersFetch
