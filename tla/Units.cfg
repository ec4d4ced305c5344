SPECIFICATION UnitsSpec
CONSTANTS
  W = 4
  First <- AllPairs
  Later <- SomePairs
  MaxDivisions = 3
  CHAR = 6
  MaxHold = 3
  RxSettle = 2
  TxSettle = 1
  MaxRx = 3
  MaxTx = 2
  HALF = 4
  CLOCKS_PER_US = 3
  MaxGap = 1
  MaxWait = 2
  Times <- SomeTimes
  Alarms <- SomeAlarms
  MaxPrograms = 3
  LastReg = 2
  Forms <- SomeForms
  MaxInsts = 5
INVARIANTS
  ResultRight
  SentOnce ReceivedOnce
  OperandsAreLatest MinstretCounts
  TimeIsSet ReadConsistent TimerExact
CHECK_DEADLOCK FALSE
