SPECIFICATION Spec
CONSTANTS
  LowBase = 2
  High1Base = 4
  High2Base = 3
  Window1 = 3
  Window2 = 4
  NPos = 6
  SampleMax = 8
INVARIANTS
  HighEarly
  TerminatorLargest
  ScanComplete
  RowRead
CHECK_DEADLOCK FALSE
