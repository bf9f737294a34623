CONSTANTS
  Wnd = 1
  SndBuf = 1
  HighWater = 2
  LowWater = 1
  ReadMax = 2
  OutBuf = 1
  InBuf = 2
  MemPressure = TRUE
  MaxTasks = 1
SPECIFICATION FairSpec
INVARIANTS TypeOK WindowConserved BacklogBounded
PROPERTIES TailDelivered SessionEnds
CHECK_DEADLOCK FALSE
