CONSTANTS
  Wnd = 2
  SndBuf = 1
  HighWater = 1
  LowWater = 0
  ReadMax = 1
  OutBuf = 1
  InBuf = 1
  MemPressure = FALSE
  MaxTasks = 2
SPECIFICATION FairSpec
PROPERTY ForwardFlows
CHECK_DEADLOCK FALSE
