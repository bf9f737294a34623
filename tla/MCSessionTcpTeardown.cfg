CONSTANTS
  Wnd = 1
  SndBuf = 1
  HighWater = 1
  LowWater = 0
  ReadMax = 1
  OutBuf = 1
  InBuf = 1
  MemPressure = FALSE
  MaxTasks = 1
SPECIFICATION FairSpec
PROPERTY TeardownReleases
CHECK_DEADLOCK FALSE
