CONSTANTS
  Conn = {c1, c2}
  Repeats = {}
  Dev = {d1, d2}
  PoolSize = 4
  Wanted = {1, 2}
  Repeat = FALSE
  NoConn = NoConn
  NoDev = NoDev
  NoAddr = NoAddr
SPECIFICATION ServerSpec
PROPERTY ShutdownBlocks
CHECK_DEADLOCK FALSE
