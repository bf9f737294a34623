CONSTANTS
  Conn = {c1, c2}
  Repeats = {c1}
  Dev = {d1, d2}
  PoolSize = 4
  Wanted = {0, 1, 2, 3}
  NoConn = NoConn
  NoDev = NoDev
  NoAddr = NoAddr
SPECIFICATION Spec
INVARIANT NothingDangles
CHECK_DEADLOCK FALSE
