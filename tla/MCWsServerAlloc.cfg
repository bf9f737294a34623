CONSTANTS
  Conn = {c1, c2, c3}
  Repeats = {}
  Dev = {d1, d2}
  PoolSize = 4
  Wanted = {0, 1, 2, 3}
  NoConn = NoConn
  NoDev = NoDev
  NoAddr = NoAddr
SPECIFICATION Spec
SYMMETRY Symmetry
PROPERTY AllocatedIsFree
CHECK_DEADLOCK FALSE
