CONSTANTS
  Conn = {c1, c2}
  Repeats = {c2}
  Dev = {d1}
  PoolSize = 4
  Wanted = {1, 2}
  Repeat = FALSE
  NoConn = NoConn
  NoDev = NoDev
  NoAddr = NoAddr
SPECIFICATION ServerFairSpec
INVARIANTS ServerTypeOK RegistryExact
PROPERTIES RegistrySpec KickedLeaves StopDrains NeverReplaced
CHECK_DEADLOCK FALSE
