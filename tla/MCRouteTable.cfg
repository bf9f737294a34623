CONSTANTS
  Node = {n1, n2, n3}
  RouteCost = 1
  RttMax = 2
  RTT_LIMIT = 12
  Rtts = {0, 3}
  MaxRtt = 8
  MaxEvents = 7
  NoRoute = NoRoute
SPECIFICATION FairSpec
INVARIANTS TypeOK NoSelfRoute
PROPERTIES WorseOnlyByNextHop RouteTrafficSettles
CHECK_DEADLOCK FALSE
