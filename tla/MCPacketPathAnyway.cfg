CONSTANTS
  n1 = n1
  n2 = n2
  n3 = n3
  Node = {n1, n2, n3}
  Link <- LinkDef
  RouteCost = 1
  RttMax = 2
  RTT_LIMIT = 12
  Rtts = {0, 3}
  MaxRtt = 8
  MaxEvents = 7
  NoRoute = NoRoute
  P2POnly = {n2}
  Src = n1
  Dst = n3
SPECIFICATION PathFairSpec
INVARIANT PathTypeOK
PROPERTY PacketEndsAnyway
CHECK_DEADLOCK FALSE
