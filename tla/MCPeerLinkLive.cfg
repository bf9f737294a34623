CONSTANTS
  Node = {a, b}
  ConnectWithin = 2
  AliveWithin = 2
  RetryMin = 1
  RetryMax = 1
  StunEnabled = TRUE
  P2POnly = TRUE
  SameLan = FALSE
  MaxNet = 1
  MaxPub = 2
SPECIFICATION LinkFairSpec
PROPERTY EventuallyConnected
