CONSTANTS
  Node = {a, b}
  ConnectWithin = 3
  AliveWithin = 2
  RetryMin = 1
  RetryMax = 2
  StunEnabled = TRUE
  P2POnly = FALSE
  SameLan = FALSE
  MaxNet = 1
  MaxPub = 2
SPECIFICATION LinkFairSpec
PROPERTY FailedRetried
