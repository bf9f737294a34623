CONSTANTS
  Node = {a}
  ConnectWithin = 3
  AliveWithin = 2
  RetryMin = 1
  RetryMax = 3
  StunEnabled = TRUE
  P2POnly = FALSE
SPECIFICATION Spec
INVARIANT AlwaysKnowsPeer
