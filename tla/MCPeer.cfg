CONSTANTS
  Node = {a}
  ConnectWithin = 3
  AliveWithin = 2
  RetryMin = 1
  RetryMax = 3
  StunEnabled = TRUE
  P2POnly = TRUE
SPECIFICATION FairSpec
INVARIANTS TypeOK KnowsUnlessRaced
PROPERTY PathRepaired
