CONSTANTS
  PingAfter = 2
  DropAfter = 5
  AnswerIn = 2
  P2POnly = FALSE
  MaxQueue = 2
SPECIFICATION FairSpec
INVARIANT AddressBeforeAll
CHECK_DEADLOCK FALSE
