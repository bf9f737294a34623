CONSTANTS
  PingAfter = 2
  DropAfter = 5
  AnswerIn = 2
  P2POnly = FALSE
  MaxQueue = 2
SPECIFICATION FairSpec
INVARIANTS TypeOK AddressFirst AddressOnce
PROPERTIES LiveServerKept DeadServerNoticed
CHECK_DEADLOCK FALSE
