CONSTANTS
  Session = {s1, s2}
  NoSession = NoSession
  NoPeer = NoPeer
  Idle = 1
  ReapEvery = 1
  PeerIdle = 2
  MaxTasks = 3
SPECIFICATION FairSpec
INVARIANTS TypeOK RecvArgValid FdSafe PeerKnown
PROPERTY SessionEnds
CHECK_DEADLOCK FALSE
