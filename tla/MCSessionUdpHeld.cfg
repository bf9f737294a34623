CONSTANTS
  Session = {s1, s2}
  NoSession = NoSession
  NoPeer = NoPeer
  Idle = 1
  ReapEvery = 1
  PeerIdle = 2
  MaxTasks = 2
SPECIFICATION Spec
INVARIANT HeldWhileAlive
CHECK_DEADLOCK FALSE
