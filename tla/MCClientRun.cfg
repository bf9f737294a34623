CONSTANTS
  Id = {i1}
  Run = {r1, r2, r3}
  Handler = {h1}
  Userspace = TRUE
  StunMayFail = TRUE
  NoId = NoId
  NoRun = NoRun
SPECIFICATION FairSpec
INVARIANTS TypeOK RunsMatchIds
PROPERTIES Reconnects StopInRunEnds
CHECK_DEADLOCK FALSE
