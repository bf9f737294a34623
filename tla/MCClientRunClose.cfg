CONSTANTS
  Id = {i1}
  Run = {r1, r2}
  Handler = {h1}
  Userspace = FALSE
  StunMayFail = FALSE
  NoId = NoId
  NoRun = NoRun
SPECIFICATION FairSpec
PROPERTY ShutdownCloses
CHECK_DEADLOCK FALSE
