CONSTANTS
  Id = {i1}
  Run = {r1, r2}
  Handler = {h1}
  Userspace = TRUE
  StunMayFail = FALSE
  NoId = NoId
  NoRun = NoRun
SPECIFICATION FairSpec
PROPERTY DestroyEnds
CHECK_DEADLOCK FALSE
