CONSTANTS
  Id = {i1}
  Run = {r1, r2}
  Handler = {h1}
  Userspace = FALSE
  StunMayFail = FALSE
  NoId = NoId
  NoRun = NoRun
SPECIFICATION Spec
INVARIANT DestroyedQuietly
CHECK_DEADLOCK FALSE
