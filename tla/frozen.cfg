SPECIFICATION Spec
CONSTANTS
  Threads <- MCTwo
  Initial <- MCTwo
  Leader = 1
  Crasher = 2
  Trusted = {}
  MayFail = FALSE
INVARIANTS
  ProcessIsResumed
