SPECIFICATION FairSpec
CONSTANTS
  Threads <- MCThreads
  Initial <- MCInitial
  Leader = 1
  Crasher = 2
  Trusted = {3}
  MayFail = TRUE
INVARIANTS
  TypeOK
  ReadsStillThreads
  LeavesNoneStopped
PROPERTIES
  ChildEnds
