SPECIFICATION FairSpec
CONSTANTS
  Threads = {t1, t2}
  NoThread = NoThread
  Signals = {SEGV, ABRT}
  Segv = SEGV
  Abort = ABRT
  Handlers = {h1, h2}
  ThirdParty = {}
  ClientDumps = FALSE
  SigactionFails = {}
  FirstChances = TRUE
INVARIANTS
  TypeOK
  ContextIsMine
  RestoreLeadsAway
  NoSelfDeadlock
  LoneCrashIsAppropriate
  DumpedOnce
PROPERTIES
  CrashEnds
