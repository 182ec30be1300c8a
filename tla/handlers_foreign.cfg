SPECIFICATION FairSpec
CONSTANTS
  Threads = {t1, t2}
  NoThread = NoThread
  Signals = {SEGV, ABRT}
  Segv = SEGV
  Abort = ABRT
  Handlers = {h1}
  ThirdParty = {SEGV}
  ClientDumps = TRUE
  SigactionFails = {SEGV}
  FirstChances = FALSE

  
PROPERTIES
  FaultIsServed
CHECK_DEADLOCK FALSE
