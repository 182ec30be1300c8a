SPECIFICATION Spec
CONSTANTS
  Threads = {t1, t2}
  NoThread = NoThread
  Signals = {SEGV, ABRT}
  Segv = SEGV
  Abort = ABRT
  Handlers = {h1}
  ThirdParty = {}
  ClientDumps = FALSE
  SigactionFails = {}
  FirstChances = FALSE
INVARIANTS
  RetriggerIsAppropriate
