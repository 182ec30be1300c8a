SPECIFICATION FairSpec
CONSTANTS
  c1 = c1
  c2 = c2
  h1 = h1
  h2 = h2
  Callers = {c1, c2}
  Nobody = Nobody
  Crashes = {c1, c2}
  Handlers = {h1, h2}
  HandlerOf <- OneHandler
  Text <- Texts
  Caret = Caret
  Nul = Nul
  Fds <- Descriptors
  Capacity = 4
  NoResources = TRUE
  ChildFails = TRUE
  WaitFails = {c1}
  MayDie = TRUE
INVARIANTS
  TypeOK
  ReportIsOwn
  AppKeepsFiles
  NothingLeaks
PROPERTIES
  DumpReturns
  OrphansEnd
