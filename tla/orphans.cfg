SPECIFICATION FairSpec
CONSTANTS
  c1 = c1
  c2 = c2
  h1 = h1
  h2 = h2
  Callers = {c1, c2}
  Nobody = Nobody
  Crashes = {}
  Handlers = {h1, h2}
  HandlerOf <- TwoHandlers
  Text <- Texts
  Caret = Caret
  Nul = Nul
  Fds <- Descriptors
  Capacity = 4
  NoResources = FALSE
  ChildFails = FALSE
  WaitFails = {}
  MayDie = TRUE
PROPERTIES
  OrphansEnd
CHECK_DEADLOCK FALSE
