SPECIFICATION Spec
CONSTANTS
  Threads = {t1, t2}
  Nobody = Nobody
  Calls = {k1, k2}
  StartFails = TRUE
  LookupFails = FALSE
INVARIANTS
  ToldOnce
  FillsLiveInfo
  ReportIsAlive
PROPERTIES
  CrashReportSpec
CHECK_DEADLOCK FALSE
