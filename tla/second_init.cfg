SPECIFICATION FairSpec
CONSTANTS
  Threads = {t1}
  Nobody = Nobody
  Calls = {k1, k2}
  StartFails = FALSE
  LookupFails = FALSE
PROPERTIES
  CrashIsReported
CHECK_DEADLOCK FALSE
