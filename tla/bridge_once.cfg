SPECIFICATION FairSpec
CONSTANTS
  Threads = {t1, t2}
  Nobody = Nobody
  Calls = {k1}
  StartFails = FALSE
  LookupFails = FALSE
INVARIANTS
  TypeOK
PROPERTIES
  CrashEnds
  CrashIsReported
