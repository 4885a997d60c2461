SPECIFICATION Spec
CONSTANTS
  t1 = t1
  t2 = t2
  Threads = {t1}
  MaxIds = 1
  MaxBytes = 0
  MaxAge = 0
  MaxContent = 2
  Growth = 1
  MaxClock = 0
  MaxCrashes = 1
  MaxFaults = 1
  MaxCalls = 0
  Rewrites = TRUE
INVARIANT RecoveryAccepts
