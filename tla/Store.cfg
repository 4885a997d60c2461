SPECIFICATION Spec
CONSTANTS
  t1 = t1
  t2 = t2
  Threads = {t1, t2}
  MaxIds = 2
  MaxBytes = 4
  MaxAge = 1
  MaxContent = 1
  Growth = 1
  MaxClock = 1
  MaxCrashes = 1
  MaxFaults = 1
  MaxCalls = 4
  Rewrites = FALSE
SYMMETRY ThreadSymmetry
INVARIANTS RecoveryAccepts CatalogueMatchesDisk EvidenceAccounted AbandonedIsQuarantined
PROPERTIES ProtectedNeverClaimed SuccessWithinBudget
