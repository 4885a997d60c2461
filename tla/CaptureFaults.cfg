SPECIFICATION FairSpec
CONSTANTS
  MaxAttempts = 1
  MaxFaults = 2
  MaxChanges = 1
  Kinds <- AllKinds
  Requests <- AllRequests
  Intervals = {0, 2}
  Overlays <- MCOverlays
  Defaults <- MCDefaults
  Libraries <- MCLibraries
  Installations <- MCInstallations
  Projects <- MCProjects
  Traces <- MCTraces
  MaxKeys = 8
  MaxPaths = 16
  SystemDirectories <- MCSystem
INVARIANTS PublishedIsQuiet SuccessIsEvidence QuarantineMeansDoubt
PROPERTIES Settles
CHECK_DEADLOCK FALSE
