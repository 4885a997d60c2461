SPECIFICATION FairSpec
CONSTANTS
  MaxAttempts = 2
  MaxFaults = 0
  MaxChanges = 1
  Kinds <- PairKinds
  Requests <- OneRequest
  Intervals = {0}
  Overlays <- MCOverlays
  Defaults <- MCDefaults
  Libraries <- MCLibraries
  Installations <- OneInstallation
  Projects <- PairProjects
  Traces <- PairTraces
  MaxKeys = 8
  MaxPaths = 16
  SystemDirectories <- MCSystem
INVARIANTS TreesConfined ReplaysTheCapture
CHECK_DEADLOCK FALSE
