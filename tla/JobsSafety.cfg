SPECIFICATION Spec
CONSTANTS
  c1 = c1
  c2 = c2
  g1 = g1
  Clients = {c1, c2}
  Gpus = {g1}
  Captures = {"a", "b", "c"}
  MaxJobs = 2
  Requests <- ContentionRequests
  CancelTargets = {1}
  WaitTargets = {}
  Completions <- ContentionCompletions
  MaxClock = 1
  MaxCalls = 3
  SpuriousWakes = TRUE
SYMMETRY ClientSymmetry
INVARIANTS GpuExclusive CallableLifetime DeadlineRespected
PROPERTIES SettledForever ImplementsLease
