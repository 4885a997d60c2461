SPECIFICATION FairSpec
CONSTANTS
  c1 = c1
  c2 = c2
  g1 = g1
  Clients = {c1}
  Gpus = {g1}
  Captures = {"a", "b", "c"}
  MaxJobs = 2
  Requests <- LiveRequests
  CancelTargets = {}
  WaitTargets = {2}
  Completions <- LiveCompletions
  MaxClock = 1
  MaxCalls = 3
  SpuriousWakes = FALSE
PROPERTIES DeadlineEnforced DisposeCompletes
