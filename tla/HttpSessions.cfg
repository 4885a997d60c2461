SPECIFICATION Spec
CONSTANTS
  c1 = c1
  c2 = c2
  f1 = f1
  f2 = f2
  Conns = {c1, c2}
  Fds = {f1, f2}
  Workers = 2
  Backlog = 1
  Lifetime = 1
  MaxSessions = 2
  Idle = 1
  MaxSessionIds = 3
  MaxRequests = 4
  Requests <- SessionRequests
SYMMETRY Symmetries
INVARIANTS SocketsOwned ToolInItsSession NobodyHoldsTheStop
