SPECIFICATION Spec
CONSTANTS
  Themes <- MCThemes
  Buffers = {"b", "c", "n"}
  Queues = {"main", "side"}
  Pools = {"p", "r"}
  MaxDepth = 2
  MaxRows = 4
  MaxRecords = 3
INVARIANTS DurationsAreTheirOwn TimedWhenEvident CountersOfTheRow
CHECK_DEADLOCK FALSE
