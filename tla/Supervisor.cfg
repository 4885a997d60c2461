SPECIFICATION FairSpec
CONSTANTS
  MaxProcs = 2
  Kinds = {"deaf", "stuck"}
  Timeout = 1
  Grace = 1
  Budget = 1
  Margin = 3
  MaxClock = 6
  Accidents = {"caller dies", "supervisor dies", "supervisor hangs"}
  Prompt = TRUE
INVARIANTS ConfirmedMeansGone ResultFaithful
PROPERTIES TreeEnds
