SPECIFICATION WorldsSpec
CONSTANTS
  p1 = p1
  p2 = p2
  Players = {p1, p2}
  Extends <- Prefix
  MaxSessions = 2
  MaxRestarts = 1
  Refusals = FALSE
INVARIANTS
  NofunRemoves
CHECK_DEADLOCK FALSE
