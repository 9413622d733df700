SPECIFICATION Spec
CONSTANTS
  p1 = p1
  p2 = p2
  Players = {p1, p2}
  Extends <- Prefix
  MaxSessions = 2
  MaxRestarts = 1
  Refusals = TRUE
  MaxChunks = 2
  MaxRequests = 2
CONSTRAINT Focus
INVARIANTS
  TypeOK
  ThreadOfSession
  ChunksKept
  WorldOfPermitted
  AttachmentCurrent
CHECK_DEADLOCK FALSE
