SPECIFICATION Spec
CONSTANTS
  Conns = {c1, c2}
  Modes = {"connect", "status"}
  MaxChats = 0
  Urgent = {}
  Unencodable = {}
  MaxPushes = 0
  MaxInFlight = 1
  WriteBatch = 1
  ReadBatch = 1
  App = App
  Free = Free
INVARIANTS
  ReachesItsServer
CHECK_DEADLOCK FALSE
