SPECIFICATION Spec
CONSTANTS
  Conns = {c1}
  Modes = {"connect", "status"}
  MaxChats = 4
  Urgent = {2, 4}
  Unencodable = {3, 4}
  MaxPushes = 2
  MaxInFlight = 2
  WriteBatch = 2
  ReadBatch = 2
  App = App
  Free = Free
INVARIANTS
  TypeOK
  StreamInStep
  RejectedOnlyIfHasty
  LockOfWriter
  KeepAlivesKept
  ChatOnce
CHECK_DEADLOCK FALSE
