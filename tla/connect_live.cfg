SPECIFICATION FairSpec
CONSTANTS
  Conns = {c1}
  Modes = {"connect", "status"}
  MaxChats = 3
  Urgent = {}
  Unencodable = {3}
  MaxPushes = 2
  MaxInFlight = 1
  WriteBatch = 1
  ReadBatch = 1
  App = App
  Free = Free
PROPERTIES
  ChatsInOrder
  EchoesInOrder
  ChatHeard
  KeepAliveAnswered
  CallCompletes
CHECK_DEADLOCK FALSE
