SPECIFICATION Spec
CONSTANTS
  Group = 4
  HasNbt = FALSE
  Samples <- AllSamples
  Core <- CoreSamples
  Messages <- ShortAndLong
  Thresholds = {3, 20}
  Registrations <- Listening
  MaxListeners = 2
  MaxPushed = 4
  MaxChats = 1
CONSTRAINT Focus
INVARIANTS
  TypeOK
  InStep
  AsSent
  EndsOnlyBy
  ServerTakes
  EchoesExact
  NoneMissed
CHECK_DEADLOCK FALSE
