SPECIFICATION Spec
CONSTANTS
  Group = 4
  HasNbt = FALSE
  Samples <- AllSamples
  Core <- CoreSamples
  Messages <- ShortAndLong
  Thresholds = {}
  Registrations <- Listening
  MaxListeners = 0
  MaxPushed = 2
  MaxChats = 0
INVARIANT Skipped
CHECK_DEADLOCK FALSE
