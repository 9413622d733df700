SPECIFICATION Spec
CONSTANTS
  Group = 4
  HasNbt = FALSE
  Samples <- CoreSamples
  Core <- CoreSamples
  Messages <- ShortAndLong
  Thresholds = {}
  Registrations <- Selected
  MaxListeners = 2
  MaxPushed = 3
  MaxChats = 0
INVARIANT OnlySelected
CHECK_DEADLOCK FALSE
