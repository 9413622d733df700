SPECIFICATION SlotSpec
CONSTANTS
  Enchants = 2
  Inputs <- Slots
INVARIANTS
  SlotTypeOK
  KnownKept
  RoundTrip
CHECK_DEADLOCK FALSE
