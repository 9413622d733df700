SPECIFICATION Spec
CONSTANTS
  PieceSize = 3
  Inputs <- Texts
  None = None
INVARIANTS
  TypeOK
  Intact
  Typeable
CHECK_DEADLOCK FALSE
