SPECIFICATION Spec
CONSTANTS
  Users = {u1, u2}
  None = None
  MaxIssued = 3
SYMMETRY Symmetry
INVARIANTS
  TypeOK
  JoinWhole
  KeepsPromise
  JoinAdmitted
