SPECIFICATION Spec
CONSTANTS
  Calls = {c1}
  Procs = {p1, p2}
  Operators = {o1, o2}
  MaxRetries = 1
  None = None
SYMMETRY Symmetry
CHECK_DEADLOCK FALSE
INVARIANTS
  TypeOK
  SuccessIsReal
PROPERTIES
  NoBlindRepeat
  ApprovedAsShown
  ResolutionOnce
  AuditTrail
CONSTRAINT AtWorkBound
