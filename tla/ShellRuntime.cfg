SPECIFICATION Spec
CONSTANTS
  None = None
  Capacity = 1
  MaxLines = 2
INVARIANTS ResultIsTrue
PROPERTIES Returns
CHECK_DEADLOCK FALSE
