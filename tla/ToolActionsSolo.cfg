SPECIFICATION Spec
CONSTANTS
  Calls = {c1, c2}
  Procs = {p1}
  Operators = {o1}
  MaxRetries = 1
  None = None
SYMMETRY Symmetry
CHECK_DEADLOCK FALSE
INVARIANTS
  UncertainBlocks
