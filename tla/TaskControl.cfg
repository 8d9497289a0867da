SPECIFICATION Spec
CONSTANTS
  Procs = {p1, p2}
  Attended = {p1}
  MaxRounds = 1
  MaxContinuations = 1
  MaxWindows = 2
  MaxDeaths = 1
  Overlap = TRUE
  None = None
CHECK_DEADLOCK FALSE
INVARIANTS
  TypeOK
  WindowsClosed

  
CONSTRAINT DeathsBound
