SPECIFICATION Spec
CONSTANTS
  Procs = {p1, p2}
  Attended = {p1}
  MaxRounds = 2
  MaxContinuations = 1
  MaxWindows = 3
  MaxDeaths = 1
  Overlap = FALSE
  None = None
CHECK_DEADLOCK FALSE
INVARIANTS
  LastCheckpointAgrees
  BudgetWindowsCharged
PROPERTIES
  StaysDriven
  TurnEnds
