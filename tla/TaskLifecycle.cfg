SPECIFICATION Spec
CONSTANTS
  Tasks = {t1, t2}
  Sessions = {s1, s2}
  Pendings = {a1}
  None = None
  Keep = Keep
  MaxReplans = 1
  MaxContinuations = 1
  Procs = {p1, p2}
  EventIds = {e1}
  MaxEvents = 5
  MaxInherited = 1
SYMMETRY Symmetry
CHECK_DEADLOCK FALSE
INVARIANTS
  TypeOK
  EventLogComplete
  EventAppliedOnce
  NothingLost
  WithinBudget
  OneActivePerSession
  ReadsStayTrue
PROPERTIES
  DecisionMatchesPending
  Refines
