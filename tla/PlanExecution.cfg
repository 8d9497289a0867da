SPECIFICATION Spec
CONSTANTS
  p1 = p1
  p2 = p2
  None = None
  Gone = Gone
  Procs <- MCProcs
  Plans <- MCPlans
  Replans <- MCReplans
  Limit = 2
  MaxLooks = 3
  MaxRevisions = 2
  MaxDeaths = 1
SYMMETRY ProcSymmetry
INVARIANTS TypeOK OneExecutor LeaseReturned NothingShared
PROPERTIES FencedResult EvidenceKept Implements
CHECK_DEADLOCK FALSE
