SPECIFICATION Spec
CONSTANTS
  e1 = e1
  e2 = e2
  None = None
  Gone = Gone
  Me = Me
  Plan <- Chain
  Replans <- MCReplans
  EffectsOf <- MCEffectsOf
  MaxReplans = 0
  MaxContinuations = 1
  MaxCommands = 2
  MaxDeaths = 0
INVARIANTS WindowPausesNode
CHECK_DEADLOCK FALSE
