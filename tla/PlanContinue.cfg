SPECIFICATION Spec
CONSTANTS
  e1 = e1
  e2 = e2
  None = None
  Gone = Gone
  Me = Me
  Plan <- Chain
  Replans <- MCReplans
  EffectsOf <- MCEffectsOf
  MaxReplans = 0
  MaxContinuations = 1
  MaxCommands = 3
  MaxDeaths = 1
INVARIANTS ResolvedGoesOn
CHECK_DEADLOCK FALSE
