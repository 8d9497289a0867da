SPECIFICATION Spec
CONSTANTS
  e1 = e1
  e2 = e2
  None = None
  Gone = Gone
  Me = Me
  Plan <- Chain
  Replans <- MCReplans
  EffectsOf <- MCEffectsOf
  MaxReplans = 1
  MaxContinuations = 1
  MaxCommands = 3
  MaxDeaths = 1
SYMMETRY EffectSymmetry
INVARIANTS TypeOK SettledTogether NeverStuck ReplansPaid
PROPERTIES ResumedAsFound
CHECK_DEADLOCK FALSE
