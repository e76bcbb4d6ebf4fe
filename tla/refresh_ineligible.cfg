SPECIFICATION Spec
CONSTANTS
  RefreshRetryLimit = 2
  MaxVersion = 2
  MaxPrompts = 0
  Eligible <- LateEligible
  MaxFaults = 0
  Faults <- NoFaults
INVARIANT IdleIsCurrent
CHECK_DEADLOCK FALSE
