SPECIFICATION FairSpec
CONSTANTS
  RefreshRetryLimit = 2
  MaxVersion = 2
  MaxPrompts = 1
  Eligible <- LateEligible
  MaxFaults = 2
  Faults <- AllFaults
CHECK_DEADLOCK FALSE
PROPERTY EventuallyCurrent
\* Also true here, as properties: OwnerReleased.
