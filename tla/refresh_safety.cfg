CONSTANTS
  RefreshRetryLimit = 2
  MaxVersion = 3
  MaxPrompts = 2
  Eligible <- AllEligible
  MaxFaults = 2
  Faults <- ReviewFaults
SPECIFICATION Spec
CONSTRAINT SharedBudget
CHECK_DEADLOCK FALSE
INVARIANTS
  IdleIsCurrent DoubtsPursued
PROPERTY ImplementsMirror
\* Also true here, as invariants: TypeOK.
