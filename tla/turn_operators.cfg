CONSTANTS
  RetryLimit = 2
  MaxPrompts = 1
  MaxAdmits = 1
  MaxDisturb = 2
  Ops <- AllOps
SPECIFICATION Spec
CONSTRAINT SharedBudget
CHECK_DEADLOCK FALSE
INVARIANTS
  AttemptsBounded StoppedHoldsNoLease
PROPERTY ImplementsRegister
\* Also true here, as invariants: TypeOK, TurnInvariant.
