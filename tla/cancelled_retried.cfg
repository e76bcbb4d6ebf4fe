CONSTANTS
  RetryLimit = 1
  MaxPrompts = 2
  MaxAdmits = 0
  MaxDisturb = 2
  Ops <- BusyCancelOps
SPECIFICATION Spec
CHECK_DEADLOCK FALSE
INVARIANT CancelledNotRetried
