CONSTANTS
  RetryLimit = 2
  MaxPrompts = 2
  MaxAdmits = 0
  MaxDisturb = 2
  Ops <- PlaneOps
SPECIFICATION FairSpec
CHECK_DEADLOCK FALSE
INVARIANTS
  PromptsAccounted PromptsInOrder FollowUpsRun
PROPERTIES
  LeaseEnds PromptsSettle
\* Also true here, as invariants: OneReceiptPerLease,
\* CompletedNeverReclaimed, TerminalOwesNothing.
\* Also true here, as properties: HistoryOnlyGrows.
