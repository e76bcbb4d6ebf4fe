CONSTANTS
  Contents = {"text", "held"}
  Blocked = {"held"}
  Artifacts <- MCArtifacts
  MaxReviews = 1
  MaxEvents = 2
  Overlap = FALSE
  MaxDrafts = 1
  MaxTroubles = 2
  PlanIds = {1, 2}
  Periods = {2}
  Epoch = 60
  MaxClock = 2
  MaxEdits = 1
  MaxDelivery = 2
  RetryCap = 2
  MaxMisses = 2
  Clis = {"c"}
  CliReconciles = FALSE
  MaxGen = 2
  MaxAttach = 1
  MaxGlitches = 1
  MaxSteers = 1
  MaxAsks = 1
  MaxLosses = 0
  MaxChanges = 0
  RmFails = FALSE
  PageSize = 2
  MaxWire = 1
  MaxEntries = 1
  MaxRevs = 1
  MaxRequeues = 0
  MaxBreaks = 1
  Sessions = {1}
  Digests = {"d"}
  MaxPrompts = 1
  MaxOps = 2
  MaxStops = 1
  LinkCallers = {"x", "y"}
  Closers = {"k"}
  MaxForwardSets = 2
  MaxStarts = 2
SPECIFICATION FairSpec
CHECK_DEADLOCK FALSE
PROPERTIES
  AttemptsSettle  LostLeaseStopsGuest
\* Also true here, as properties: DraftSettles, BucketsUsed, CancelLands,
\* SteerReaches, FinishEndsStream, DueIsSwept, WaitersReturn.
