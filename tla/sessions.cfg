CONSTANTS
  Children = {1, 2}
  FanOut = 1
  MaxRequests = 3
  RetryMax = 2
  PlanIds = {1, 2}
  Periods = {2, 3}
  Epoch = 60
  MaxClock = 3
  MaxEdits = 2
  Deliveries = {"d", "e"}
  Callers = {1, 2}
  MaxCalls = 5
  MaxFlaws = 2
  MaxDelivery = 3
  RetryCap = 2
  MaxMisses = 3
  Clis = {"c", "d"}
  CliReconciles = FALSE
  MaxGen = 2
  MaxAttach = 2
  MaxGlitches = 1
  Sessions = {1, 2}
  Digests = {"d"}
  MaxPrompts = 2
  MaxOps = 3
  MaxStops = 1
  Platforms = {"launchd", "systemd"}
  MaxRuns = 3
  MaxHandEdits = 2
  Openers = {1, 2}
  StartVersions = {0, 17, 29, 55}
  MaxDeaths = 1
  MaxRestores = 1
  LinkCallers = {"x", "y"}
  Closers = {"k"}
  MaxForwardSets = 2
  MaxStarts = 3
  MaxRows = 2
  MaxMints = 1
  Visits = {"op", "page"}
SPECIFICATION Spec
CHECK_DEADLOCK FALSE
INVARIANTS
  ArchiveCoversTree BucketAtMostOnce PromptedAtMostOnce 
   RunsCurrent OpenIsComplete ClosedHoldsNothing
  
\* Also true here, as invariants: TreeTypeOK, FanOutHolds,
\* ArchivedRunsNothing, ResultReported, SchedTypeOK, HookTypeOK,
\* HandedSecretVerifies, RecTypeOK, CheckpointIsSettled, LocalTypeOK,
\* DeadIsDead, KillsOnlyCancelled, WriterIsFocused, RetTypeOK,
\* OverrideIsIndefinite, ArchivedByFinish, SetupTypeOK, TlsFilesMatch,
\* MigTypeOK, StampedIsMade, OpenChecksCurrent, ForwardTypeOK,
\* OneLinkPerEntry, OpenIsFound, PreviewTypeOK, ServedItsOwnGuest.
\* Also true here, as properties: DeletedStaysSilent, OnlyDueExpire,
\* ExpiredIsFinal, SecretsStay, ForeignFilesStay, SecondRunChangesNothing,
\* HalfUpgradedStays.
