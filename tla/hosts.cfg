CONSTANTS
  MaxSteers = 2
  MaxAsks = 1
  MaxLosses = 1
  MaxChanges = 1
  RmFails = FALSE
  TextCap = 1
  RowCap = 2
  MaxSeen = 3
  MaxLost = 1
  Attachers = {"a", "b"}
  Overlap = FALSE
  Cap = 2
  MaxGrants = 3
  MaxBytes = 3
  MaxMishaps = 2
  PageSize = 1
  MaxWire = 2
  MaxEntries = 2
  MaxRevs = 2
  MaxRequeues = 1
  MaxBreaks = 1
  ModelTurns = {"t", "u"}
  Calls = {1, 2}
  SummaryTurns = 1
  MaxGen = 2
  MaxObjs = 3
  GuestIds = {1, 2, 3}
  Queue = 1
  MaxStreams = 2
  MaxLinkFrames = 3
  MaxForwards = 1
SPECIFICATION Spec
CHECK_DEADLOCK FALSE
INVARIANTS
  NothingForbiddenRuns TranscriptInOrder  
   DeliveredIsPrefix
\* Also true here, as invariants: GuestTypeOK, CancelledAsksRefused,
\* ReportIsLatest, SteersOnce, NativeTypeOK, NoCredentialStored,
\* ReturnedIsRecorded, ResumeToldFirst, TermTypeOK, NoOrphanShells,
\* PrintedOnceInOrder, FollowTypeOK, WaitingIsCurrent, ReceiptTypeOK,
\* ReservationsBounded, NeverOvercounted, LinkTypeOK, StreamsBounded,
\* ServedCanEnd.
\* Also true here, as properties: AllowHasReceipt, ReleaseSparesOthers,
\* ReadyIsReported.
