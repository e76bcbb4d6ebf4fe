CONSTANTS
  Contents = {"text", "other", "held"}
  Blocked = {"held"}
  Artifacts <- MCArtifacts
  MaxReviews = 2
  MaxEvents = 3
  Overlap = FALSE
  OwnBranches = {"own1", "own2"}
  OtherBranches = {"main"}
  MaxCommits = 2
  MaxResults = 2
  MaxUpsets = 2
  MaxDrafts = 2
  MaxTroubles = 3
  Issues = {1, 2}
  IssueContents <- MCIssueContents
  MaxRepairs = 1
  Cooldown = 1
  MaxDay = 1
  MaxTasks = 2
  MaxDecisions = 3
  MaxMoves = 2
  Turns = {1, 2, 3}
  Runners = {"r", "s"}
  Projects = {"a", "b"}
  Lane <- MCLane
  ProjectOf <- MCProjectOf
  RootOf <- MCRootOf
  KeysOf <- MCKeysOf
  LeaseLimit <- MCLeaseLimit
  DailyMax <- MCDailyMax
  RetryLimit = 2
  MaxPolls = 3
  MaxClaimDay = 1
  MaxPollUpsets = 1
SPECIFICATION Spec
CHECK_DEADLOCK FALSE
INVARIANTS
   ReceiptIsTrue EditAtPinnedHead SelectionReused
  LeaseLimitsHold BudgetMatchesGrants OneLeasePerToken
\* Also true here, as invariants: ApplyTypeOK, RefusedNeverPosted,
\* SuccessIsRecorded, InvalidationForcesRefresh, WriteTypeOK, OneOpenPull,
\* OneReceiptPerProposal, ProposalsKeepBranch, FollowUpsMovePull,
\* DraftTypeOK, DraftReceiptIsTrue, ProposesOwnEdit, RepairTypeOK,
\* RepairBudgetHolds, OneOpenTask, SpecNamesLatest, PublishesItsIssue,
\* TaskWasSelected, ClaimsTypeOK, OneAuthorisedWorker.
\* Also true here, as properties: SettledStaysSettled, PostsOnlyUnsettled.
