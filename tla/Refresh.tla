------------------------------- MODULE Refresh -------------------------------
(***************************************************************************)
(* The refresh coordinator for one reviewed item: producers that ask for a *)
(* refresh, the owner that fetches the item from GitHub between two        *)
(* transactions, and the admission of what it fetched as the next pending  *)
(* revision (internal/engine/engine.go, request_review.go).                *)
(*                                                                         *)
(* The content of the item is a number, raised by every change; two equal  *)
(* numbers are two equal item hashes.  Eligible holds the contents that    *)
(* the advisory profile accepts.  The review job is the sequence of its    *)
(* snapshots and its state; its leases are the subject of TurnLease.  A    *)
(* prompt of the operator is stored as a snapshot among the others: 0,     *)
(* which is no content of the item.                                        *)
(*                                                                         *)
(* A refresh generation is only ever compared with the one the row has     *)
(* now, and refreshMu lets one fetch run at a time.  step.current says     *)
(* that the generation the running fetch took is still the row's.          *)
(***************************************************************************)
EXTENDS Naturals, Sequences, FiniteSets

CONSTANTS RefreshRetryLimit,   \* fetches that may fail before the request does
          MaxVersion,          \* contents the item goes through
          MaxPrompts,          \* prompts that become revisions
          Eligible,            \* contents the advisory profile accepts
          MaxFaults,           \* faults, drawn from one pool
          Faults               \* the faults this instance exercises

FaultKinds == {"error", "expire", "restart", "rollback", "deny", "policy", "doubt"}

ASSUME RefreshAssumption == /\ RefreshRetryLimit \in Nat \ {0}
                            /\ MaxVersion \in Nat \ {0}
                            /\ MaxPrompts \in Nat
                            /\ Eligible \subseteq 1..MaxVersion
                            /\ MaxFaults \in Nat
                            /\ Faults \subseteq FaultKinds

VARIABLES
  version,     \* the item's content on GitHub
  delivered,   \* delivery ids stored, named by the content they announce
  enabled,     \* the policy reviews this repository
  moved,       \* the policy's tenant is not the one the review session has
  row,         \* the item's row of refresh_requests
  step,        \* the stepRefresh that holds refreshMu
  job,         \* the review job: snapshots of its revisions, claim and state
  reviews,     \* revisions with a published review
  doubts,      \* unconsumed evidence_invalidations, by reviewed revision
  settled,     \* consumed evidence_invalidations
  faults,      \* faults so far
  requested,   \* history: the content when a refresh was last asked for
  examined     \* history: the content last examined by an owner

itemVars == <<version, delivered, enabled, moved>>
jobVars == <<job, reviews, doubts, settled>>
vars == <<itemVars, row, step, jobVars, faults, requested, examined>>

Versions == 1..MaxVersion

RowStates == {"none", "queued", "running", "idle", "failed"}
RowType == [state : RowStates, owner : BOOLEAN, needs : BOOLEAN, force : BOOLEAN,
            retry : 0..RefreshRetryLimit, due : BOOLEAN]

Phases == {"idle", "asked", "fetch", "fetched", "erred"}
StepType == [phase : Phases, current : BOOLEAN, force : BOOLEAN,
             got : Nat, demand : BOOLEAN]

JobStates == {"none", "queued", "leased", "completed", "failed"}
JobType == [state : JobStates, snap : Seq(0..MaxVersion), claimed : Nat]

TypeOK == /\ version \in Versions /\ delivered \subseteq Versions
          /\ enabled \in BOOLEAN /\ moved \in BOOLEAN
          /\ row \in RowType /\ step \in StepType /\ job \in JobType
          /\ reviews \subseteq Nat /\ doubts \subseteq Nat /\ settled \subseteq Nat
          /\ faults \in Nat
          /\ requested \in Nat /\ examined \in Nat

NoStep == [phase |-> "idle", current |-> FALSE, force |-> FALSE, got |-> 0,
           demand |-> FALSE]

Init == /\ version = 1 /\ delivered = {} /\ enabled = TRUE /\ moved = FALSE
        /\ row = [state |-> "none", owner |-> FALSE, needs |-> FALSE,
                  force |-> FALSE, retry |-> 0, due |-> TRUE]
        /\ step = NoStep
        /\ job = [state |-> "none", snap |-> <<>>, claimed |-> 0]
        /\ reviews = {} /\ doubts = {} /\ settled = {}
        /\ faults = 0
        /\ requested = 0 /\ examined = 0

Fault(kind) == /\ kind \in Faults
               /\ faults < MaxFaults
               /\ faults' = faults + 1

\* The snapshot of the pending revision.
Latest == IF job.snap = <<>> THEN 0 ELSE job.snap[Len(job.snap)]

-----------------------------------------------------------------------------
(* The item and the producers of refresh requests.                         *)

ItemChanges ==
  /\ version < MaxVersion
  /\ version' = version + 1
  /\ UNCHANGED <<delivered, enabled, moved, row, step, jobVars, faults, requested,
                 examined>>

\* Mutant: a failed request stays failed.
EnsureRefreshQueued_Failed(r, force) ==
  IF r.state = "failed" THEN r
  ELSE [r EXCEPT !.state = "queued", !.force = @ \/ force, !.needs = @ \/ r.owner]

\* EnsureRefreshQueuedTx: an owned row is asked to go round once more.
EnsureRefreshQueued(r, force) ==
  [r EXCEPT !.state = "queued", !.force = @ \/ force, !.needs = @ \/ r.owner]

Request(force) == /\ row' = EnsureRefreshQueued(row, force)
                  /\ requested' = version

\* IngestWebhook, IngestEvent and ReconcileDeliveries: a delivery id counts
\* once.  A delivery may be late, repeated or never arrive.
Deliver(v) ==
  /\ v \notin delivered
  /\ delivered' = delivered \cup {v}
  /\ Request(FALSE)
  /\ UNCHANGED <<version, enabled, moved, step, jobVars, faults, examined>>

\* CatchUpItem, called by the periodic catch-up, at startup and by sweep, and
\* ApplyAttempt when it finds that the item has changed.
CatchUpItem ==
  /\ Request(FALSE)
  /\ UNCHANGED <<itemVars, step, jobVars, faults, examined>>

\* The listed open items the periodic catch-up does not skip; one whose pending
\* snapshot is a prompt has no updated_at and is not skipped either.
CatchUpOpen == version \in Eligible /\ Latest # version /\ CatchUpItem

\* ApplyAttempt finds that main no longer supports a review's evidence: one
\* invalidation for each review, and a forced refresh.  It read the newest review
\* and the item, which has the content reviewed, before its transaction; both may
\* be others by now.
InvalidateEvidence(r) ==
  /\ Fault("doubt")
  /\ job.snap[r] # 0
  /\ doubts' = IF r \in settled THEN doubts ELSE doubts \cup {r}
  /\ Request(TRUE)
  /\ UNCHANGED <<itemVars, step, job, reviews, settled, examined>>

\* Reviews go on or off, or the repository goes to a project of another tenant; a
\* new review session is stamped with the tenant of the day (stampReviewTenantTx).
ReloadPolicy ==
  /\ Fault("policy")
  /\ enabled' \in BOOLEAN
  /\ moved' \in (IF job.state = "none" THEN {FALSE} ELSE BOOLEAN)
  /\ UNCHANGED <<version, delivered, row, step, jobVars, requested, examined>>

\* RequestReview takes refreshMu, asks for the refresh and then steps it.
RequestReview ==
  /\ step.phase = "idle"
  /\ enabled
  /\ step' = [NoStep EXCEPT !.phase = "asked", !.demand = TRUE]
  /\ Request(FALSE)
  /\ UNCHANGED <<itemVars, jobVars, faults, examined>>

-----------------------------------------------------------------------------
(* stepRefresh: own, fetch, admit.                                         *)

Startable == row.state = "queued" /\ ~row.owner /\ row.due

OwnRefresh ==
  /\ step.phase \in {"idle", "asked"}
  /\ Startable
  /\ row' = [row EXCEPT !.owner = TRUE, !.state = "running"]
  /\ step' = [phase |-> "fetch", current |-> TRUE, force |-> row.force, got |-> 0,
              demand |-> step.phase = "asked"]
  /\ UNCHANGED <<itemVars, jobVars, faults, requested, examined>>

NothingToOwn ==
  /\ step.phase = "asked"
  /\ ~Startable
  /\ step' = NoStep
  /\ UNCHANGED <<itemVars, row, jobVars, faults, requested, examined>>

Fetch ==
  /\ step.phase = "fetch"
  /\ step' = [step EXCEPT !.phase = "fetched", !.got = version]
  /\ UNCHANGED <<itemVars, row, jobVars, faults, requested, examined>>

\* GitHub fails, or the item is not of the kind RequestReview expects.
FetchFails ==
  /\ step.phase = "fetch"
  /\ Fault("error")
  /\ step' = [step EXCEPT !.phase = "erred"]
  /\ UNCHANGED <<itemVars, row, jobVars, requested, examined>>

\* The fetch is still the owner's.
Owns == step.current /\ row.owner

\* A result whose ownership expired meanwhile.
DiscardResult ==
  /\ step.phase \in {"fetched", "erred"}
  /\ ~Owns
  /\ step' = NoStep
  /\ UNCHANGED <<itemVars, row, jobVars, faults, requested, examined>>

\* retry_count is compared with the limit only, so counting stops there.
AfterFailure(r) ==
  LET n == IF r.retry = RefreshRetryLimit THEN r.retry ELSE r.retry + 1
  IN  [r EXCEPT !.owner = FALSE, !.retry = n,
                !.state = IF n = RefreshRetryLimit THEN "failed" ELSE "queued"]

CommitFailure ==
  /\ step.phase = "erred"
  /\ Owns
  /\ row' = AfterFailure(row)
  /\ step' = NoStep
  /\ UNCHANGED <<itemVars, jobVars, faults, requested, examined>>

\* Mutant: only the flag read before the fetch counts.
ForceAsked_Before == step.force

\* The flag may have been raised before the fetch or during it.
ForceAsked == step.force \/ row.force

\* Mutant: a forced refresh needs no invalidation to answer.
Forced_Always == ForceAsked

\* admitTx.  A forced refresh counts as one only while an invalidation waits.
Forced == ForceAsked /\ doubts # {}

\* reviewTenantMismatchTx is asked only of a job that exists.
TenantMismatch == job.state # "none" /\ moved

Ineligible == job.state = "none" /\ step.got \notin Eligible

\* The item is compared with the pending snapshot alone, be it a prompt's.
Unchanged == job.state # "none" /\ ~Forced /\ Latest = step.got

Admissible == enabled /\ ~TenantMismatch /\ ~Ineligible /\ ~Unchanged

\* Mutant: the owner clears the row without a look at needs_another.
Released_Idle(r) ==
  [r EXCEPT !.owner = FALSE, !.needs = FALSE, !.force = FALSE, !.state = "idle"]

\* The owner is done; whoever asked meanwhile gets another round.
Released(r) ==
  [r EXCEPT !.owner = FALSE, !.needs = FALSE, !.force = FALSE,
            !.state = IF r.needs THEN "queued" ELSE "idle"]

Examined == /\ step.phase = "fetched"
            /\ Owns
            /\ step' = NoStep
            /\ examined' = step.got

\* Nothing to admit: reviews are off or another tenant's, the content is known or
\* not eligible.
CommitNothing ==
  /\ Examined
  /\ ~Admissible
  /\ ~(enabled /\ Ineligible /\ step.demand)
  /\ row' = Released(row)
  /\ UNCHANGED <<itemVars, jobVars, faults, requested>>

CommitIneligible ==
  /\ Examined
  /\ enabled /\ Ineligible /\ step.demand
  /\ row' = [row EXCEPT !.owner = FALSE, !.needs = FALSE, !.force = FALSE,
                        !.state = "idle"]
  /\ UNCHANGED <<itemVars, jobVars, faults, requested>>

\* Only a requested review is refused for the day's budget.
CommitDenied ==
  /\ Examined
  /\ Admissible /\ step.demand
  /\ Fault("deny")
  /\ row' = [row EXCEPT !.owner = FALSE, !.needs = FALSE, !.force = ForceAsked,
                        !.state = IF row.needs \/ ForceAsked THEN "queued" ELSE "idle"]
  /\ UNCHANGED <<itemVars, jobVars, requested>>

ConsumeDoubts == IF Forced
                 THEN doubts' = {} /\ settled' = settled \cup doubts
                 ELSE UNCHANGED <<doubts, settled>>

\* A changed or doubted item becomes the next pending revision.
CommitAdmitted ==
  /\ Examined
  /\ Admissible
  /\ ConsumeDoubts
  /\ job' = [job EXCEPT !.snap = Append(@, step.got),
                        !.state = IF @ = "leased" THEN @ ELSE "queued"]
  /\ row' = Released(row)
  /\ UNCHANGED <<itemVars, reviews, faults, requested>>

\* The admitting transaction rolls back: the row keeps its owner.
CommitRollsBack ==
  /\ step.phase \in {"fetched", "erred"}
  /\ Owns
  /\ Fault("rollback")
  /\ step' = NoStep
  /\ UNCHANGED <<itemVars, row, jobVars, requested, examined>>

-----------------------------------------------------------------------------
(* Ownership recovery.                                                     *)

Expirable(r) == r.owner

\* ExpireRefreshOwners: the scheduler never runs it during its own fetch.
ExpireOwner ==
  /\ Expirable(row)
  /\ row' = [AfterFailure(row) EXCEPT !.due = FALSE]
  /\ step' = [step EXCEPT !.current = FALSE]
  /\ UNCHANGED <<itemVars, jobVars, requested, examined>>

\* No fetch is running: the owner was left behind by a rollback.
ExpireOrphan == step.phase \in {"idle", "asked"} /\ ExpireOwner /\ UNCHANGED faults

\* The fetch of a RequestReview outlives owner_expires_at.
ExpireLateFetch ==
  step.phase \in {"fetch", "fetched", "erred"} /\ step.demand /\ Fault("expire") /\ ExpireOwner

BackoffPasses ==
  /\ ~row.due
  /\ row' = [row EXCEPT !.due = TRUE]
  /\ UNCHANGED <<itemVars, step, jobVars, faults, requested, examined>>

\* The process stops; StartupExpireOwners runs before the next one serves.
Restart ==
  /\ Fault("restart")
  /\ step' = NoStep
  /\ row' = IF row.owner THEN [row EXCEPT !.owner = FALSE, !.state = "queued"] ELSE row
  /\ UNCHANGED <<itemVars, jobVars, requested, examined>>

-----------------------------------------------------------------------------
(* The review job: a runner takes the newest revision and reviews it, and  *)
(* the operator prompts its session.                                       *)

HasUnclaimedFollowUp == /\ Len(job.snap) > job.claimed
                        /\ job.claimed # 0 \/ Len(job.snap) # 1

PromptsLeft == Cardinality({i \in DOMAIN job.snap : job.snap[i] = 0}) < MaxPrompts

\* enqueuePromptTx, when it makes the prompt the pending revision at once.
FollowUp ==
  /\ job.state # "none"
  /\ ~HasUnclaimedFollowUp /\ PromptsLeft
  /\ job' = [job EXCEPT !.snap = Append(@, 0),
                        !.state = IF @ = "leased" THEN @ ELSE "queued"]
  /\ UNCHANGED <<itemVars, row, step, reviews, doubts, settled, faults, requested,
                 examined>>

ClaimReview ==
  /\ job.state = "queued"
  /\ job' = [job EXCEPT !.state = "leased", !.claimed = Len(job.snap)]
  /\ UNCHANGED <<itemVars, row, step, reviews, doubts, settled, faults, requested,
                 examined>>

\* What follows a lease: a newer revision, else a prompt that waited in the
\* session's queue (applyNextFollowUpTx), else the end given.
LeaseEnds(end) ==
  \/ job.claimed < Len(job.snap) /\ job' = [job EXCEPT !.state = "queued"]
  \/ job.claimed = Len(job.snap) /\ job' = [job EXCEPT !.state = end]
  \/ /\ job.claimed = Len(job.snap) /\ PromptsLeft
     /\ job' = [job EXCEPT !.snap = Append(@, 0), !.state = "queued"]

CompleteReview ==
  /\ job.state = "leased"
  /\ reviews' = reviews \cup {job.claimed}
  /\ LeaseEnds("completed")
  /\ UNCHANGED <<itemVars, row, step, doubts, settled, faults, requested,
                 examined>>

\* A failed attempt is tried again until its retries run out (TurnLease).
FailReview ==
  /\ job.state = "leased"
  /\ LeaseEnds("failed") \/ job' = [job EXCEPT !.state = "queued"]
  /\ UNCHANGED <<itemVars, row, step, reviews, doubts, settled, faults, requested,
                 examined>>

-----------------------------------------------------------------------------

Commit == \/ DiscardResult
          \/ CommitFailure
          \/ CommitNothing
          \/ CommitIneligible
          \/ CommitDenied
          \/ CommitAdmitted

Next == \/ ItemChanges
        \/ \E v \in 1..version : Deliver(v)
        \/ CatchUpItem
        \/ \E r \in reviews : InvalidateEvidence(r)
        \/ ReloadPolicy
        \/ RequestReview
        \/ OwnRefresh
        \/ NothingToOwn
        \/ Fetch
        \/ FetchFails
        \/ Commit
        \/ CommitRollsBack
        \/ ExpireOrphan
        \/ ExpireLateFetch
        \/ BackoffPasses
        \/ Restart
        \/ FollowUp
        \/ ClaimReview
        \/ CompleteReview
        \/ FailReview

Spec == Init /\ [][Next]_vars

\* The scheduler steps the refresh and reaps owners every second and catches up
\* every 15 minutes, GitHub calls time out, and the reads and the transaction of
\* a refresh that has begun are carried out.
Fairness == /\ WF_vars(OwnRefresh)
            /\ WF_vars(NothingToOwn)
            /\ WF_vars(Fetch \/ FetchFails)
            /\ WF_vars(Commit)
            /\ WF_vars(ExpireOrphan)
            /\ WF_vars(BackoffPasses)
            /\ WF_vars(CatchUpOpen)

FairSpec == Spec /\ Fairness

-----------------------------------------------------------------------------
(* Safety.                                                                 *)

\* An idle row hides no change: whatever the item was when a producer last
\* asked, an owner has examined it since, deliveries that arrived in the middle
\* of a fetch, expiries and restarts included (needs_another).  It fails where a
\* content may be ineligible: stepRefresh then drops needs_another (engine.go:544).
IdleIsCurrent == row.state = "idle" => examined >= requested

\* An invalidation no revision has answered yet keeps its force flag on a row
\* that no owner has released: a crash, an expiry, a failed fetch or a denied
\* budget does not lose it.  It holds while the policy reviews the repository for
\* the tenant of its review session: with reviews off, or after the repository
\* moved to another tenant, admitTx returns early and the owner clears the flag.
DoubtsPursued == doubts # {} => row.force /\ row.state \notin {"none", "idle"}

Mirror == INSTANCE ItemMirror WITH
  live <- version, mirror <- job.snap, doubts <- doubts

\* The revisions of the job are the operator's prompts and states the item was in,
\* these in order.  A state is admitted again only to settle invalidations, all of
\* them at once, or when a prompt is the pending revision it is compared with
\* (admitTx, applyFollowUpTx).
ImplementsMirror == Mirror!MSpec

-----------------------------------------------------------------------------
(* Liveness.                                                               *)

\* No row stays owned, whatever happened to its owner.
OwnerReleased == []<>~row.owner

\* An eligible item whose changes stop becomes a revision in its last state:
\* failed requests, lost deliveries, expired owners and prompts that arrive in
\* between are made good by the catch-up.
EventuallyCurrent ==
  []<>(enabled /\ ~moved /\ version \in Eligible
         => \E i \in DOMAIN job.snap : job.snap[i] = version)

=============================================================================
