------------------------------ MODULE TurnLease ------------------------------
(***************************************************************************)
(* The life of one managed turn: runners that claim, renew, complete and   *)
(* fail it, operators that prompt, steer, cancel, halt, archive and retry  *)
(* it, clocks that run out, and a plane that restarts between two          *)
(* transactions.                                                           *)
(*                                                                         *)
(* Every Store.Tx of the engine is one atomic step: the store has a single *)
(* connection and opens transactions with BEGIN IMMEDIATE.  What the code  *)
(* reads or does outside a transaction is a step of its own: the archived  *)
(* check of a prompt (asked), the environment preparation of a claim       *)
(* (preparing), the three transactions of an archive (archiving).          *)
(*                                                                         *)
(* A runner may call with any lease identity it was ever given; a call the *)
(* transaction rejects changes nothing and is no step.                     *)
(***************************************************************************)
EXTENDS Turn, FiniteSets

CONSTANTS MaxPrompts,    \* prompts and steers the operator sends
          MaxAdmits,     \* changes of the reviewed item
          MaxDisturb,    \* operator and plane disturbances, drawn from one pool
          Ops            \* the disturbances this instance exercises

Disturbances == {"pause", "halt", "cancel", "archive", "restore", "restart",
                 "retry", "busy", "drop"}

ASSUME BoundsAssumption == /\ MaxPrompts \in Nat
                           /\ MaxAdmits \in Nat
                           /\ MaxDisturb \in Nat
                           /\ Ops \subseteq Disturbances

VARIABLES
  turn,        \* the turn's rows: turns, receipts, followup_queue, turn_steers
  paused,      \* overlay pause:<project>
  halted,      \* overlay halt:<scope>:<target>
  archived,    \* sessions.archived
  archiving,   \* where ArchiveSession stands between its transactions
  asked,       \* a prompt that has passed the archived check
  preparing,   \* the lease generation whose environment Claim prepares, or 0
  admits,      \* item changes so far
  disturbed,   \* disturbances so far
  ran,         \* history: the revisions a lease was granted for
  cause,       \* history: what made the turn terminal
  stopped,     \* history: claimed revisions the operator cancelled
  retriedAt,   \* history: the lease generation of the last operator retry
  spared       \* history: the lease generation the last halt found archived, or 0

control == <<paused, halted, archived, archiving, asked>>
history == <<ran, cause, stopped, retriedAt, spared>>
vars == <<turn, control, preparing, admits, disturbed, history>>

PromptKinds == {"follow_up", "queued", "steer"}
ArchiveSteps == {"idle", "drop", "fail", "lost"}
Causes == {"none", "complete", "fail", "expire", "cancel", "archive"}
Terminal == {"completed", "failed"}

TypeOK == /\ turn \in TurnType
          /\ paused \in BOOLEAN /\ halted \in BOOLEAN /\ archived \in BOOLEAN
          /\ archiving \in ArchiveSteps
          /\ asked \in PromptKinds \cup {"none"}
          /\ preparing \in Nat
          /\ admits \in Nat /\ disturbed \in Nat
          /\ ran \subseteq Nat /\ stopped \subseteq Nat
          /\ cause \in Causes /\ retriedAt \in Nat /\ spared \in Nat

Init == /\ turn = NewTurn
        /\ paused = FALSE /\ halted = FALSE /\ archived = FALSE
        /\ archiving = "idle" /\ asked = "none" /\ preparing = 0
        /\ admits = 0 /\ disturbed = 0
        /\ ran = {} /\ cause = "none" /\ stopped = {} /\ retriedAt = 0
        /\ spared = 0

\* The transaction commits t; c says why, if the turn ends by it.
Commit(t, c) ==
  /\ turn' = t
  /\ cause' = IF t.state \in Terminal
              THEN IF turn.state \in Terminal THEN cause ELSE c
              ELSE "none"

Disturb(op) == /\ op \in Ops
               /\ disturbed < MaxDisturb
               /\ disturbed' = disturbed + 1

-----------------------------------------------------------------------------
(* Time.                                                                   *)

LivenessPasses ==
  /\ turn.state = "leased" /\ ~turn.lapsed
  /\ turn' = [turn EXCEPT !.lapsed = TRUE]
  /\ UNCHANGED <<control, preparing, admits, disturbed, history>>

DeadlinePasses ==
  /\ turn.state = "leased" /\ ~turn.overdue
  /\ turn' = [turn EXCEPT !.overdue = TRUE]
  /\ UNCHANGED <<control, preparing, admits, disturbed, history>>

-----------------------------------------------------------------------------
(* The plane and its runners.                                              *)

\* The scheduler's and the recovery's ExpireOverdueLeases.
ExpireOverdueLeases ==
  /\ LeaseDue(turn)
  /\ Commit(ExpireLease(turn), "expire")
  /\ UNCHANGED <<control, preparing, admits, disturbed, ran, stopped, retriedAt, spared>>

\* Mutant: the claim does not look at the halt overlays.
Claim_Halted ==
  LET t == ExpireLease(turn)
  IN  /\ ~paused /\ ~archived
      /\ t.state = "queued"
      /\ Commit(GrantLease(t), "expire")
      /\ preparing' = turn'.gen
      /\ ran' = ran \cup {t.pending}
      /\ UNCHANGED <<control, admits, disturbed, stopped, retriedAt, spared>>

\* One transaction: due leases expire first, then a queued turn of a session
\* that is neither archived nor halted nor in a paused project is leased.
Claim ==
  LET t == ExpireLease(turn)
  IN  /\ ~paused /\ ~archived /\ ~halted
      /\ t.state = "queued"
      /\ Commit(GrantLease(t), "expire")
      /\ preparing' = turn'.gen
      /\ ran' = ran \cup {t.pending}
      /\ UNCHANGED <<control, admits, disturbed, stopped, retriedAt, spared>>

EnvironmentReady ==
  /\ preparing # 0
  /\ preparing' = 0
  /\ UNCHANGED <<turn, control, admits, disturbed, history>>

\* requeueBusyEnvironmentClaim; a lease that has ended meanwhile is left alone.
EnvironmentBusy ==
  /\ preparing # 0
  /\ Disturb("busy")
  /\ preparing' = 0
  /\ turn' = IF Holds(turn, preparing, turn.claimed) THEN RequeueBusy(turn) ELSE turn
  /\ UNCHANGED <<control, admits, history>>

Heartbeat(g, c) ==
  /\ AcceptLease(turn, g, c)
  /\ \E ids \in SUBSET {s.seq : s \in DeliveredSteers(turn, g)} :
       turn' = RenewLease(turn, ids)
  /\ UNCHANGED <<control, preparing, admits, disturbed, history>>

\* A valid artifact completes the revision; any other is a failed attempt.
Complete(g, c) ==
  /\ ~Settled(turn, g, c)
  /\ AcceptLease(turn, g, c)
  /\ \/ \E acks \in SUBSET {s.seq : s \in DeliveredSteers(turn, g)} :
          Commit(CompleteLease(turn, acks), "complete")
     \/ Commit(FinalizeFailure(turn), "fail")
  /\ UNCHANGED <<control, preparing, admits, disturbed, ran, stopped, retriedAt, spared>>

\* A lapsed lease is rejected; one past its deadline fails closed.
FailTx(g, c) ==
  /\ ~Settled(turn, g, c)
  /\ Holds(turn, g, c)
  /\ turn.overdue \/ ~turn.lapsed
  /\ Commit(FailLease(turn), "fail")

Fail(g, c) ==
  /\ FailTx(g, c)
  /\ UNCHANGED <<control, preparing, admits, disturbed, ran, stopped, retriedAt, spared>>

\* Claim fails its own lease when the environment cannot be prepared.
EnvironmentFails ==
  /\ preparing # 0
  /\ FailTx(preparing, turn.claimed)
  /\ preparing' = 0
  /\ UNCHANGED <<control, admits, disturbed, ran, stopped, retriedAt, spared>>

-----------------------------------------------------------------------------
(* Operators and the item's author.                                        *)

\* The archived flag is read before the transaction that stores the prompt.
AskPrompt(kind) ==
  /\ asked = "none" /\ ~archived
  /\ turn.nextSeq <= MaxPrompts
  /\ asked' = kind
  /\ UNCHANGED <<turn, paused, halted, archived, archiving, preparing, admits,
                 disturbed, history>>

SteerIsLive == turn.state = "leased" /\ ~turn.lapsed /\ ~turn.overdue

StorePrompt ==
  /\ asked # "none"
  /\ asked' = "none"
  /\ CASE paused -> UNCHANGED <<turn, cause>>
       [] ~paused /\ asked = "steer" /\ SteerIsLive -> Commit(EnqueueSteer(turn), "none")
       [] OTHER -> Commit(EnqueuePrompt(turn, asked = "queued"), "none")
  /\ UNCHANGED <<paused, halted, archived, archiving, preparing, admits,
                 disturbed, ran, stopped, retriedAt, spared>>

DropQueuedPrompts ==
  /\ Disturb("drop")
  /\ Commit(DropQueued(turn), "none")
  /\ UNCHANGED <<control, preparing, admits, ran, stopped, retriedAt, spared>>

\* The refresh coordinator admits a changed item as the next revision.
Admit ==
  /\ admits < MaxAdmits
  /\ admits' = admits + 1
  /\ Commit(AdmitRevision(turn), "none")
  /\ UNCHANGED <<control, preparing, disturbed, ran, stopped, retriedAt, spared>>

OperatorRetry ==
  /\ Disturb("retry")
  /\ turn.state = "failed"
  /\ Commit([turn EXCEPT !.retry = 0, !.state = "queued"], "none")
  /\ stopped' = {}
  /\ retriedAt' = turn.gen
  /\ UNCHANGED <<control, preparing, admits, ran, spared>>

\* The revision a cancel is about: the one a lease took.
CancelSessionTx ==
  /\ Disturb("cancel")
  /\ Commit(CancelSession(turn), "cancel")
  /\ stopped' = IF turn.state \in {"queued", "leased"} /\ turn.claimed # 0
                THEN stopped \cup {turn.claimed} ELSE stopped
  /\ UNCHANGED <<control, preparing, admits, ran, retriedAt, spared>>

SetPause ==
  /\ Disturb("pause")
  /\ paused' = ~paused
  /\ UNCHANGED <<turn, halted, archived, archiving, asked, preparing, admits, history>>

\* The overlay and the fence on the leases commit together.  The fence is on the
\* open sessions (ListOpenSessionIDsForHaltTx): an archived one keeps its lease.
Halt ==
  /\ Disturb("halt")
  /\ halted' = TRUE
  /\ Commit(IF archived THEN turn ELSE HaltLeasedTurn(turn), "none")
  /\ spared' = IF archived THEN turn.gen ELSE 0
  /\ UNCHANGED <<paused, archived, archiving, asked, preparing, admits, ran, stopped, retriedAt>>

ResumeHalt ==
  /\ halted
  /\ halted' = FALSE
  /\ UNCHANGED <<turn, paused, archived, archiving, asked, preparing, admits,
                 disturbed, history>>

\* ArchiveSession: the flag, the queued prompts, the turn.
SetArchived ==
  /\ Disturb("archive")
  /\ archiving \in {"idle", "lost"}
  /\ archived' = TRUE
  /\ archiving' = "drop"
  /\ UNCHANGED <<turn, paused, halted, asked, preparing, admits, history>>

ArchiveDrop ==
  /\ archiving = "drop"
  /\ archiving' = "fail"
  /\ Commit(DropQueued(turn), "none")
  /\ UNCHANGED <<paused, halted, archived, asked, preparing, admits, disturbed,
                 ran, stopped, retriedAt, spared>>

ArchiveFail ==
  /\ archiving = "fail"
  /\ archiving' = "idle"
  /\ Commit(FailArchivedTurn(turn), "archive")
  /\ UNCHANGED <<paused, halted, archived, asked, preparing, admits, disturbed,
                 ran, stopped, retriedAt, spared>>

UnarchiveSession ==
  /\ archived
  /\ archived' = FALSE
  /\ UNCHANGED <<turn, paused, halted, archiving, asked, preparing, admits,
                 disturbed, history>>

\* A restart loses what the plane was doing between two transactions.
Interrupted == /\ asked' = "none"
               /\ archiving' = IF archiving = "idle" THEN "idle" ELSE "lost"
               /\ preparing' = 0

\* Recover runs ExpireOverdueLeases before the plane serves.
Restart ==
  /\ Disturb("restart")
  /\ Interrupted
  /\ Commit(ExpireLease(turn), "expire")
  /\ UNCHANGED <<paused, halted, archived, admits, ran, stopped, retriedAt, spared>>

\* A copy of this database is restored: leases are cleared.
Restore ==
  /\ Disturb("restore")
  /\ Interrupted
  /\ Commit(SanitizeRestored(turn), "none")
  /\ UNCHANGED <<paused, halted, archived, admits, ran, stopped, retriedAt, spared>>

-----------------------------------------------------------------------------

RunnerCall(g, c) == Heartbeat(g, c) \/ Complete(g, c) \/ Fail(g, c)

Next == \/ LivenessPasses
        \/ DeadlinePasses
        \/ ExpireOverdueLeases
        \/ Claim
        \/ EnvironmentReady
        \/ EnvironmentBusy
        \/ EnvironmentFails
        \/ \E g \in 1..turn.gen, c \in 1..turn.pending : RunnerCall(g, c)
        \/ \E kind \in PromptKinds : AskPrompt(kind)
        \/ StorePrompt
        \/ DropQueuedPrompts
        \/ Admit
        \/ OperatorRetry
        \/ CancelSessionTx
        \/ SetPause
        \/ Halt
        \/ ResumeHalt
        \/ SetArchived
        \/ ArchiveDrop
        \/ ArchiveFail
        \/ UnarchiveSession
        \/ Restart
        \/ Restore

Spec == Init /\ [][Next]_vars

\* Runners poll for work, the scheduler expires due leases on every tick, a
\* claim's environment preparation returns, a prompt that was accepted is
\* stored, and an execution deadline passes whatever the runner does.
Fairness == /\ WF_vars(Claim)
            /\ WF_vars(ExpireOverdueLeases)
            /\ WF_vars(DeadlinePasses)
            /\ WF_vars(EnvironmentReady)
            /\ WF_vars(StorePrompt)

FairSpec == Spec /\ Fairness

-----------------------------------------------------------------------------
(* Safety.                                                                 *)

\* A lease has at most one outcome.  Receipts are keyed by generation and
\* claimed revision, no generation has two, and the running lease has none:
\* Complete and Fail answer an old receipt before they look at the turn, so a
\* stray receipt would swallow the live runner's result (engine.go Complete).
OneReceiptPerLease == Fenced(turn)

\* A revision that was completed is never leased again, whatever prompts,
\* restores, halts and busy environments come in between.
CompletedNeverReclaimed ==
  turn.state = "leased" => ~CompletedRevision(turn, turn.claimed)

\* Every prompt the operator sent is in exactly one place: waiting in the
\* FIFO, waiting for its lease, delivered to a lease, dropped, or a revision.
\* No failed attempt, halt, busy environment or restart loses one
\* (PromoteSteersTx, ConsumeFollowUpTx, DropQueuedPromptsTx).
PromptsAccounted == Accounted(turn)

\* Prompts become revisions in the order the operator sent them, a steer that
\* outlives its lease included: it re-enters the FIFO at its own number, and
\* no later prompt has gone ahead of it (followup.go, steer.go).
PromptsInOrder == InOrder(turn)

\* The inductive invariant behind the four properties above.
TurnInvariant == PromptsOK(turn) /\ LeasesOK(turn)

\* No revision is overtaken before a runner had it, the session's first one
\* excepted: a second follow-up never overwrites the first.  It holds while the
\* item does not change: admitTx makes a changed item the pending revision, over
\* a follow-up that no lease has taken yet.
FollowUpsRun == \A r \in 2..(turn.pending - 1) : turn.snap[r] # 0 => r \in ran

\* A turn that completed, failed or expired to its end owes nothing: no prompt
\* waits behind it and no steer is left unpromoted.
TerminalOwesNothing ==
  turn.state \in Terminal /\ cause \in {"complete", "fail", "expire"} =>
    WaitingPrompts(turn) = {}

\* A revision fails at most RetryLimit times, counted from the operator's last
\* retry, and a turn that may still run has attempts left.
FailuresOf(r) ==
  {x \in turn.receipts : x.kind = "fail" /\ x.claimed = r /\ x.gen > retriedAt}
AttemptsBounded ==
  /\ \A r \in 1..turn.pending : Cardinality(FailuresOf(r)) <= RetryLimit
  /\ turn.state \notin Terminal => turn.retry < RetryLimit

\* While the scope is halted no lease is live, but the one a halt passed over
\* because its session was archived and its turn not yet failed (or the archive
\* lost); an archive that has finished leaves none either.  The overlay, its fence
\* and what Claim reads commit together, and no lease is granted beside the
\* spared one (applyHalt, ListOpenSessionIDsForHaltTx, failArchivedTurns).
StoppedHoldsNoLease ==
  turn.state = "leased" => /\ halted => turn.gen = spared
                           /\ ~(archived /\ archiving = "idle")

\* History only grows: a lease identity, a receipt and a revision's content are
\* never rewritten, and the claimed revision moves only with a new generation.
HistoryOnlyGrows ==
  [][/\ turn.gen <= turn'.gen
     /\ turn.receipts \subseteq turn'.receipts
     /\ turn.claimed <= turn'.claimed
     /\ turn.claimed # turn'.claimed => turn.gen < turn'.gen
     /\ SubSeq(turn'.snap, 1, turn.pending) = turn.snap]_vars

-----------------------------------------------------------------------------
(* Refinement: the turn implements the lease register.                     *)

Register == INSTANCE LeaseRegister WITH
  Outcomes <- Kinds,
  latest <- turn.pending,
  top <- turn.gen,
  holder <- IF turn.state = "leased"
            THEN [gen |-> turn.gen, rev |-> turn.claimed]
            ELSE [gen |-> 0, rev |-> 0],
  outcomes <- turn.receipts

\* Whatever operators, clocks, restarts and prompts do, a runner sees the
\* register: one holder, one outcome, the newest revision, nothing completed
\* granted twice (ClaimToken, Complete, Fail and everything that ends a lease).
ImplementsRegister == Register!RSpec

-----------------------------------------------------------------------------
(* Liveness.                                                               *)

\* Every lease ends: a runner that heartbeats for ever is stopped by the
\* execution deadline.
LeaseEnds == []<>(turn.state # "leased")

\* Every prompt is eventually delivered to a lease, given a lease of its own,
\* or dropped by the operator.
PromptSettled(p) ==
  \/ p \in turn.acked \cup turn.dropped
  \/ \E r \in ran : turn.snap[r] = p
PromptsSettle == \A p \in 1..MaxPrompts : p < turn.nextSeq ~> PromptSettled(p)

-----------------------------------------------------------------------------
(* What the documentation says and the code does not do.                   *)

\* docs/operator.md and cancel.go cancelTurnTx: a plain follow-up survives the
\* cancel of a live turn, which is queued again while it owes one. It fails: a
\* follow-up stored behind a queued prompt stays behind the failed turn.
CancelKeepsFollowUps ==
  [][turn.state = "leased" /\ cause' = "cancel" => turn'.fifo = {}]_vars

\* ARCHITECTURE.md, Cancel: no automatic retry of the cancelled revision. It
\* fails: the run cancelled_retried shows the behaviour.
CancelledNotRetried == turn.state = "leased" => turn.claimed \notin stopped

\* archive.go ArchiveSession: refuses new prompts and stops the session's work.
\* It fails: a prompt checked before the flag was set is stored after it.
ArchivedIsQuiet ==
  archived /\ archiving = "idle" => turn.state \in Terminal
=============================================================================
