--------------------------- MODULE TurnLeaseProofs ---------------------------
(***************************************************************************)
(* The safety theorems of TurnLease, for any number of prompts, revisions, *)
(* disturbances and retries.  TurnProofs shows that each transaction body  *)
(* keeps a turn sound; here each action of the specification is shown to   *)
(* run such a body, and the inductive invariant follows.                   *)
(***************************************************************************)
EXTENDS TurnLease, TurnProofs, FiniteSetTheorems

\* A part of a sequence.
LEMMA SeqCut ==
    ASSUME NEW S, NEW s, NEW a \in Int, NEW b \in Int, \A k \in a .. b : s[k] \in S
    PROVE  /\ SubSeq(s, a, b) \in Seq(S) /\ Len(SubSeq(s, a, b)) = IF a <= b THEN b - a + 1 ELSE 0
           /\ \A k \in 1 .. b - a + 1 : SubSeq(s, a, b)[k] = s[a + k - 1]
OBVIOUS

\* Sequences with the same elements.
LEMMA SeqSame ==
    ASSUME NEW S, NEW s \in Seq(S), NEW t \in Seq(S), Len(s) = Len(t), \A k \in 1 .. Len(s) : s[k] = t[k]
    PROVE  s = t
OBVIOUS

\* Everything but the turn has its type.
ControlOK ==
  /\ paused \in BOOLEAN /\ halted \in BOOLEAN /\ archived \in BOOLEAN
  /\ archiving \in ArchiveSteps
  /\ asked \in PromptKinds \cup {"none"}
  /\ preparing \in Nat
  /\ admits \in Nat /\ disturbed \in Nat
  /\ ran \subseteq Nat /\ stopped \subseteq Nat
  /\ cause \in Causes /\ retriedAt \in Nat /\ spared \in Nat

\* The inductive invariant.
IInv == ControlOK /\ Sound(turn)

\* A freshly created turn satisfies the inductive invariant.
LEMMA InitEstablishes == Init => IInv
<1> SUFFICES ASSUME Init PROVE IInv
  OBVIOUS
<1>1. ControlOK
  BY Zenon DEF Init, ControlOK, ArchiveSteps, Causes
<1>2. NewTurn \in TurnType
  BY DEF NewTurn, TurnType, States, Prompts
<1>3. /\ NewTurn.snap = <<0>> /\ NewTurn.fifo = {} /\ NewTurn.steers = {}
      /\ NewTurn.acked = {} /\ NewTurn.dropped = {} /\ NewTurn.nextSeq = 1
      /\ NewTurn.pending = 1 /\ NewTurn.claimed = 0 /\ NewTurn.gen = 0
      /\ NewTurn.receipts = {} /\ NewTurn.state = "queued"
  BY DEF NewTurn
<1>4. AppliedPrompts(NewTurn) = {} /\ WaitingPrompts(NewTurn) = {}
      /\ FifoPrompts(NewTurn) = {} /\ SteerPrompts(NewTurn) = {}
  BY <1>3 DEF AppliedPrompts, WaitingPrompts, FifoPrompts, SteerPrompts
<1>5. PromptsOK(NewTurn)
  BY <1>3, <1>4 DEF PromptsOK, Accounted, InOrder
<1>6. LeasesOK(NewTurn)
  BY <1>3 DEF LeasesOK, Fenced, CompletedRevision
<1>. QED
  BY <1>1, <1>2, <1>3, <1>5, <1>6 DEF Init, IInv, Sound

\* A transaction's record of why it ran stays among the known causes.
LEMMA CommitKeepsCause ==
  ASSUME NEW t, NEW c \in Causes, cause \in Causes, Commit(t, c)
  PROVE  turn' = t /\ cause' \in Causes
BY DEF Commit, Causes

\* A call the transaction accepts is from the live lease.
LEMMA HolderIsLive ==
  ASSUME NEW g, NEW c, Sound(turn), Holds(turn, g, c)
  PROVE  Live(turn) /\ g = turn.gen
BY DEF Live, Sound, Holds

\* Every step keeps the inductive invariant, one case per action.
LEMMA NextPreserves == IInv /\ [Next]_vars => IInv'
<1> SUFFICES ASSUME IInv, [Next]_vars
             PROVE  IInv'
  OBVIOUS
<1> USE DEF IInv
<1>t. /\ Sound(turn) /\ turn \in TurnType /\ turn.gen \in Nat /\ turn.pending \in Nat
      /\ turn.claimed \in Nat /\ cause \in Causes
  BY DEF Sound, TurnType, ControlOK
<1>1. CASE LivenessPasses
  <2>1. Sound(turn') /\ turn'.state = turn.state
    BY <1>1, ClockSound DEF LivenessPasses
  <2>. QED
    BY <1>1, <2>1 DEF LivenessPasses, ControlOK, control, history
<1>2. CASE DeadlinePasses
  <2>1. Sound(turn') /\ turn'.state = turn.state
    BY <1>2, ClockSound DEF DeadlinePasses
  <2>. QED
    BY <1>2, <2>1 DEF DeadlinePasses, ControlOK, control, history
<1>3. CASE ExpireOverdueLeases
  <2>1. turn' = ExpireLease(turn) /\ cause' \in Causes
    BY <1>3, <1>t, CommitKeepsCause DEF ExpireOverdueLeases, Causes
  <2>2. Sound(turn') /\ turn'.state # "leased"
    BY <1>3, <2>1, ExpireLeaseSound DEF ExpireOverdueLeases
  <2>. QED
    BY <1>3, <2>1, <2>2 DEF ExpireOverdueLeases, ControlOK, control
<1>4. CASE Claim
  <2> DEFINE t == ExpireLease(turn)
  <2>1. Sound(t)
    BY ExpireLeaseSound
  <2>2. /\ ~paused /\ ~archived /\ ~halted /\ t.state = "queued"
        /\ Commit(GrantLease(t), "expire") /\ preparing' = turn'.gen
        /\ ran' = ran \cup {t.pending}
        /\ UNCHANGED <<control, admits, disturbed, stopped, retriedAt, spared>>
    BY <1>4 DEF Claim
  <2> HIDE DEF t
  <2>3. turn' = GrantLease(t) /\ cause' \in Causes
    BY <1>t, <2>2, CommitKeepsCause DEF Causes
  <2>4. Sound(turn')
    BY SMTT(30), <2>1, <2>2, <2>3, GrantLeaseSound
  <2>5. preparing' \in Nat /\ t.pending \in Nat
    BY SMTT(30), <2>1, <2>2, <2>4 DEF Sound, TurnType
  <2>. QED
    BY Zenon, <2>2, <2>3, <2>4, <2>5 DEF ControlOK, control
<1>5. CASE EnvironmentReady
  BY <1>5 DEF EnvironmentReady, ControlOK, control, history
<1>6. CASE EnvironmentBusy
  <2>1. CASE Holds(turn, preparing, turn.claimed)
    <3>1. Sound(turn') /\ turn'.state = "queued"
      BY <1>6, <2>1, RequeueBusySound DEF EnvironmentBusy, Holds
    <3>. QED
      BY <1>6, <3>1 DEF EnvironmentBusy, Disturb, ControlOK, control, history
  <2>2. CASE ~Holds(turn, preparing, turn.claimed)
    BY <1>6, <2>2 DEF EnvironmentBusy, Disturb, ControlOK, control, history
  <2>. QED
    BY <2>1, <2>2
<1>7. ASSUME NEW g, NEW c, FailTx(g, c)
      PROVE  Sound(turn') /\ turn'.state # "leased" /\ cause' \in Causes
  <2>1. turn' = FailLease(turn) /\ cause' \in Causes
    BY <1>7, <1>t, CommitKeepsCause DEF FailTx, Causes
  <2>2. Live(turn)
    BY <1>7, HolderIsLive DEF FailTx
  <2>3. Ended(turn, turn')
    BY SMTT(30), <2>1, <2>2, FailLeaseEnds
  <2>. QED
    BY SMTT(30), <2>1, <2>2, <2>3, EndedSound
<1>8. CASE EnvironmentFails
  <2>1. FailTx(preparing, turn.claimed) /\ preparing' = 0
        /\ UNCHANGED <<control, admits, disturbed, ran, stopped, retriedAt, spared>>
    BY <1>8 DEF EnvironmentFails
  <2>2. Sound(turn') /\ turn'.state # "leased" /\ cause' \in Causes
    BY <1>7, <2>1
  <2>. QED
    BY <2>1, <2>2 DEF ControlOK, control
<1>9. ASSUME NEW g \in 1..turn.gen, NEW c \in 1..turn.pending, RunnerCall(g, c)
      PROVE  IInv'
  <2>1. CASE Heartbeat(g, c)
    <3>1. turn.state = "leased"
      BY <2>1 DEF Heartbeat, AcceptLease, Holds
    <3>2. PICK ids \in SUBSET {s.seq : s \in DeliveredSteers(turn, g)} :
            turn' = RenewLease(turn, ids)
      BY <2>1 DEF Heartbeat
    <3>3. Sound(turn')
      BY <3>1, <3>2, RenewLeaseSound
    <3>. QED
      BY <2>1, <3>1, <3>3 DEF Heartbeat, ControlOK, control, history
  <2>2. CASE Complete(g, c)
    <3>1. Live(turn) /\ g = turn.gen
      BY <2>2, HolderIsLive DEF Complete, AcceptLease
    <3>2. Sound(turn') /\ turn'.state # "leased" /\ cause' \in Causes
      <4>1. CASE Commit(FinalizeFailure(turn), "fail")
        <5>1. turn' = FinalizeFailure(turn) /\ cause' \in Causes
          BY <1>t, <4>1, CommitKeepsCause DEF Causes
        <5>2. Ended(turn, turn')
          BY <3>1, <5>1, FinalizeFailureEnds
        <5>. QED
          BY <3>1, <5>1, <5>2, EndedSound
      <4>2. ASSUME NEW acks \in SUBSET {s.seq : s \in DeliveredSteers(turn, g)},
                   Commit(CompleteLease(turn, acks), "complete")
            PROVE  Sound(turn') /\ turn'.state # "leased" /\ cause' \in Causes
        <5>1. turn' = CompleteLease(turn, acks) /\ cause' \in Causes
          BY <1>t, <4>2, CommitKeepsCause DEF Causes
        <5>2. acks \subseteq SteerPrompts(turn)
          BY DEF DeliveredSteers, SteerPrompts
        <5>3. Ended(turn, turn')
          BY SMTT(30), <3>1, <5>1, <5>2, CompleteLeaseEnds
        <5>. QED
          BY <3>1, <5>1, <5>3, EndedSound
      <4>. QED
        BY <2>2, <4>1, <4>2 DEF Complete
    <3>. QED
      BY <2>2, <3>2 DEF Complete, ControlOK, control
  <2>3. CASE Fail(g, c)
    <3>1. Sound(turn') /\ turn'.state # "leased" /\ cause' \in Causes
      BY <1>7, <2>3 DEF Fail
    <3>. QED
      BY <2>3, <3>1 DEF Fail, ControlOK, control
  <2>. QED
    BY <1>9, <2>1, <2>2, <2>3 DEF RunnerCall
<1>10. ASSUME NEW kind \in PromptKinds, AskPrompt(kind)
       PROVE  IInv'
  BY <1>10 DEF AskPrompt, ControlOK, history
<1>11. CASE StorePrompt
  <2>1. /\ Sound(turn') /\ cause' \in Causes
        /\ turn'.state = "leased" => turn.state = "leased"
    <3>1. CASE paused
      BY <1>11, <1>t, <3>1 DEF StorePrompt
    <3>2. CASE ~paused /\ asked = "steer" /\ SteerIsLive
      <4>1. turn' = EnqueueSteer(turn) /\ cause' \in Causes
        BY <1>11, <1>t, <3>2, CommitKeepsCause DEF StorePrompt, Causes
      <4>. QED
        BY <3>2, <4>1, EnqueueSteerSound DEF SteerIsLive
    <3>3. CASE ~paused /\ ~(asked = "steer" /\ SteerIsLive)
      <4>1. turn' = EnqueuePrompt(turn, asked = "queued") /\ cause' \in Causes
        BY <1>11, <1>t, <3>3, CommitKeepsCause DEF StorePrompt, Causes
      <4>2. (asked = "queued") \in BOOLEAN
        OBVIOUS
      <4>. QED
        BY Zenon, <4>1, <4>2, EnqueuePromptSound
    <3>. QED
      BY <3>1, <3>2, <3>3
  <2>. QED
    BY <1>11, <2>1 DEF StorePrompt, ControlOK
<1>12. CASE DropQueuedPrompts
  <2>1. turn' = DropQueued(turn) /\ cause' \in Causes
    BY <1>12, <1>t, CommitKeepsCause DEF DropQueuedPrompts, Causes
  <2>2. Sound(turn') /\ (turn'.state = "leased" <=> turn.state = "leased")
    BY <2>1, DropQueuedSound
  <2>. QED
    BY <1>12, <2>1, <2>2 DEF DropQueuedPrompts, Disturb, ControlOK, control
<1>13. CASE Admit
  <2>1. turn' = AdmitRevision(turn) /\ cause' \in Causes
    BY <1>13, <1>t, CommitKeepsCause DEF Admit, Causes
  <2>2. Sound(turn') /\ (turn'.state = "leased" <=> turn.state = "leased")
    BY <2>1, AdmitRevisionSound
  <2>. QED
    BY <1>13, <2>1, <2>2 DEF Admit, ControlOK, control
<1>14. CASE OperatorRetry
  <2>1. turn' = [turn EXCEPT !.retry = 0, !.state = "queued"] /\ cause' \in Causes
    BY SMTT(30), <1>14, <1>t, CommitKeepsCause DEF OperatorRetry, Causes
  <2>2. Sound(turn') /\ turn'.state = "queued"
    BY ZenonT(40), <1>14, <1>t, <2>1, RetriedSound DEF OperatorRetry, TurnType
  <2>. QED
    BY <1>14, <1>t, <2>1, <2>2 DEF OperatorRetry, Disturb, ControlOK, control
<1>15. CASE CancelSessionTx
  <2>1. turn' = CancelSession(turn) /\ cause' \in Causes
    BY <1>15, <1>t, CommitKeepsCause DEF CancelSessionTx, Causes
  <2>2. Sound(turn') /\ turn'.state # "leased"
    BY <2>1, CancelSessionSound
  <2>3. stopped' \subseteq Nat
    BY Zenon, <1>15, <1>t DEF CancelSessionTx, ControlOK
  <2>. QED
    BY <1>15, <2>1, <2>2, <2>3 DEF CancelSessionTx, Disturb, ControlOK, control
<1>16. CASE SetPause
  BY <1>16 DEF SetPause, Disturb, ControlOK, history
<1>17. CASE Halt
  <2>1. turn' = (IF archived THEN turn ELSE HaltLeasedTurn(turn)) /\ cause' \in Causes
    BY <1>17, <1>t, CommitKeepsCause DEF Halt, Causes
  <2>2. Sound(turn')
    BY <1>t, <2>1, HaltLeasedTurnSound
  <2>. QED
    BY <1>17, <1>t, <2>1, <2>2 DEF Halt, Disturb, ControlOK
<1>18. CASE ResumeHalt
  BY Zenon, <1>18 DEF ResumeHalt, ControlOK, history
<1>19. CASE SetArchived
  BY <1>19 DEF SetArchived, Disturb, ControlOK, ArchiveSteps, history
<1>20. CASE ArchiveDrop
  <2>1. turn' = DropQueued(turn) /\ cause' \in Causes
    BY <1>20, <1>t, CommitKeepsCause DEF ArchiveDrop, Causes
  <2>2. Sound(turn') /\ (turn'.state = "leased" <=> turn.state = "leased")
    BY <2>1, DropQueuedSound
  <2>. QED
    BY <1>20, <2>1, <2>2 DEF ArchiveDrop, ControlOK, ArchiveSteps
<1>21. CASE ArchiveFail
  <2>1. turn' = FailArchivedTurn(turn) /\ cause' \in Causes
    BY <1>21, <1>t, CommitKeepsCause DEF ArchiveFail, Causes
  <2>2. Sound(turn') /\ turn'.state # "leased"
    BY <2>1, FailArchivedTurnSound
  <2>. QED
    BY <1>21, <2>1, <2>2 DEF ArchiveFail, ControlOK, ArchiveSteps
<1>22. CASE UnarchiveSession
  BY Zenon, <1>22 DEF UnarchiveSession, ControlOK, history
<1>23. CASE Restart
  <2>1. turn' = ExpireLease(turn) /\ cause' \in Causes
    BY <1>23, <1>t, CommitKeepsCause DEF Restart, Causes
  <2>2. Sound(turn') /\ (turn'.state = "leased" => turn.state = "leased")
    BY <2>1, ExpireLeaseSound
  <2>. QED
    BY <1>23, <2>1, <2>2
    DEF Restart, Disturb, Interrupted, ControlOK, ArchiveSteps
<1>24. CASE Restore
  <2>1. turn' = SanitizeRestored(turn) /\ cause' \in Causes
    BY SMTT(30), <1>24, <1>t, CommitKeepsCause DEF Restore, Causes
  <2>2. Sound(turn') /\ turn'.state # "leased"
    BY <2>1, SanitizeRestoredSound
  <2>. QED
    BY SMTT(30), <1>24, <2>1, <2>2
    DEF Restore, Disturb, Interrupted, ControlOK, ArchiveSteps
<1>25. CASE UNCHANGED vars
  BY <1>25 DEF vars, control, history, ControlOK
<1>. QED
  BY SMTT(30), <1>1, <1>2, <1>3, <1>4, <1>5, <1>6, <1>8, <1>9, <1>10, <1>11, <1>12, <1>13,
     <1>14, <1>15, <1>16, <1>17, <1>18, <1>19, <1>20, <1>21, <1>22, <1>23, <1>24,
     <1>25 DEF Next

\* The invariant holds throughout every behaviour.
LEMMA Invariance == Spec => []IInv
BY InitEstablishes, NextPreserves, PTL DEF Spec

-----------------------------------------------------------------------------

\* Every row of the turn, its queues and its receipts keeps its type through
\* every transaction of the engine.
THEOREM TypeCorrect == Spec => []TypeOK
<1>1. IInv => TypeOK
  BY DEF IInv, ControlOK, Sound, TypeOK
<1>. QED
  BY <1>1, Invariance, PTL

\* The parts of the inductive invariant that concern the turn: prompts are
\* accounted for and ordered, leases are fenced.
THEOREM TurnStaysSound == Spec => []TurnInvariant
<1>1. IInv => TurnInvariant
  BY DEF IInv, Sound, TurnInvariant
<1>. QED
  BY SMTT(30), <1>1, Invariance, PTL

\* However clocks, operators, restarts and runners interleave, no lease is
\* settled twice and no receipt stands in the way of the live lease.
THEOREM LeaseSettledOnce == Spec => []OneReceiptPerLease
<1>1. IInv => OneReceiptPerLease
  BY DEF IInv, Sound, LeasesOK, OneReceiptPerLease
<1>. QED
  BY <1>1, Invariance, PTL

\* A runner is never given a revision that another runner completed.
THEOREM NoCompletedRevisionReclaimed == Spec => []CompletedNeverReclaimed
<1>1. IInv => CompletedNeverReclaimed
  BY DEF IInv, Sound, LeasesOK, CompletedNeverReclaimed
<1>. QED
  BY <1>1, Invariance, PTL

\* No prompt or steer is lost or duplicated by any transaction.
THEOREM NoPromptLost == Spec => []PromptsAccounted
<1>1. IInv => PromptsAccounted
  BY DEF IInv, Sound, PromptsOK, PromptsAccounted
<1>. QED
  BY SMTT(30), <1>1, Invariance, PTL

\* Prompts become revisions in the order they were sent, promoted steers and
\* dropped prompts included.
THEOREM PromptOrderKept == Spec => []PromptsInOrder
<1>1. IInv => PromptsInOrder
  BY DEF IInv, Sound, PromptsOK, PromptsInOrder
<1>. QED
  BY <1>1, Invariance, PTL

-----------------------------------------------------------------------------
(* Revisions, attempts and the lease register.                             *)

\* No prompt's revision overtook one that no runner had, after a admitted item
\* changes and with leases granted for the revisions R; what was claimed was
\* granted, and without item changes every later revision is a prompt's.
Unovertaken(t, a, R) ==
  /\ t.pending >= 1
  /\ t.claimed # 0 => t.claimed \in R
  /\ \A r \in 2..(t.pending - 1) : t.snap[r + 1] # 0 => r \in R
  /\ a = 0 => \A r \in 2..t.pending : t.snap[r] # 0

\* The failures of revision r since generation ra, as FailuresOf counts them.
Fails(t, ra, r) == {x \in t.receipts : x.kind = "fail" /\ x.claimed = r /\ x.gen > ra}

\* The attempt count covers the failures of the newest revision and a lease has
\* an attempt left; only a turn at rest may have used them up.
Counted(t, ra) ==
  /\ IsFiniteSet(t.receipts)
  /\ Superseded(t) => t.retry = 0
  /\ \A r \in Nat : Cardinality(Fails(t, ra, r)) <= RetryLimit
  /\ t.state = "leased" => Cardinality(Fails(t, ra, t.claimed)) < RetryLimit
  /\ \/ t.retry < RetryLimit /\ Cardinality(Fails(t, ra, t.pending)) <= t.retry
     \/ Resting(t)

\* The inductive invariant of this part.
JInv == /\ IInv
        /\ turn.state = "leased" => turn.gen # 0
        /\ Unovertaken(turn, admits, ran)
        /\ Counted(turn, retriedAt)

\* The four kinds of step: a transaction that moves the turn, an admitted item
\* change, the operator's retry, and a claim.
MovesOn ==
  /\ \E k \in Answers : Moved(turn, turn', k)
  /\ UNCHANGED <<ran, retriedAt, admits>>

Admits ==
  /\ LeaseStep(turn, turn', "kept") /\ NewRevision(turn, turn', 0)
  /\ admits' = admits + 1 /\ UNCHANGED <<ran, retriedAt>>

Retries ==
  /\ turn.state = "failed" /\ turn' = [turn EXCEPT !.retry = 0, !.state = "queued"]
  /\ retriedAt' = turn.gen /\ UNCHANGED <<ran, admits>>

\* What a claim finds: the turn as it is, or with its due lease expired.
Expired(t) == t = turn \/ (turn.state = "leased" /\ (Moved(turn, t, "fail") \/ Moved(turn, t, "lost")))

ClaimStep ==
  /\ Claim
  /\ \E t : Sound(t) /\ t.state = "queued" /\ Expired(t) /\ turn' = GrantLease(t) /\ ran' = ran \cup {t.pending}
  /\ UNCHANGED <<retriedAt, admits>>

\* A step moves the turn on, admits a revision, retries a failed one or claims.
LEMMA StepKinds ==
  ASSUME IInv, [Next]_vars
  PROVE  MovesOn \/ Admits \/ Retries \/ ClaimStep
<1> USE DEF IInv
<1>t. Sound(turn) /\ turn \in TurnType
  BY DEF Sound
<1>k. \A k \in {"kept", "lost", "fail", "complete", "cancelled", "halted"} : k \in Answers
  BY DEF Answers, Kinds
<1>u. turn' = turn => Moved(turn, turn', "kept")
  <2>1. SameLease(turn, turn) /\ SameRevisions(turn, turn)
    BY DEF SameLease, SameRevisions
  <2>. QED
    BY SMTT(30), <2>1, UntouchedMoves
<1>l. turn.state = "leased" => Live(turn)
  BY <1>t DEF Live, Sound
<1>1. CASE LivenessPasses
  BY SMTT(30), <1>1, <1>t, <1>k, ClockMoves DEF LivenessPasses, MovesOn, history
<1>2. CASE DeadlinePasses
  BY SMTT(30), <1>2, <1>t, <1>k, ClockMoves DEF DeadlinePasses, MovesOn, history
<1>3. CASE ExpireOverdueLeases
  <2>1. turn' = ExpireLease(turn) /\ LeaseDue(turn) /\ turn.state = "leased"
    BY <1>3 DEF ExpireOverdueLeases, Commit, LeaseDue
  <2>2. Moved(turn, turn', "fail") \/ Moved(turn, turn', "lost")
    BY <1>l, <2>1, ExpireLeaseMoves
  <2>. QED
    BY <1>3, <1>k, <2>2 DEF ExpireOverdueLeases, MovesOn
<1>4. CASE Claim
  <2> DEFINE t == ExpireLease(turn)
  <2>1. Sound(t) /\ (~LeaseDue(turn) => t = turn)
    BY <1>t, ExpireLeaseSound
  <2>2. LeaseDue(turn) => turn.state = "leased" /\ (Moved(turn, t, "fail") \/ Moved(turn, t, "lost"))
    BY <1>l, ExpireLeaseMoves DEF LeaseDue
  <2>3. /\ t.state = "queued" /\ turn' = GrantLease(t) /\ ran' = ran \cup {t.pending}
        /\ UNCHANGED <<retriedAt, admits>>
    BY <1>4 DEF Claim, Commit
  <2> HIDE DEF t
  <2>4. Expired(t)
    BY <2>1, <2>2 DEF Expired
  <2>. QED
    BY <1>4, <2>1, <2>3, <2>4 DEF ClaimStep
<1>5. CASE EnvironmentReady
  BY <1>5, <1>k, <1>u DEF EnvironmentReady, MovesOn, history
<1>6. CASE EnvironmentBusy
  <2>1. CASE Holds(turn, preparing, turn.claimed)
    <3>1. turn.state = "leased" /\ turn' = RequeueBusy(turn)
      BY <1>6, <2>1 DEF EnvironmentBusy, Holds
    <3>2. Moved(turn, turn', "lost")
      BY <1>t, <3>1, ClearedMoves
    <3>. QED
      BY <1>6, <1>k, <3>2 DEF EnvironmentBusy, MovesOn, history
  <2>2. CASE ~Holds(turn, preparing, turn.claimed)
    BY SMTT(30), <1>6, <1>k, <1>u, <2>2 DEF EnvironmentBusy, MovesOn, history
  <2>. QED
    BY <2>1, <2>2
<1>7. ASSUME NEW g, NEW c, FailTx(g, c)
      PROVE  Moved(turn, turn', "fail")
  <2>1. turn' = FailLease(turn)
    BY <1>7 DEF FailTx, Commit
  <2>2. Live(turn)
    BY <1>7, HolderIsLive DEF FailTx
  <2>. QED
    BY <2>1, <2>2, FailLeaseMoves
<1>8. CASE EnvironmentFails
  BY <1>7, <1>8, <1>k DEF EnvironmentFails, MovesOn
<1>9. ASSUME NEW g \in 1..turn.gen, NEW c \in 1..turn.pending, RunnerCall(g, c)
      PROVE  MovesOn
  <2>1. CASE Heartbeat(g, c)
    <3>1. turn.state = "leased"
      BY SMTT(30), <2>1 DEF Heartbeat, AcceptLease, Holds
    <3>2. PICK ids \in SUBSET {s.seq : s \in DeliveredSteers(turn, g)} :
            turn' = RenewLease(turn, ids)
      BY <2>1 DEF Heartbeat
    <3>3. Moved(turn, turn', "kept")
      BY SMTT(30), <1>t, <3>1, <3>2, RenewLeaseMoves
    <3>. QED
      BY SMTT(30), <1>k, <2>1, <3>3 DEF Heartbeat, MovesOn, history
  <2>2. CASE Complete(g, c)
    <3>1. Live(turn)
      BY SMTT(30), <2>2, HolderIsLive DEF Complete, AcceptLease
    <3>2. Moved(turn, turn', "fail") \/ Moved(turn, turn', "complete")
      <4>1. CASE Commit(FinalizeFailure(turn), "fail")
        BY <3>1, <4>1, FinalizeFailureMoves DEF Commit
      <4>2. ASSUME NEW acks \in SUBSET {s.seq : s \in DeliveredSteers(turn, g)},
                   Commit(CompleteLease(turn, acks), "complete")
            PROVE  Moved(turn, turn', "complete")
        <5>1. turn' = CompleteLease(turn, acks)
          BY <4>2 DEF Commit
        <5>2. acks \subseteq SteerPrompts(turn)
          BY DEF DeliveredSteers, SteerPrompts
        <5>. QED
          BY SMTT(30), <3>1, <5>1, <5>2, CompleteLeaseMoves
      <4>. QED
        BY SMTT(30), <2>2, <4>1, <4>2 DEF Complete
    <3>. QED
      BY SMTT(30), <1>k, <2>2, <3>2 DEF Complete, MovesOn
  <2>3. CASE Fail(g, c)
    BY SMTT(30), <1>7, <1>k, <2>3 DEF Fail, MovesOn
  <2>. QED
    BY SMTT(30), <1>9, <2>1, <2>2, <2>3 DEF RunnerCall
<1>10. ASSUME NEW kind \in PromptKinds, AskPrompt(kind)
       PROVE  MovesOn
  BY SMTT(30), <1>10, <1>k, <1>u DEF AskPrompt, MovesOn, history
<1>11. CASE StorePrompt
  <2>1. Moved(turn, turn', "kept")
    <3>1. CASE paused
      BY <1>11, <1>u, <3>1 DEF StorePrompt
    <3>2. CASE ~paused /\ asked = "steer" /\ SteerIsLive
      <4>1. turn' = EnqueueSteer(turn) /\ turn.state = "leased"
        BY <1>11, <3>2 DEF StorePrompt, Commit, SteerIsLive
      <4>. QED
        BY <1>t, <4>1, EnqueueSteerMoves
    <3>3. CASE ~paused /\ ~(asked = "steer" /\ SteerIsLive)
      <4>1. turn' = EnqueuePrompt(turn, asked = "queued")
        BY <1>11, <3>3 DEF StorePrompt, Commit
      <4>2. (asked = "queued") \in BOOLEAN
        OBVIOUS
      <4>. QED
        BY Zenon, <1>t, <4>1, <4>2, EnqueuePromptMoves
    <3>. QED
      BY <3>1, <3>2, <3>3
  <2>. QED
    BY <1>11, <1>k, <2>1 DEF StorePrompt, MovesOn
<1>12. CASE DropQueuedPrompts
  <2>1. turn' = DropQueued(turn)
    BY <1>12 DEF DropQueuedPrompts, Commit
  <2>2. Moved(turn, turn', "kept")
    BY <1>t, <2>1, DropQueuedMoves
  <2>. QED
    BY SMTT(30), <1>12, <1>k, <2>2 DEF DropQueuedPrompts, MovesOn
<1>13. CASE Admit
  <2>1. turn' = AdmitRevision(turn)
    BY <1>13 DEF Admit, Commit
  <2>2. LeaseStep(turn, turn', "kept") /\ NewRevision(turn, turn', 0)
    BY <1>t, <2>1, AdmitRevisionFields
  <2>. QED
    BY <1>13, <2>2 DEF Admit, Admits
<1>14. CASE OperatorRetry
  BY <1>14 DEF OperatorRetry, Commit, Retries
<1>15. CASE CancelSessionTx
  <2>1. turn' = CancelSession(turn)
    BY <1>15 DEF CancelSessionTx, Commit
  <2>2. Moved(turn, turn', "kept") \/ Moved(turn, turn', "cancelled")
    BY SMTT(30), <1>t, <2>1, CancelSessionMoves
  <2>. QED
    BY SMTT(30), <1>15, <1>k, <2>2 DEF CancelSessionTx, MovesOn
<1>16. CASE SetPause
  BY <1>16, <1>k, <1>u DEF SetPause, MovesOn, history
<1>17. CASE Halt
  <2>1. turn' = IF archived THEN turn ELSE HaltLeasedTurn(turn)
    BY <1>17 DEF Halt, Commit
  <2>2. Moved(turn, turn', "kept") \/ Moved(turn, turn', "halted")
    <3>1. CASE ~archived /\ turn.state = "leased"
      BY SMTT(30), <1>l, <2>1, <3>1, HaltLeasedTurnMoves
    <3>2. CASE archived \/ turn.state # "leased"
      BY SMTT(30), <1>u, <2>1, <3>2 DEF HaltLeasedTurn
    <3>. QED
      BY <3>1, <3>2
  <2>. QED
    BY <1>17, <1>k, <2>2 DEF Halt, MovesOn
<1>18. CASE ResumeHalt
  BY SMTT(30), <1>18, <1>k, <1>u DEF ResumeHalt, MovesOn, history
<1>19. CASE SetArchived
  BY <1>19, <1>k, <1>u DEF SetArchived, MovesOn, history
<1>20. CASE ArchiveDrop
  <2>1. turn' = DropQueued(turn)
    BY <1>20 DEF ArchiveDrop, Commit
  <2>2. Moved(turn, turn', "kept")
    BY SMTT(30), <1>t, <2>1, DropQueuedMoves
  <2>. QED
    BY <1>20, <1>k, <2>2 DEF ArchiveDrop, MovesOn
<1>21. CASE ArchiveFail
  <2>1. turn' = FailArchivedTurn(turn)
    BY <1>21 DEF ArchiveFail, Commit
  <2>2. Moved(turn, turn', "kept") \/ Moved(turn, turn', "cancelled")
    BY SMTT(30), <1>t, <2>1, FailArchivedTurnMoves
  <2>. QED
    BY SMTT(30), <1>21, <1>k, <2>2 DEF ArchiveFail, MovesOn
<1>22. CASE UnarchiveSession
  BY SMTT(30), <1>22, <1>k, <1>u DEF UnarchiveSession, MovesOn, history
<1>23. CASE Restart
  <2>1. turn' = ExpireLease(turn)
    BY <1>23 DEF Restart, Commit
  <2>2. Moved(turn, turn', "kept") \/ Moved(turn, turn', "fail") \/ Moved(turn, turn', "lost")
    <3>1. CASE LeaseDue(turn)
      BY SMTT(30), <1>l, <2>1, <3>1, ExpireLeaseMoves DEF LeaseDue
    <3>2. CASE ~LeaseDue(turn)
      BY SMTT(30), <1>t, <1>u, <2>1, <3>2, ExpireLeaseSound
    <3>. QED
      BY SMTT(30), <3>1, <3>2
  <2>. QED
    BY <1>23, <1>k, <2>2 DEF Restart, MovesOn
<1>24. CASE Restore
  <2>1. turn' = SanitizeRestored(turn)
    BY <1>24 DEF Restore, Commit
  <2>2. Moved(turn, turn', "kept") \/ Moved(turn, turn', "lost")
    <3>1. CASE turn.state = "leased"
      BY SMTT(30), <1>t, <2>1, <3>1, ClearedMoves
    <3>2. CASE turn.state # "leased"
      BY SMTT(30), <1>u, <2>1, <3>2 DEF SanitizeRestored
    <3>. QED
      BY SMTT(30), <3>1, <3>2
  <2>. QED
    BY SMTT(30), <1>24, <1>k, <2>2 DEF Restore, MovesOn
<1>25. CASE UNCHANGED vars
  BY SMTT(30), <1>25, <1>k, <1>u DEF vars, history, MovesOn
<1>. QED
  BY <1>1, <1>2, <1>3, <1>4, <1>5, <1>6, <1>8, <1>9, <1>10, <1>11, <1>12, <1>13,
     <1>14, <1>15, <1>16, <1>17, <1>18, <1>19, <1>20, <1>21, <1>22, <1>23, <1>24,
     <1>25 DEF Next

-----------------------------------------------------------------------------
(* Halts and archives.                                                     *)

\* A step that neither claims nor halts nor finishes an archive opens no way
\* for a live lease: a halt or a finished archive it ends in was there before.
LEMMA StopsStay ==
  ASSUME [Next]_vars
  PROVE  \/ Claim
         \/ Halt
         \/ ArchiveFail
         \/ /\ spared' = spared
            /\ halted' => halted
            /\ archived' /\ archiving' = "idle" => archived /\ archiving = "idle"
<1> DEFINE Stays == /\ spared' = spared
                    /\ halted' => halted
                    /\ archived' /\ archiving' = "idle" => archived /\ archiving = "idle"
<1>1. CASE LivenessPasses \/ DeadlinePasses \/ ExpireOverdueLeases
  BY <1>1 DEF LivenessPasses, DeadlinePasses, ExpireOverdueLeases, control, history
<1>2. CASE EnvironmentReady \/ EnvironmentBusy \/ EnvironmentFails
  BY <1>2 DEF EnvironmentReady, EnvironmentBusy, EnvironmentFails, control, history
<1>3. ASSUME NEW g, NEW c, RunnerCall(g, c) PROVE Stays
  BY <1>3 DEF RunnerCall, Heartbeat, Complete, Fail, control, history
<1>4. ASSUME NEW kind \in PromptKinds, AskPrompt(kind) PROVE Stays
  BY <1>4 DEF AskPrompt, history
<1>5. CASE StorePrompt \/ DropQueuedPrompts \/ Admit
  BY <1>5 DEF StorePrompt, DropQueuedPrompts, Admit, control
<1>6. CASE OperatorRetry \/ CancelSessionTx
  BY <1>6 DEF OperatorRetry, CancelSessionTx, control
<1>7. CASE SetPause \/ ResumeHalt \/ UnarchiveSession
  BY <1>7 DEF SetPause, ResumeHalt, UnarchiveSession, history
<1>8. CASE SetArchived
  BY <1>8 DEF SetArchived, history
<1>9. CASE ArchiveDrop
  BY <1>9 DEF ArchiveDrop
<1>10. CASE Restart \/ Restore
  BY <1>10 DEF Restart, Restore, Interrupted
<1>11. CASE UNCHANGED vars
  BY <1>11 DEF vars, control, history
<1>. QED
  BY <1>1, <1>2, <1>3, <1>4, <1>5, <1>6, <1>7, <1>8, <1>9, <1>10, <1>11 DEF Next

\* A step other than a claim that ends with a live lease started with it.
LEMMA LeaseStays ==
  ASSUME IInv, [Next]_vars, ~Claim, turn'.state = "leased"
  PROVE  turn.state = "leased" /\ turn'.gen = turn.gen
<1>1. CASE MovesOn
  BY <1>1 DEF MovesOn, Moved, LeaseStep
<1>2. CASE Admits
  BY <1>2 DEF Admits, LeaseStep
<1>3. CASE Retries
  BY <1>3 DEF Retries, IInv, Sound, TurnType
<1>4. CASE ClaimStep
  BY <1>4 DEF ClaimStep
<1>. QED
  BY StepKinds, <1>1, <1>2, <1>3, <1>4

\* Every step keeps the stops final.
LEMMA StopPreserved ==
  ASSUME IInv, [Next]_vars, StoppedHoldsNoLease
  PROVE  StoppedHoldsNoLease'
<1> SUFFICES ASSUME turn'.state = "leased"
             PROVE  /\ halted' => turn'.gen = spared'
                    /\ ~(archived' /\ archiving' = "idle")
  BY DEF StoppedHoldsNoLease
<1>1. CASE Claim
  BY <1>1 DEF Claim, control
<1>2. CASE Halt
  <2>1. archived
    <3> SUFFICES ASSUME ~archived PROVE FALSE
      OBVIOUS
    <3>1. turn' = HaltLeasedTurn(turn)
      BY <1>2 DEF Halt, Commit
    <3>. QED
      BY <3>1, HaltLeasedTurnSound DEF IInv
  <2>2. turn' = turn /\ spared' = turn.gen /\ archived' = archived /\ archiving' = archiving
    BY <1>2, <2>1 DEF Halt, Commit
  <2>. QED
    BY <2>2 DEF StoppedHoldsNoLease
<1>3. CASE ArchiveFail
  <2>1. turn' = FailArchivedTurn(turn)
    BY <1>3 DEF ArchiveFail, Commit
  <2>. QED
    BY <2>1, FailArchivedTurnSound DEF IInv
<1>4. CASE /\ ~Claim /\ spared' = spared
           /\ halted' => halted
           /\ archived' /\ archiving' = "idle" => archived /\ archiving = "idle"
  <2>1. turn.state = "leased" /\ turn'.gen = turn.gen
    BY <1>4, LeaseStays
  <2>. QED
    BY <1>4, <2>1 DEF StoppedHoldsNoLease
<1>. QED
  BY StopsStay, <1>1, <1>2, <1>3, <1>4

\* In a halted scope no lease is live but the one the halt passed over, in a
\* session that was archived then; none is live once an archive has finished.
THEOREM StopIsFinal == Spec => []StoppedHoldsNoLease
<1>1. Init => StoppedHoldsNoLease
  BY DEF Init, NewTurn, StoppedHoldsNoLease
<1>2. IInv /\ StoppedHoldsNoLease /\ [Next]_vars => StoppedHoldsNoLease'
  BY StopPreserved
<1>. QED
  BY <1>1, <1>2, Invariance, PTL DEF Spec

-----------------------------------------------------------------------------
(* Attempts and revisions, along the four kinds of step.                   *)

\* A sound turn's snapshots, one for each revision.
LEMMA SnapFacts ==
  ASSUME NEW t, Sound(t)
  PROVE  /\ t \in TurnType /\ t.snap \in Seq(Nat) /\ Len(t.snap) = t.pending /\ t.pending \in Nat
         /\ t.claimed \in Nat /\ t.gen \in Nat /\ t.retry \in Nat /\ t.receipts \subseteq Receipt
         /\ t.claimed <= t.pending
         /\ \A r \in t.receipts : r.claimed <= t.claimed /\ r.gen <= t.gen
BY DEF Sound, TurnType, PromptsOK, LeasesOK, Fenced

\* A new revision keeps the snapshots before it.
LEMMA SnapGrows ==
  ASSUME NEW t, Sound(t), NEW x \in Nat, NEW u, NewRevision(t, u, x)
  PROVE  /\ u.pending = t.pending + 1 /\ u.snap[t.pending + 1] = x
         /\ \A r \in 1..t.pending : u.snap[r] = t.snap[r]
BY SMTT(30), SnapFacts, SeqAppend DEF NewRevision

\* Moving the turn overtakes nothing.
LEMMA UnovertakenMoved ==
  ASSUME NEW t, Sound(t), NEW a, NEW R, Unovertaken(t, a, R), NEW k, NEW u, Moved(t, u, k)
  PROVE  Unovertaken(u, a, R)
<1>1. /\ t.pending \in Nat /\ t.claimed \in Nat /\ t.claimed <= t.pending /\ u.claimed = t.claimed
  BY SnapFacts DEF Moved, LeaseStep
<1>2. CASE SameRevisions(t, u)
  BY SMTT(30), <1>1, <1>2 DEF SameRevisions, Unovertaken
<1>3. ASSUME ~HasUnclaimedFollowUp(t), NEW x \in Prompts, NewRevision(t, u, x)
      PROVE  Unovertaken(u, a, R)
  <2>1. /\ u.pending = t.pending + 1 /\ u.snap[t.pending + 1] = x /\ x # 0
        /\ \A r \in 1..t.pending : u.snap[r] = t.snap[r]
    BY <1>3, SnapGrows DEF Prompts
  <2>2. t.pending # 1 => t.pending \in R
    BY <1>1, <1>3 DEF HasUnclaimedFollowUp, Unovertaken
  <2>3. ASSUME NEW r \in 2..(u.pending - 1), u.snap[r + 1] # 0
        PROVE  r \in R
    <3>1. r = t.pending \/ (r \in 2..(t.pending - 1) /\ r + 1 \in 1..t.pending)
      BY <1>1, <2>1
    <3>. QED
      BY SMTT(30), <1>1, <2>1, <2>2, <2>3, <3>1 DEF Unovertaken
  <2>4. ASSUME a = 0, NEW r \in 2..u.pending
        PROVE  u.snap[r] # 0
    <3>1. r = t.pending + 1 \/ (r \in 2..t.pending /\ r \in 1..t.pending)
      BY <1>1, <2>1
    <3>. QED
      BY SMTT(30), <2>1, <2>4, <3>1 DEF Unovertaken
  <2>5. u.pending >= 1
    BY SMTT(30), <1>1, <2>1
  <2>. QED
    BY SMTT(30), <1>1, <2>3, <2>4, <2>5 DEF Unovertaken
<1>. QED
  BY SMTT(30), <1>2, <1>3 DEF Moved, RevisionStep, Followed

\* An item change overtakes what it likes, and is counted.
LEMMA UnovertakenAdmitted ==
  ASSUME NEW t, Sound(t), NEW a \in Nat, NEW R, Unovertaken(t, a, R),
         NEW u, u.claimed = t.claimed, NewRevision(t, u, 0)
  PROVE  Unovertaken(u, a + 1, R)
<1>1. t.pending \in Nat /\ a + 1 # 0
  BY SnapFacts
<1>2. /\ u.pending = t.pending + 1 /\ u.snap[t.pending + 1] = 0
      /\ \A r \in 1..t.pending : u.snap[r] = t.snap[r]
  BY SnapGrows
<1>3. ASSUME NEW r \in 2..(u.pending - 1), u.snap[r + 1] # 0
      PROVE  r \in R
  <2>1. r = t.pending \/ (r \in 2..(t.pending - 1) /\ r + 1 \in 1..t.pending)
    BY <1>1, <1>2
  <2>. QED
    BY SMTT(30), <1>2, <1>3, <2>1 DEF Unovertaken
<1>4. u.pending >= 1
  BY <1>1, <1>2
<1>. QED
  BY SMTT(30), <1>1, <1>3, <1>4 DEF Unovertaken

\* A grant takes the newest revision.
LEMMA GrantFields ==
  ASSUME NEW t, Sound(t), NEW u, u = GrantLease(t)
  PROVE  /\ u.claimed = t.pending /\ u.pending = t.pending /\ u.snap = t.snap /\ u.retry = t.retry
         /\ u.gen = t.gen + 1 /\ u.state = "leased" /\ u.receipts = t.receipts
BY DEF GrantLease, Sound, TurnType

\* The failures a step leaves: those there were, and one of the claimed
\* revision when the lease failed.
LEMMA FailsMoved ==
  ASSUME NEW t, Sound(t), NEW ra \in Nat, IsFiniteSet(t.receipts), NEW k, NEW u, LeaseStep(t, u, k)
  PROVE  /\ IsFiniteSet(u.receipts)
         /\ \A r \in Nat : k # "fail" \/ r # t.claimed => Fails(u, ra, r) = Fails(t, ra, r)
         /\ \A r \in Nat : Cardinality(Fails(t, ra, r)) \in Nat /\ Cardinality(Fails(u, ra, r)) \in Nat
         /\ Cardinality(Fails(u, ra, t.claimed)) <= Cardinality(Fails(t, ra, t.claimed)) + 1
<1> DEFINE rec == [gen |-> t.gen, claimed |-> t.claimed, kind |-> k]
<1>1. /\ u.receipts = t.receipts \/ u.receipts = t.receipts \cup {rec}
      /\ rec.claimed = t.claimed /\ rec.kind = k
  BY DEF LeaseStep, Recorded
<1>c. t.claimed \in Nat
  BY SnapFacts
<1> HIDE DEF rec
<1>2. IsFiniteSet(u.receipts)
  BY <1>1, FS_AddElement
<1>3. ASSUME NEW r \in Nat, k # "fail" \/ r # t.claimed
      PROVE  Fails(u, ra, r) = Fails(t, ra, r)
  BY <1>1, <1>3 DEF Fails
<1>4. ASSUME NEW r \in Nat
      PROVE  /\ IsFiniteSet(Fails(t, ra, r)) /\ IsFiniteSet(Fails(u, ra, r))
             /\ Cardinality(Fails(t, ra, r)) \in Nat /\ Cardinality(Fails(u, ra, r)) \in Nat
  <2>1. Fails(t, ra, r) \subseteq t.receipts /\ Fails(u, ra, r) \subseteq u.receipts
    BY DEF Fails
  <2>2. IsFiniteSet(Fails(t, ra, r)) /\ IsFiniteSet(Fails(u, ra, r))
    BY SMTT(30), <1>2, <2>1, FS_Subset
  <2>. QED
    BY <2>2, FS_CardinalityType
<1>5. Cardinality(Fails(u, ra, t.claimed)) <= Cardinality(Fails(t, ra, t.claimed)) + 1
  <2> DEFINE A == Fails(t, ra, t.claimed)
             B == Fails(u, ra, t.claimed)
  <2>1. B \subseteq A \cup {rec}
    BY <1>1 DEF Fails
  <2>2. /\ IsFiniteSet(A) /\ Cardinality(A) \in Nat /\ Cardinality(B) \in Nat
    BY <1>4, <1>c
  <2> HIDE DEF A, B
  <2>3. /\ IsFiniteSet(A \cup {rec}) /\ Cardinality(A \cup {rec}) <= Cardinality(A) + 1
        /\ Cardinality(A \cup {rec}) \in Nat
    <3>1. IsFiniteSet(A \cup {rec})
          /\ Cardinality(A \cup {rec}) = IF rec \in A THEN Cardinality(A) ELSE Cardinality(A) + 1
      BY <2>2, FS_AddElement
    <3>2. Cardinality(A \cup {rec}) \in Nat
      BY <3>1, FS_CardinalityType
    <3>. QED
      BY SMTT(30), <2>2, <3>1, <3>2
  <2>4. Cardinality(B) <= Cardinality(A \cup {rec})
    BY SMTT(30), <2>1, <2>3, FS_Subset
  <2>5. Cardinality(B) <= Cardinality(A) + 1
    BY <2>2, <2>3, <2>4
  <2>. QED
    BY <2>5 DEF A, B
<1>. QED
  BY SMTT(30), <1>2, <1>3, <1>4, <1>5

\* A revision beyond the claimed one has not failed.
LEMMA UnclaimedNeverFailed ==
  ASSUME NEW t, Sound(t), NEW ra, NEW r \in Nat, r > t.claimed
  PROVE  Fails(t, ra, r) = {} /\ Cardinality(Fails(t, ra, r)) = 0
<1>1. \A x \in t.receipts : x.claimed \in Nat /\ x.claimed <= t.claimed
  BY SnapFacts DEF Receipt
<1>2. Fails(t, ra, r) = {}
  BY SMTT(30), <1>1, SnapFacts DEF Fails
<1>. QED
  BY <1>2, FS_EmptySet

\* Moving the turn, or admitting an item change, keeps the attempts counted.
LEMMA CountedMoved ==
  ASSUME NEW t, Sound(t), NEW ra \in Nat, Counted(t, ra), NEW k, NEW u, LeaseStep(t, u, k),
         RevisionStep(t, u, k) \/ \E x \in Nat : NewRevision(t, u, x)
  PROVE  Counted(u, ra)
<1> DEFINE ft(r) == Cardinality(Fails(t, ra, r))
           fu(r) == Cardinality(Fails(u, ra, r))
<1>1. /\ t.claimed \in Nat /\ t.pending \in Nat /\ t.claimed <= t.pending /\ u.claimed = t.claimed
      /\ t.retry \in Nat /\ RetryLimit \in Nat /\ RetryLimit # 0
  BY SnapFacts, RetryLimitAssumption DEF LeaseStep
<1>2. /\ IsFiniteSet(u.receipts)
      /\ \A r \in Nat : k # "fail" \/ r # t.claimed => fu(r) = ft(r)
      /\ \A r \in Nat : ft(r) \in Nat /\ fu(r) \in Nat
      /\ fu(t.claimed) <= ft(t.claimed) + 1
  <2>1. IsFiniteSet(t.receipts)
    BY DEF Counted
  <2>2. /\ IsFiniteSet(u.receipts)
        /\ \A r \in Nat : k # "fail" \/ r # t.claimed => Fails(u, ra, r) = Fails(t, ra, r)
        /\ \A r \in Nat : Cardinality(Fails(t, ra, r)) \in Nat /\ Cardinality(Fails(u, ra, r)) \in Nat
        /\ Cardinality(Fails(u, ra, t.claimed)) <= Cardinality(Fails(t, ra, t.claimed)) + 1
    BY Zenon, <2>1, FailsMoved
  <2>3. \A r \in Nat : k # "fail" \/ r # t.claimed => fu(r) = ft(r)
    BY ONLY <2>2
  <2>. QED
    BY ONLY <2>2, <2>3
<1>3. \A r \in Nat : r > t.claimed => ft(r) = 0
  BY UnclaimedNeverFailed
<1>4. /\ \A r \in Nat : ft(r) <= RetryLimit
      /\ t.state = "leased" => ft(t.claimed) < RetryLimit
      /\ (t.retry < RetryLimit /\ ft(t.pending) <= t.retry) \/ Resting(t)
      /\ Superseded(t) => t.retry = 0
  BY SMTT(30) DEF Counted
<1> HIDE DEF ft, fu
<1>5. k = "fail" => t.state = "leased"
  BY DEF LeaseStep
<1>6. \A r \in Nat : fu(r) <= RetryLimit
  BY SMTT(30), <1>1, <1>2, <1>4, <1>5
<1>7. u.state = "leased" => fu(t.claimed) < RetryLimit
  <2>1. u.state = "leased" => t.state = "leased" /\ k # "fail"
    BY DEF LeaseStep
  <2>. QED
    BY SMTT(30), <1>1, <1>2, <1>4, <2>1
<1>8. SameRevisions(t, u) => (Superseded(u) <=> Superseded(t))
  BY SMTT(30), <1>1 DEF SameRevisions, Superseded
<1>9. /\ Superseded(u) => u.retry = 0
      /\ (u.retry < RetryLimit /\ fu(u.pending) <= u.retry) \/ Resting(u)
  <2>1. CASE /\ SameRevisions(t, u) /\ u.retry = t.retry
             /\ k # "fail" \/ Superseded(t) \/ Resting(u)
             /\ Resting(t) => Resting(u)
    <3>1. u.pending = t.pending
      BY <2>1 DEF SameRevisions
    <3>2. k # "fail" \/ t.pending # t.claimed \/ Resting(u)
      BY <1>1, <2>1 DEF Superseded
    <3>3. fu(t.pending) = ft(t.pending) \/ Resting(u)
      BY SMTT(30), <1>1, <1>2, <3>2
    <3>. QED
      BY <1>4, <1>8, <2>1, <3>1, <3>3
  <2>2. CASE /\ SameRevisions(t, u) /\ u.retry = t.retry + 1
             /\ t.state = "leased" /\ ~Superseded(t)
             /\ u.retry < RetryLimit \/ Resting(u)
    <3>1. ~Resting(t) /\ u.pending = t.pending /\ t.pending = t.claimed
      BY SMTT(30), <1>1, <2>2 DEF Resting, SameRevisions, Superseded
    <3>2. fu(u.pending) <= u.retry
      BY SMTT(30), <1>1, <1>2, <1>4, <2>2, <3>1
    <3>. QED
      BY SMTT(30), <1>8, <2>2, <3>2
  <2>3. CASE SameRevisions(t, u) /\ u.retry = 0 /\ Superseded(t)
    <3>1. u.pending = t.pending /\ t.pending > t.claimed
      BY SMTT(30), <1>1, <2>3 DEF SameRevisions, Superseded
    <3>2. fu(u.pending) = 0
      BY SMTT(30), <1>1, <1>2, <1>3, <3>1
    <3>. QED
      BY SMTT(30), <1>1, <2>3, <3>2
  <2>4. CASE \E x \in Nat : NewRevision(t, u, x)
    <3>1. u.retry = 0 /\ u.pending = t.pending + 1
      BY <2>4 DEF NewRevision
    <3>2. fu(u.pending) = 0
      BY SMTT(30), <1>1, <1>2, <1>3, <3>1
    <3>. QED
      BY SMTT(30), <1>1, <3>1, <3>2
  <2>5. Followed(t, u) => \E x \in Nat : NewRevision(t, u, x)
    BY DEF Followed, Prompts
  <2>. QED
    BY SMTT(30), <2>1, <2>2, <2>3, <2>4, <2>5 DEF RevisionStep
<1>. QED
  BY SMTT(30), <1>1, <1>2, <1>6, <1>7, <1>9 DEF Counted, ft, fu

\* A freshly created turn satisfies the invariant.
LEMMA JInitEstablishes == Init => JInv
<1> SUFFICES ASSUME Init PROVE JInv
  OBVIOUS
<1>1. IInv
  BY InitEstablishes
<1>2. /\ turn.snap = <<0>> /\ turn.pending = 1 /\ turn.claimed = 0 /\ turn.gen = 0
      /\ turn.receipts = {} /\ turn.state = "queued" /\ turn.retry = 0
  BY DEF Init, NewTurn
<1>3. Unovertaken(turn, admits, ran)
  BY <1>2 DEF Unovertaken
<1>4. \A r : Fails(turn, retriedAt, r) = {}
  BY <1>2 DEF Fails
<1>5. /\ IsFiniteSet(turn.receipts) /\ \A r : Cardinality(Fails(turn, retriedAt, r)) = 0
  BY SMTT(30), <1>2, <1>4, FS_EmptySet
<1>6. Counted(turn, retriedAt)
  BY SMTT(30), <1>2, <1>5, RetryLimitAssumption DEF Counted
<1>. QED
  BY SMTT(30), <1>1, <1>2, <1>3, <1>6 DEF JInv

\* What a claim finds keeps the invariants of the turn it found.
LEMMA ExpiredKeeps ==
  ASSUME JInv, NEW t, Expired(t)
  PROVE  Unovertaken(t, admits, ran) /\ Counted(t, retriedAt)
<1>1. Sound(turn) /\ retriedAt \in Nat
  BY DEF JInv, IInv, ControlOK
<1>2. CASE t = turn
  BY <1>2 DEF JInv
<1>3. ASSUME NEW k, Moved(turn, t, k)
      PROVE  Unovertaken(t, admits, ran) /\ Counted(t, retriedAt)
  <2>1. Unovertaken(t, admits, ran)
    BY SMTT(30), <1>1, <1>3, UnovertakenMoved DEF JInv
  <2>2. Counted(t, retriedAt)
    BY SMTT(30), <1>1, <1>3, CountedMoved DEF JInv, Moved
  <2>. QED
    BY SMTT(30), <2>1, <2>2
<1>. QED
  BY <1>2, <1>3 DEF Expired

\* Every step keeps the invariant.
LEMMA JNextPreserves == JInv /\ [Next]_vars => JInv'
<1> SUFFICES ASSUME JInv, [Next]_vars PROVE JInv'
  OBVIOUS
<1>1. /\ IInv /\ Sound(turn) /\ retriedAt \in Nat /\ admits \in Nat /\ turn.gen \in Nat
      /\ Unovertaken(turn, admits, ran) /\ Counted(turn, retriedAt)
  BY SnapFacts DEF JInv, IInv, ControlOK
<1>2. IInv'
  BY SMTT(30), <1>1, NextPreserves
<1>3. ASSUME NEW k, Moved(turn, turn', k), UNCHANGED <<ran, retriedAt, admits>>
      PROVE  JInv'
  <2>1. Unovertaken(turn', admits, ran)
    BY <1>1, <1>3, UnovertakenMoved
  <2>2. Counted(turn', retriedAt)
    BY SMTT(30), <1>1, <1>3, CountedMoved DEF Moved
  <2>3. turn'.state = "leased" => turn'.gen # 0
    BY <1>3 DEF JInv, Moved, LeaseStep
  <2>. QED
    BY SMTT(30), <1>2, <1>3, <2>1, <2>2, <2>3 DEF JInv
<1>4. CASE Admits
  <2>1. LeaseStep(turn, turn', "kept") /\ NewRevision(turn, turn', 0) /\ turn'.claimed = turn.claimed
    BY <1>4 DEF Admits, LeaseStep
  <2>2. Unovertaken(turn', admits + 1, ran)
    BY SMTT(30), <1>1, <2>1, UnovertakenAdmitted
  <2>3. Counted(turn', retriedAt)
    BY SMTT(30), <1>1, <2>1, CountedMoved
  <2>4. turn'.state = "leased" => turn'.gen # 0
    BY <2>1 DEF JInv, LeaseStep
  <2>. QED
    BY SMTT(30), <1>2, <1>4, <2>2, <2>3, <2>4 DEF JInv, Admits
<1>5. CASE Retries
  <2>1. /\ turn'.pending = turn.pending /\ turn'.snap = turn.snap /\ turn'.claimed = turn.claimed
        /\ turn'.receipts = turn.receipts /\ turn'.state = "queued" /\ turn'.retry = 0
    BY SMTT(30), <1>1, <1>5, SnapFacts DEF Retries, TurnType
  <2>2. Unovertaken(turn', admits, ran)
    BY SMTT(30), <1>1, <2>1 DEF Unovertaken
  <2>3. \A r : Fails(turn', turn.gen, r) = {}
    BY SMTT(30), <1>1, <2>1, SnapFacts DEF Fails, Receipt
  <2>4. \A r : Cardinality(Fails(turn', turn.gen, r)) = 0
    BY SMTT(30), <2>3, FS_EmptySet
  <2>5. Counted(turn', turn.gen)
    BY SMTT(30), <1>1, <2>1, <2>4, RetryLimitAssumption DEF Counted
  <2>. QED
    BY SMTT(30), <1>2, <1>5, <2>1, <2>2, <2>5 DEF JInv, Retries
<1>6. CASE ClaimStep
  <2>1. PICK t : /\ Sound(t) /\ t.state = "queued" /\ Expired(t) /\ turn' = GrantLease(t)
                 /\ ran' = ran \cup {t.pending}
    BY <1>6 DEF ClaimStep
  <2>2. UNCHANGED <<retriedAt, admits>>
    BY <1>6 DEF ClaimStep
  <2>3. Unovertaken(t, admits, ran) /\ Counted(t, retriedAt)
    BY SMTT(30), <2>1, ExpiredKeeps
  <2>4. /\ turn'.claimed = t.pending /\ turn'.pending = t.pending /\ turn'.snap = t.snap
        /\ turn'.retry = t.retry /\ turn'.gen = t.gen + 1 /\ turn'.state = "leased"
        /\ turn'.receipts = t.receipts /\ t.gen \in Nat /\ t.pending \in Nat /\ t.retry \in Nat
    BY SMTT(30), <2>1, GrantFields, SnapFacts
  <2>5. Unovertaken(turn', admits', ran')
    BY SMTT(30), <2>1, <2>2, <2>3, <2>4 DEF Unovertaken
  <2>6. ~Resting(t)
    BY <2>1 DEF Resting
  <2>7. \A r : Fails(turn', retriedAt, r) = Fails(t, retriedAt, r)
    BY <2>4 DEF Fails
  <2>8. ~Superseded(turn')
    BY <2>4 DEF Superseded
  <2>9. /\ t.retry < RetryLimit /\ Cardinality(Fails(t, retriedAt, t.pending)) <= t.retry
        /\ IsFiniteSet(t.receipts) /\ \A r \in Nat : Cardinality(Fails(t, retriedAt, r)) <= RetryLimit
    BY SMTT(30), <2>3, <2>6 DEF Counted
  <2>10. IsFiniteSet(Fails(t, retriedAt, t.pending))
    <3>1. Fails(t, retriedAt, t.pending) \subseteq t.receipts
      BY DEF Fails
    <3>. QED
      BY SMTT(30), <2>9, <3>1, FS_Subset
  <2>11. Cardinality(Fails(t, retriedAt, t.pending)) < RetryLimit
    BY SMTT(30), <2>4, <2>9, <2>10, FS_CardinalityType, RetryLimitAssumption
  <2>12. Counted(turn', retriedAt)
    BY SMTT(30), <2>4, <2>7, <2>8, <2>9, <2>11 DEF Counted
  <2>13. turn'.gen # 0
    BY <2>4
  <2>. QED
    BY SMTT(30), <1>2, <2>2, <2>5, <2>12, <2>13 DEF JInv
<1>. QED
  BY SMTT(30), <1>1, <1>3, <1>4, <1>5, <1>6, StepKinds DEF MovesOn

\* The invariant holds in every reachable state.
LEMMA JInvariance == Spec => []JInv
BY JInitEstablishes, JNextPreserves, PTL DEF Spec

\* No prompt's revision is overtaken before a runner had it: while the item has
\* not changed, every prompt that became a revision is granted before the next
\* one (FollowUpsRun); an item change may overtake a waiting prompt, a prompt
\* never does.
THEOREM NoFollowUpOvertaken ==
  Spec => [](/\ admits = 0 => FollowUpsRun
             /\ \A r \in 2..(turn.pending - 1) : turn.snap[r + 1] # 0 => r \in ran)
<1>1. JInv => /\ admits = 0 => FollowUpsRun
              /\ \A r \in 2..(turn.pending - 1) : turn.snap[r + 1] # 0 => r \in ran
  <2> SUFFICES ASSUME JInv, admits = 0, NEW r \in 2..(turn.pending - 1) PROVE r \in ran
    BY DEF FollowUpsRun, JInv, Unovertaken
  <2>1. turn.pending \in Nat
    BY SnapFacts DEF JInv, IInv
  <2>2. r + 1 \in 2..turn.pending
    BY <2>1
  <2>. QED
    BY <2>2 DEF JInv, Unovertaken
<1>. QED
  BY <1>1, JInvariance, PTL

\* No revision fails more than RetryLimit times between two retries of the
\* operator, and a turn that may still run has an attempt left: lapses, halts,
\* deadlines, superseding revisions and restarts cannot stretch the budget.
THEOREM AttemptsStayBounded == Spec => []AttemptsBounded
<1>1. JInv => AttemptsBounded
  <2> SUFFICES ASSUME JInv PROVE AttemptsBounded
    OBVIOUS
  <2>1. \A r : FailuresOf(r) = Fails(turn, retriedAt, r)
    BY DEF FailuresOf, Fails
  <2>2. turn.pending \in Nat
    BY SnapFacts DEF JInv, IInv
  <2>3. \A r \in 1..turn.pending : Cardinality(FailuresOf(r)) <= RetryLimit
    BY SMTT(30), <2>1, <2>2 DEF JInv, Counted
  <2>4. turn.state \notin Terminal => turn.retry < RetryLimit
    BY SMTT(30) DEF JInv, Counted, Resting, Terminal
  <2>. QED
    BY <2>3, <2>4 DEF AttemptsBounded
<1>. QED
  BY <1>1, JInvariance, PTL

-----------------------------------------------------------------------------

\* u's history extends t's.
Extends(t, u) ==
  /\ t.gen <= u.gen /\ t.receipts \subseteq u.receipts /\ t.claimed <= u.claimed
  /\ t.claimed # u.claimed => t.gen < u.gen
  /\ SubSeq(u.snap, 1, t.pending) = t.snap

\* A turn whose content only gained a revision keeps the old content as a prefix.
LEMMA SnapPrefix ==
  ASSUME NEW t, Sound(t), NEW u, SameRevisions(t, u) \/ \E x \in Nat : NewRevision(t, u, x)
  PROVE  SubSeq(u.snap, 1, t.pending) = t.snap
<1> DEFINE p == SubSeq(u.snap, 1, t.pending)
<1>1. t.snap \in Seq(Nat) /\ Len(t.snap) = t.pending /\ t.pending \in Nat
  BY SMTT(30), SnapFacts
<1>2. \A i \in 1..t.pending : u.snap[i] = t.snap[i] /\ t.snap[i] \in Nat
  <2>1. \A i \in 1..t.pending : t.snap[i] \in Nat
    BY SMTT(30), <1>1
  <2>2. CASE SameRevisions(t, u)
    BY SMTT(30), <2>1, <2>2 DEF SameRevisions
  <2>3. CASE \E x \in Nat : NewRevision(t, u, x)
    BY SMTT(30), <2>1, <2>3, SnapGrows
  <2>. QED
    BY SMTT(30), <2>2, <2>3
<1>3. /\ p \in Seq(Nat) /\ Len(p) = t.pending /\ \A i \in 1..t.pending : p[i] = u.snap[i]
  BY SMTT(30), <1>1, <1>2, SeqCut
<1> HIDE DEF p
<1>4. p = t.snap
  BY SMTT(30), <1>1, <1>2, <1>3, SeqSame
<1>. QED
  BY SMTT(30), <1>4 DEF p

\* A transaction body that moves a turn on, or admits a revision, extends its
\* history.
LEMMA MovedExtends ==
  ASSUME NEW t, Sound(t), NEW k, NEW u, LeaseStep(t, u, k),
         RevisionStep(t, u, k) \/ NewRevision(t, u, 0)
  PROVE  Extends(t, u) /\ u.gen \in Nat
<1>1. SameRevisions(t, u) \/ \E x \in Nat : NewRevision(t, u, x)
  BY DEF RevisionStep, Followed, Prompts
<1>2. SubSeq(u.snap, 1, t.pending) = t.snap
  BY SMTT(30), <1>1, SnapPrefix
<1>3. t.gen \in Nat /\ t.claimed \in Nat
  BY SnapFacts
<1>. QED
  BY SMTT(30), <1>2, <1>3 DEF Extends, LeaseStep, Recorded

\* No step rewrites a lease identity, a receipt or a revision's content, and the
\* claimed revision moves only with a new generation.
THEOREM TurnHistoryOnlyGrows == Spec => HistoryOnlyGrows
<1>1. ASSUME JInv, [Next]_vars PROVE Extends(turn, turn')
  <2>1. IInv /\ Sound(turn)
    BY <1>1 DEF JInv, IInv
  <2>2. CASE MovesOn
    BY <2>1, <2>2, MovedExtends DEF MovesOn, Moved
  <2>3. CASE Admits
    BY SMTT(30), <2>1, <2>3, MovedExtends DEF Admits
  <2>4. CASE Retries
    <3>1. /\ SameRevisions(turn, turn') /\ turn'.gen = turn.gen /\ turn'.claimed = turn.claimed
          /\ turn'.receipts = turn.receipts
      BY SMTT(30), <2>1, <2>4, SnapFacts DEF Retries, TurnType, SameRevisions
    <3>2. SubSeq(turn'.snap, 1, turn.pending) = turn.snap
      BY SMTT(30), <2>1, <3>1, SnapPrefix
    <3>. QED
      BY SMTT(30), <2>1, <3>1, <3>2, SnapFacts DEF Extends
  <2>5. CASE ClaimStep
    <3>1. PICK t : Sound(t) /\ Expired(t) /\ turn' = GrantLease(t)
      BY <2>5 DEF ClaimStep
    <3>2. Extends(turn, t) /\ t.gen \in Nat
      <4>1. CASE t = turn
        <5>1. SubSeq(turn.snap, 1, turn.pending) = turn.snap
          BY SMTT(30), <2>1, SnapPrefix DEF SameRevisions
        <5>. QED
          BY SMTT(30), <2>1, <4>1, <5>1, SnapFacts DEF Extends
      <4>2. CASE t # turn
        BY SMTT(30), <2>1, <3>1, <4>2, MovedExtends DEF Expired, Moved
      <4>. QED
        BY <4>1, <4>2
    <3>3. /\ turn'.claimed = t.pending /\ turn'.snap = t.snap /\ turn'.gen = t.gen + 1
          /\ turn'.receipts = t.receipts
      BY SMTT(30), <3>1, GrantFields
    <3>4. /\ t.claimed <= t.pending /\ t.pending \in Nat /\ t.claimed \in Nat /\ turn.gen \in Nat
          /\ turn.claimed \in Nat
      BY SMTT(30), <2>1, <3>1, SnapFacts
    <3>. QED
      BY SMTT(30), <3>2, <3>3, <3>4 DEF Extends
  <2>. QED
    BY SMTT(30), <1>1, <2>1, <2>2, <2>3, <2>4, <2>5, StepKinds
<1>2. JInv /\ [Next]_vars => [/\ turn.gen <= turn'.gen
                              /\ turn.receipts \subseteq turn'.receipts
                              /\ turn.claimed <= turn'.claimed
                              /\ turn.claimed # turn'.claimed => turn.gen < turn'.gen
                              /\ SubSeq(turn'.snap, 1, turn.pending) = turn.snap]_vars
  BY SMTT(30), <1>1 DEF Extends
<1>. QED
  BY <1>2, JInvariance, PTL DEF Spec, HistoryOnlyGrows

-----------------------------------------------------------------------------
(* The turn implements the lease register.                                 *)

\* A freshly created turn is a freshly created register.
LEMMA RegisterInit == Init => Register!RInit
BY DEF Init, NewTurn, Register!RInit, Register!NoHolder

\* Every step of the turn is a step of the register or leaves it alone.
LEMMA RegisterStep == JInv /\ [Next]_vars => [Register!RNext]_(Register!rvars)
<1> SUFFICES ASSUME JInv, [Next]_vars PROVE Register!RNext
  BY SMTT(30) DEF Register!RNext
<1>1. /\ IInv /\ Sound(turn) /\ turn.gen \in Nat /\ turn.pending \in Nat /\ turn.claimed \in Nat
      /\ turn.state = "leased" => turn.gen # 0
  BY SnapFacts DEF JInv, IInv
<1>2. turn.state = "leased" => [gen |-> turn.gen, rev |-> turn.claimed] # [gen |-> 0, rev |-> 0]
  <2>1. [gen |-> turn.gen, rev |-> turn.claimed].gen = turn.gen /\ [gen |-> 0, rev |-> 0].gen = 0
    OBVIOUS
  <2>. QED
    BY <1>1, <2>1
<1>3. ASSUME NEW k, LeaseStep(turn, turn', k), turn'.pending \in {turn.pending, turn.pending + 1}
      PROVE  Register!RNext
  <2>1. CASE k = "kept"
    <3>1. /\ turn'.gen = turn.gen /\ turn'.claimed = turn.claimed /\ turn'.receipts = turn.receipts
          /\ (turn'.state = "leased") <=> (turn.state = "leased")
      BY <1>3, <2>1 DEF LeaseStep
    <3>. QED
      BY SMTT(30), <1>3, <3>1 DEF Register!RNext, Register!Offer, Register!Offered
  <2>2. CASE k # "kept"
    <3>1. /\ turn.state = "leased" /\ turn'.state # "leased" /\ turn'.gen \in {turn.gen, turn.gen + 1}
          /\ \/ turn'.receipts = turn.receipts
             \/ k \in Kinds /\ turn'.receipts = turn.receipts \cup
                                 {[gen |-> turn.gen, claimed |-> turn.claimed, kind |-> k]}
      BY SMTT(30), <1>3, <2>2 DEF LeaseStep, Recorded
    <3>2. Register!End
      BY SMTT(30), <1>2, <1>3, <3>1
      DEF Register!End, Register!Offered, Register!Closed, Register!NoHolder, Register!Outcome
    <3>. QED
      BY <3>2 DEF Register!RNext
  <2>. QED
    BY SMTT(30), <2>1, <2>2
<1>4. CASE MovesOn
  <2>1. PICK k : Moved(turn, turn', k)
    BY <1>4 DEF MovesOn
  <2>2. LeaseStep(turn, turn', k) /\ turn'.pending \in {turn.pending, turn.pending + 1}
    BY <2>1 DEF Moved, RevisionStep, SameRevisions, Followed, NewRevision
  <2>. QED
    BY <1>3, <2>2
<1>5. CASE Admits
  BY <1>3, <1>5 DEF Admits, NewRevision
<1>6. CASE Retries
  <2>1. LeaseStep(turn, turn', "kept") /\ turn'.pending = turn.pending
    BY SMTT(30), <1>1, <1>6, SnapFacts DEF Retries, LeaseStep, TurnType
  <2>. QED
    BY SMTT(30), <1>3, <2>1
<1>7. CASE ClaimStep
  <2>1. PICK t : Sound(t) /\ t.state = "queued" /\ Expired(t) /\ turn' = GrantLease(t)
    BY <1>7 DEF ClaimStep
  <2>2. /\ turn'.claimed = t.pending /\ turn'.pending = t.pending /\ turn'.gen = t.gen + 1
        /\ turn'.state = "leased" /\ turn'.receipts = t.receipts /\ t.gen \in Nat
    BY SMTT(30), <2>1, GrantFields, SnapFacts
  <2>3. ~CompletedRevision(turn', turn'.claimed)
    <3>1. Sound(turn')
      BY SMTT(30), <2>1, GrantLeaseSound
    <3>. QED
      BY SMTT(30), <2>2, <3>1 DEF Sound, LeasesOK
  <2>4. ~\E o \in turn'.receipts : o.kind = "complete" /\ o.claimed = turn'.pending
    BY <2>2, <2>3 DEF CompletedRevision
  <2>5. CASE t = turn
    <3>1. Register!Grant
      BY SMTT(30), <1>1, <2>1, <2>2, <2>4, <2>5
      DEF Register!Grant, Register!Granted, Register!NoHolder, Register!CompletedRev
    <3>. QED
      BY SMTT(30), <3>1 DEF Register!RNext
  <2>6. ASSUME NEW k \in {"fail", "lost"}, Moved(turn, t, k)
        PROVE  Register!RNext
    <3>1. /\ turn.state = "leased" /\ t.gen \in {turn.gen, turn.gen + 1}
          /\ \/ t.receipts = turn.receipts
             \/ t.receipts = turn.receipts \cup
                   {[gen |-> turn.gen, claimed |-> turn.claimed, kind |-> "fail"]}
      BY <2>6 DEF Moved, LeaseStep, Recorded, Kinds
    <3>2. t.pending \in {turn.pending, turn.pending + 1}
      BY <2>6 DEF Moved, RevisionStep, SameRevisions, Followed, NewRevision
    <3>3. turn'.gen > turn.gen
      BY SMTT(30), <1>1, <2>2, <3>1
    <3>4. Register!Granted
      BY SMTT(30), <2>2, <2>4, <3>3 DEF Register!Granted, Register!CompletedRev
    <3>5. Register!Closed({}) \/ Register!Closed({Register!Outcome("fail")})
      BY SMTT(30), <1>2, <2>2, <3>1 DEF Register!Closed, Register!NoHolder, Register!Outcome
    <3>6. Register!Offered
      BY <2>2, <3>2 DEF Register!Offered
    <3>. QED
      BY SMTT(30), <3>4, <3>5, <3>6 DEF Register!RNext, Register!TakeOver
  <2>. QED
    BY SMTT(30), <2>1, <2>5, <2>6 DEF Expired
<1>. QED
  BY SMTT(30), <1>1, <1>4, <1>5, <1>6, <1>7, StepKinds

\* Whatever operators, clocks, restarts and prompts do, a runner sees the lease
\* register: one holder at a time, at most one outcome each, always the newest
\* revision, and no completed revision granted again.
THEOREM TurnImplementsRegister == Spec => ImplementsRegister
<1>1. Spec => Register!RInit /\ [][Register!RNext]_(Register!rvars)
  BY RegisterInit, RegisterStep, JInvariance, PTL DEF Spec
<1>. QED
  BY <1>1 DEF ImplementsRegister, Register!RSpec
=============================================================================
