---------------------------- MODULE RefreshProofs ----------------------------
(***************************************************************************)
(* The refresh coordinator keeps a faithful copy of its item: theorems of  *)
(* Refresh, for any number of contents, any retry limit and any faults.    *)
(***************************************************************************)
EXTENDS Refresh, TLAPS

\* The elements of a sequence.
LEMMA SeqElement ==
    ASSUME NEW S, NEW s \in Seq(S)
    PROVE  \A k \in 1 .. Len(s) : s[k] \in S
OBVIOUS

\* Append.
LEMMA SeqAppend ==
    ASSUME NEW S, NEW s \in Seq(S), NEW x \in S
    PROVE  /\ Append(s, x) \in Seq(S) /\ Append(s, x) # <<>>
           /\ Len(Append(s, x)) = Len(s) + 1 /\ Append(s, x)[Len(s) + 1] = x
           /\ \A k \in 1 .. Len(s) : Append(s, x)[k] = s[k]
OBVIOUS

\* No snapshot is of a content newer than v.
Covers(ss, v) == \A i \in 1..Len(ss) : ss[i] <= v

\* What a running fetch holds is at least as new as every snapshot: a content is
\* admitted only in the transaction that ends the fetch.
FetchOK == step.phase = "fetched" => /\ step.got \in 1..version
                                     /\ Covers(job.snap, step.got)

\* Reviews and doubts are about revisions the job has, doubts about contents.
JobOK == /\ job.state = "none" <=> job.snap = <<>>
         /\ Covers(job.snap, version)
         /\ job.claimed \in 0..Len(job.snap)
         /\ job.state = "leased" => job.claimed # 0
         /\ reviews \subseteq 1..Len(job.snap)
         /\ doubts \subseteq 1..Len(job.snap)

IInv == TypeOK /\ JobOK /\ FetchOK

-----------------------------------------------------------------------------
(* Types of the row, step and job an action writes.                        *)

\* A request leaves a row of the right type.
LEMMA EnsureType ==
  ASSUME NEW r \in RowType, NEW f \in BOOLEAN
  PROVE  EnsureRefreshQueued(r, f) \in RowType
BY Zenon DEF EnsureRefreshQueued, RowType, RowStates

\* A counted failure leaves a row of the right type.
LEMMA FailureType ==
  ASSUME NEW r \in RowType
  PROVE  AfterFailure(r) \in RowType
<1> DEFINE n == IF r.retry = RefreshRetryLimit THEN r.retry ELSE r.retry + 1
           st == IF n = RefreshRetryLimit THEN "failed" ELSE "queued"
<1>1. n \in 0..RefreshRetryLimit
  BY RefreshAssumption DEF RowType
<1>2. st \in RowStates
  BY DEF RowStates
<1>3. AfterFailure(r) = [r EXCEPT !.owner = FALSE, !.retry = n, !.state = st]
  BY DEF AfterFailure
<1> HIDE DEF n, st
<1>. QED
  BY Zenon, <1>1, <1>2, <1>3 DEF RowType

\* A released row has the right type.
LEMMA ReleasedType ==
  ASSUME NEW r \in RowType
  PROVE  Released(r) \in RowType
<1> DEFINE st == IF r.needs THEN "queued" ELSE "idle"
<1>1. st \in RowStates
  BY DEF RowStates
<1>2. Released(r) = [r EXCEPT !.owner = FALSE, !.needs = FALSE, !.force = FALSE, !.state = st]
  BY DEF Released
<1> HIDE DEF st
<1>. QED
  BY Zenon, <1>1, <1>2 DEF RowType

\* The step between two refreshes.
LEMMA NoStepType == NoStep \in StepType /\ NoStep.phase = "idle"
BY DEF NoStep, StepType, Phases

\* Appending a snapshot that is not newer keeps the sequence covered.
LEMMA AppendCovers ==
  ASSUME NEW S, NEW ss \in Seq(S), NEW x \in S, NEW v, x <= v, Covers(ss, v)
  PROVE  /\ Append(ss, x) \in Seq(S) /\ Append(ss, x) # <<>>
         /\ Len(Append(ss, x)) = Len(ss) + 1
         /\ Covers(Append(ss, x), v)
<1>1. /\ Append(ss, x) \in Seq(S) /\ Append(ss, x) # <<>>
      /\ Len(Append(ss, x)) = Len(ss) + 1
      /\ Append(ss, x)[Len(ss) + 1] = x
      /\ \A k \in 1..Len(ss) : Append(ss, x)[k] = ss[k]
  BY SeqAppend
<1>2. ASSUME NEW i \in 1..(Len(ss) + 1) PROVE Append(ss, x)[i] <= v
  <2>1. i = Len(ss) + 1 \/ i \in 1..Len(ss)
    OBVIOUS
  <2>. QED
    BY <1>1, <2>1 DEF Covers
<1>. QED
  BY <1>1, <1>2 DEF Covers

-----------------------------------------------------------------------------
(* The inductive invariant.                                                *)

\* The plane starts without a copy of the item.
LEMMA InitEstablishes == Init => IInv
<1> SUFFICES ASSUME Init PROVE IInv
  OBVIOUS
<1>1. row \in RowType
  BY RefreshAssumption DEF Init, RowType, RowStates
<1>2. job \in JobType
  BY DEF Init, JobType, JobStates
<1>3. TypeOK
  <2>1. version \in Versions
    BY RefreshAssumption DEF Init, Versions
  <2>2. faults \in Nat /\ requested \in Nat /\ examined \in Nat
    BY DEF Init
  <2>. QED
    BY Zenon, <1>1, <1>2, <2>1, <2>2, NoStepType DEF Init, TypeOK
<1>4. JobOK /\ FetchOK
  BY NoStepType DEF Init, JobOK, FetchOK, Covers
<1>. QED
  BY <1>3, <1>4 DEF IInv

\* Steps that leave the job and the item alone, and fetch nothing.
LEMMA QuietStep ==
  ASSUME IInv, TypeOK',
         UNCHANGED <<version, job, reviews, doubts>>,
         step'.phase # "fetched" \/ (step.phase = "fetched" /\ step'.got = step.got)
  PROVE  IInv'
<1>1. JobOK'
  BY DEF IInv, JobOK
<1>2. FetchOK'
  BY DEF IInv, FetchOK
<1>. QED
  BY <1>1, <1>2 DEF IInv

\* The job gains a revision of content x.
LEMMA RevisionAdded ==
  ASSUME IInv, NEW x \in 0..MaxVersion, x <= version, job.snap # <<>> \/ x # 0,
         NEW st \in {"queued", "leased"}, st = "leased" => job.state = "leased",
         job' = [job EXCEPT !.snap = Append(job.snap, x), !.state = st],
         version' = version, reviews' \subseteq 1..Len(job.snap), doubts' \subseteq doubts
  PROVE  job' \in JobType /\ job'.snap = Append(job.snap, x) /\ JobOK'
<1> DEFINE ss == Append(job.snap, x)
<1>1. job \in JobType /\ version \in Nat
  BY RefreshAssumption DEF IInv, TypeOK, Versions
<1>2. job.snap \in Seq(0..MaxVersion) /\ Len(job.snap) \in Nat
  BY <1>1 DEF JobType
<1>3. /\ ss \in Seq(0..MaxVersion) /\ ss # <<>> /\ Len(ss) = Len(job.snap) + 1
      /\ Covers(ss, version)
  BY <1>1, <1>2, AppendCovers DEF IInv, JobOK
<1> HIDE DEF ss
<1>4. /\ job' \in JobType /\ job'.snap = ss /\ job'.state = st /\ job'.claimed = job.claimed
  <2>1. st \in JobStates /\ job' = [job EXCEPT !.snap = ss, !.state = st]
    BY DEF JobStates, ss
  <2>. QED
    BY Zenon, <1>1, <1>3, <2>1 DEF JobType
<1>5. /\ job.claimed \in 0..Len(job.snap) /\ doubts \subseteq 1..Len(job.snap)
      /\ (job.state = "leased" => job.claimed # 0)
  BY DEF IInv, JobOK
<1>6. /\ job.claimed \in 0..Len(ss) /\ reviews' \subseteq 1..Len(ss)
      /\ doubts' \subseteq 1..Len(ss)
  BY <1>2, <1>3, <1>5
<1>7. JobOK'
  BY <1>3, <1>4, <1>5, <1>6 DEF JobOK
<1>. QED
  BY <1>4, <1>7 DEF ss

\* The job only changes its state.
LEMMA StateMoved ==
  ASSUME IInv, job.state # "none", NEW st \in JobStates \ {"none", "leased"},
         job' = [job EXCEPT !.state = st],
         version' = version, reviews' \subseteq 1..Len(job.snap), doubts' = doubts
  PROVE  job' \in JobType /\ job'.snap = job.snap /\ JobOK'
<1>1. job \in JobType
  BY DEF IInv, TypeOK
<1>2. job' \in JobType /\ job'.snap = job.snap /\ job'.claimed = job.claimed /\ job'.state = st
  BY <1>1 DEF JobType
<1>. QED
  BY <1>2 DEF IInv, JobOK

\* A prompt that becomes a revision leaves the fetch as new as the snapshots.
LEMMA PromptCovered ==
  ASSUME IInv, job'.snap = Append(job.snap, 0), UNCHANGED <<version, step>>
  PROVE  FetchOK'
<1>1. job.snap \in Seq(0..MaxVersion) /\ version \in Nat /\ 0 \in 0..MaxVersion
  BY RefreshAssumption DEF IInv, TypeOK, JobType, Versions
<1> SUFFICES ASSUME step.phase = "fetched" PROVE Covers(job'.snap, step.got)
  BY DEF IInv, FetchOK
<1>2. Covers(job.snap, step.got) /\ 0 <= step.got
  BY <1>1 DEF IInv, FetchOK
<1>. QED
  BY <1>1, <1>2, AppendCovers

\* The end of a lease leaves the job its revisions, and at most one prompt more.
LEMMA LeaseEnded ==
  ASSUME IInv, job.state = "leased", NEW end \in {"completed", "failed"},
         LeaseEnds(end) \/ job' = [job EXCEPT !.state = "queued"],
         UNCHANGED <<version, step>>, reviews' \subseteq 1..Len(job.snap), doubts' = doubts
  PROVE  /\ job' \in JobType /\ JobOK' /\ FetchOK'
         /\ job'.snap = job.snap \/ job'.snap = Append(job.snap, 0)
<1>1. job.snap # <<>>
  BY DEF IInv, JobOK
<1>2. CASE \E st \in {"queued", end} : job' = [job EXCEPT !.state = st]
  <2>1. job' \in JobType /\ job'.snap = job.snap /\ JobOK'
    BY <1>2, StateMoved DEF JobStates
  <2>. QED
    BY <2>1 DEF IInv, FetchOK
<1>3. CASE job' = [job EXCEPT !.snap = Append(job.snap, 0), !.state = "queued"]
  <2>1. 0 \in 0..MaxVersion /\ 0 <= version
    BY RefreshAssumption DEF IInv, TypeOK, Versions
  <2>2. job' \in JobType /\ job'.snap = Append(job.snap, 0) /\ JobOK'
    BY <1>1, <1>3, <2>1, RevisionAdded
  <2>. QED
    BY <2>2, PromptCovered
<1>. QED
  BY <1>2, <1>3 DEF LeaseEnds

\* Every step keeps the inductive invariant, one case per action.
LEMMA NextPreserves == IInv /\ [Next]_vars => IInv'
<1> SUFFICES ASSUME IInv, [Next]_vars PROVE IInv'
  OBVIOUS
<1> USE DEF itemVars, jobVars
<1>0. /\ version \in Versions /\ delivered \subseteq Versions /\ enabled \in BOOLEAN
      /\ moved \in BOOLEAN /\ row \in RowType /\ step \in StepType /\ job \in JobType
      /\ reviews \subseteq Nat /\ doubts \subseteq Nat /\ settled \subseteq Nat
      /\ faults \in Nat /\ requested \in Nat /\ examined \in Nat
      /\ version \in Nat
  BY RefreshAssumption DEF IInv, TypeOK, Versions
<1>1. CASE UNCHANGED vars
  <2>1. TypeOK'
    BY <1>0, <1>1 DEF vars, TypeOK
  <2>. QED
    BY <1>1, <2>1, QuietStep DEF vars
<1>2. CASE ItemChanges
  <2>1. version' \in Versions
    BY <1>0, <1>2, RefreshAssumption DEF ItemChanges, Versions
  <2>2. TypeOK'
    BY <1>0, <1>2, <2>1 DEF ItemChanges, TypeOK
  <2>3. \A i \in 1..Len(job.snap) : job.snap[i] \in Nat
    <3>1. job.snap \in Seq(0..MaxVersion)
      BY <1>0 DEF JobType
    <3>2. \A i \in 1..Len(job.snap) : job.snap[i] \in 0..MaxVersion
      BY <3>1, SeqElement
    <3>. QED
      BY ONLY <3>2
  <2>4. version' = version + 1 /\ UNCHANGED <<step, job, reviews, doubts>>
    BY <1>2 DEF ItemChanges
  <2>5. JobOK'
    BY <1>0, <2>3, <2>4 DEF IInv, JobOK, Covers
  <2>6. FetchOK'
    BY <1>0, <2>4 DEF IInv, FetchOK
  <2>. QED
    BY <2>2, <2>5, <2>6 DEF IInv
<1>3. CASE \E v \in 1..version : Deliver(v)
  <2> PICK v \in 1..version : Deliver(v)
    BY <1>3
  <2>1. row' \in RowType
    BY Zenon, <1>0, EnsureType DEF Deliver, Request
  <2>2. v \in Versions
    BY <1>0, RefreshAssumption DEF Versions
  <2>3. TypeOK'
    BY Zenon, <1>0, <2>1, <2>2 DEF Deliver, Request, TypeOK
  <2>. QED
    BY <2>3, QuietStep DEF Deliver
<1>4. CASE CatchUpItem
  <2>1. row' \in RowType
    BY Zenon, <1>0, <1>4, EnsureType DEF CatchUpItem, Request
  <2>2. TypeOK'
    BY Zenon, <1>0, <1>4, <2>1 DEF CatchUpItem, Request, TypeOK
  <2>. QED
    BY <1>4, <2>2, QuietStep DEF CatchUpItem
<1>5. CASE \E r \in reviews : InvalidateEvidence(r)
  <2> PICK r \in reviews : InvalidateEvidence(r)
    BY <1>5
  <2>1. row' \in RowType
    BY Zenon, <1>0, EnsureType DEF InvalidateEvidence, Request
  <2>2. doubts' \subseteq doubts \cup {r} /\ r \in Nat
    BY <1>0 DEF InvalidateEvidence
  <2>3. TypeOK'
    <3>1. doubts' \subseteq Nat
      BY <1>0, <2>2
    <3>2. faults' \in Nat
      BY <1>0 DEF InvalidateEvidence, Fault
    <3>. QED
      BY Zenon, <1>0, <2>1, <3>1, <3>2 DEF InvalidateEvidence, Request, TypeOK
  <2>4. JobOK'
    BY <2>2 DEF InvalidateEvidence, IInv, JobOK
  <2>5. FetchOK'
    BY DEF InvalidateEvidence, IInv, FetchOK
  <2>. QED
    BY <2>3, <2>4, <2>5 DEF IInv
<1>6. CASE ReloadPolicy
  <2>1. TypeOK'
    <3>1. faults' \in Nat
      BY <1>0, <1>6 DEF ReloadPolicy, Fault
    <3>. QED
      BY Zenon, <1>0, <1>6, <3>1 DEF ReloadPolicy, TypeOK
  <2>. QED
    BY <1>6, <2>1, QuietStep DEF ReloadPolicy
<1>7. CASE RequestReview
  <2>1. row' \in RowType
    BY Zenon, <1>0, <1>7, EnsureType DEF RequestReview, Request
  <2>2. step' \in StepType /\ step'.phase = "asked"
    BY Zenon, <1>7, NoStepType DEF RequestReview, StepType, Phases
  <2>3. TypeOK'
    BY Zenon, <1>0, <1>7, <2>1, <2>2 DEF RequestReview, Request, TypeOK
  <2>. QED
    BY <1>7, <2>2, <2>3, QuietStep DEF RequestReview
<1>8. CASE OwnRefresh
  <2>1. row' \in RowType
    BY Zenon, <1>0, <1>8 DEF OwnRefresh, RowType, RowStates
  <2>2. step' \in StepType /\ step'.phase = "fetch"
    BY <1>0, <1>8 DEF OwnRefresh, RowType, StepType, Phases
  <2>3. TypeOK'
    BY <1>0, <1>8, <2>1, <2>2 DEF OwnRefresh, TypeOK
  <2>. QED
    BY <1>8, <2>2, <2>3, QuietStep DEF OwnRefresh
<1>9. CASE NothingToOwn
  <2>1. TypeOK'
    BY <1>0, <1>9, NoStepType DEF NothingToOwn, TypeOK
  <2>. QED
    BY <1>9, <2>1, NoStepType, QuietStep DEF NothingToOwn
<1>10. CASE Fetch
  <2>1. step' \in StepType /\ step'.got = version
    BY Zenon, <1>0, <1>10 DEF Fetch, StepType, Phases
  <2>2. TypeOK'
    BY <1>0, <1>10, <2>1 DEF Fetch, TypeOK
  <2>3. JobOK'
    BY <1>10 DEF Fetch, IInv, JobOK
  <2>4. FetchOK'
    BY <1>0, <1>10, <2>1, RefreshAssumption DEF Fetch, IInv, JobOK, FetchOK, Versions
  <2>. QED
    BY <2>2, <2>3, <2>4 DEF IInv
<1>11. CASE FetchFails
  <2>1. step' \in StepType /\ step'.phase = "erred"
    BY <1>0, <1>11 DEF FetchFails, StepType, Phases
  <2>2. TypeOK'
    BY <1>0, <1>11, <2>1 DEF FetchFails, Fault, TypeOK
  <2>. QED
    BY <1>11, <2>1, <2>2, QuietStep DEF FetchFails
<1>12. CASE DiscardResult
  <2>1. TypeOK'
    BY <1>0, <1>12, NoStepType DEF DiscardResult, TypeOK
  <2>. QED
    BY <1>12, <2>1, NoStepType, QuietStep DEF DiscardResult
<1>13. CASE CommitFailure
  <2>1. row' \in RowType
    BY <1>0, <1>13, FailureType DEF CommitFailure
  <2>2. TypeOK'
    BY <1>0, <1>13, <2>1, NoStepType DEF CommitFailure, TypeOK
  <2>. QED
    BY <1>13, <2>2, NoStepType, QuietStep DEF CommitFailure
<1>14. ASSUME Examined
       PROVE  /\ step' = NoStep /\ examined' \in Nat
              /\ step.got \in Versions
  BY <1>0, <1>14, RefreshAssumption DEF Examined, StepType, IInv, FetchOK, Versions
<1>15. CASE CommitNothing
  <2>1. row' \in RowType
    BY <1>0, <1>15, ReleasedType DEF CommitNothing
  <2>2. TypeOK'
    BY <1>0, <1>14, <1>15, <2>1, NoStepType DEF CommitNothing, TypeOK
  <2>. QED
    BY <1>14, <1>15, <2>2, NoStepType, QuietStep DEF CommitNothing
<1>16. CASE CommitIneligible
  <2>1. row' \in RowType
    BY Zenon, <1>0, <1>16 DEF CommitIneligible, RowType, RowStates
  <2>2. TypeOK'
    BY <1>0, <1>14, <1>16, <2>1, NoStepType DEF CommitIneligible, TypeOK
  <2>. QED
    BY <1>14, <1>16, <2>2, NoStepType, QuietStep DEF CommitIneligible
<1>17. CASE CommitDenied
  <2> DEFINE st == IF row.needs \/ ForceAsked THEN "queued" ELSE "idle"
  <2>1. st \in RowStates /\ ForceAsked \in BOOLEAN
    BY <1>0 DEF RowStates, ForceAsked, RowType, StepType
  <2>2. row' = [row EXCEPT !.owner = FALSE, !.needs = FALSE, !.force = ForceAsked,
                           !.state = st]
    BY <1>17 DEF CommitDenied
  <2> HIDE DEF st
  <2>3. row' \in RowType
    BY Zenon, <1>0, <2>1, <2>2 DEF RowType
  <2>4. TypeOK'
    BY <1>0, <1>14, <1>17, <2>3, NoStepType DEF CommitDenied, Fault, TypeOK
  <2>. QED
    BY <1>14, <1>17, <2>4, NoStepType, QuietStep DEF CommitDenied
<1>18. CASE CommitAdmitted
  <2> DEFINE st == IF job.state = "leased" THEN "leased" ELSE "queued"
  <2>1. row' \in RowType
    BY <1>0, <1>18, ReleasedType DEF CommitAdmitted
  <2>2. /\ step.got \in Versions /\ Examined /\ step.got \in 1..version
        /\ version' = version /\ reviews' = reviews
    BY <1>0, <1>14, <1>18 DEF CommitAdmitted, Examined, IInv, FetchOK
  <2>3. doubts' \subseteq doubts /\ settled' \subseteq Nat
    BY <1>0, <1>18 DEF CommitAdmitted, ConsumeDoubts
  <2>4. job' = [job EXCEPT !.snap = Append(job.snap, step.got), !.state = st]
    BY Zenon, <1>18 DEF CommitAdmitted
  <2>5. /\ step.got \in 0..MaxVersion /\ step.got <= version /\ step.got # 0
        /\ st \in {"queued", "leased"} /\ (st = "leased" => job.state = "leased")
        /\ reviews \subseteq 1..Len(job.snap)
    BY <1>0, <2>2 DEF Versions, IInv, JobOK
  <2> HIDE DEF st
  <2>6. job' \in JobType /\ JobOK'
    BY <2>2, <2>3, <2>4, <2>5, RevisionAdded
  <2>7. TypeOK'
    BY <1>0, <1>14, <1>18, <2>1, <2>3, <2>6, NoStepType DEF CommitAdmitted, TypeOK
  <2>8. FetchOK'
    BY <1>14, <2>2, NoStepType DEF FetchOK
  <2>. QED
    BY <2>6, <2>7, <2>8 DEF IInv
<1>19. CASE CommitRollsBack
  <2>1. TypeOK'
    BY <1>0, <1>19, NoStepType DEF CommitRollsBack, Fault, TypeOK
  <2>. QED
    BY <1>19, <2>1, NoStepType, QuietStep DEF CommitRollsBack
<1>20. ASSUME ExpireOwner
       PROVE  /\ row' \in RowType /\ step' \in StepType
              /\ step'.phase = step.phase /\ step'.got = step.got
  <2>1. AfterFailure(row) \in RowType
    BY <1>0, FailureType
  <2>2. row' \in RowType
    BY Zenon, <1>20, <2>1 DEF ExpireOwner, RowType
  <2>. QED
    BY Zenon, <1>0, <1>20, <2>2 DEF ExpireOwner, StepType
<1>21. CASE ExpireOrphan
  <2>1. TypeOK'
    BY <1>0, <1>20, <1>21 DEF ExpireOrphan, ExpireOwner, TypeOK
  <2>. QED
    BY <1>20, <1>21, <2>1, QuietStep DEF ExpireOrphan, ExpireOwner
<1>22. CASE ExpireLateFetch
  <2>1. TypeOK'
    BY <1>0, <1>20, <1>22 DEF ExpireLateFetch, ExpireOwner, Fault, TypeOK
  <2>. QED
    BY <1>20, <1>22, <2>1, QuietStep DEF ExpireLateFetch, ExpireOwner
<1>23. CASE BackoffPasses
  <2>1. row' \in RowType
    BY Zenon, <1>0, <1>23 DEF BackoffPasses, RowType
  <2>2. TypeOK'
    BY <1>0, <1>23, <2>1 DEF BackoffPasses, TypeOK
  <2>. QED
    BY <1>23, <2>2, QuietStep DEF BackoffPasses
<1>24. CASE Restart
  <2>1. row' \in RowType
    BY Zenon, <1>0, <1>24 DEF Restart, RowType, RowStates
  <2>2. TypeOK'
    BY <1>0, <1>24, <2>1, NoStepType DEF Restart, Fault, TypeOK
  <2>. QED
    BY <1>24, <2>2, NoStepType, QuietStep DEF Restart
<1>25. CASE ClaimReview
  <2>1. Len(job.snap) \in Nat /\ job.snap # <<>> /\ job.snap \in Seq(0..MaxVersion)
    BY <1>0, <1>25 DEF ClaimReview, JobType, IInv, JobOK
  <2>2. Len(job.snap) # 0
    BY <2>1
  <2>3. job' \in JobType /\ job'.snap = job.snap /\ job'.state = "leased"
        /\ job'.claimed = Len(job.snap)
    BY Zenon, <1>0, <1>25, <2>1 DEF ClaimReview, JobType, JobStates
  <2>4. TypeOK'
    BY <1>0, <1>25, <2>3 DEF ClaimReview, TypeOK
  <2>5. JobOK'
    BY <1>25, <2>1, <2>2, <2>3 DEF ClaimReview, IInv, JobOK
  <2>6. FetchOK'
    BY <1>25, <2>3 DEF ClaimReview, IInv, FetchOK
  <2>. QED
    BY <2>4, <2>5, <2>6 DEF IInv
<1>26. CASE CompleteReview
  <2>1. job.claimed \in 1..Len(job.snap) /\ job.claimed \in Nat
    BY <1>0, <1>26 DEF CompleteReview, IInv, JobOK, JobType
  <2>2. reviews' \subseteq 1..Len(job.snap) /\ reviews' \subseteq Nat
    BY <1>0, <1>26, <2>1 DEF CompleteReview, IInv, JobOK
  <2>3. job' \in JobType /\ JobOK' /\ FetchOK'
    BY <1>26, <2>2, LeaseEnded DEF CompleteReview
  <2>4. TypeOK'
    BY <1>0, <1>26, <2>2, <2>3 DEF CompleteReview, TypeOK
  <2>. QED
    BY <2>3, <2>4 DEF IInv
<1>27. CASE FailReview
  <2>1. reviews' \subseteq 1..Len(job.snap)
    BY <1>27 DEF FailReview, IInv, JobOK
  <2>2. job' \in JobType /\ JobOK' /\ FetchOK'
    BY <1>27, <2>1, LeaseEnded DEF FailReview
  <2>3. TypeOK'
    BY <1>0, <1>27, <2>2 DEF FailReview, TypeOK
  <2>. QED
    BY <2>2, <2>3 DEF IInv
<1>28. CASE FollowUp
  <2> DEFINE st == IF job.state = "leased" THEN "leased" ELSE "queued"
  <2>1. job' = [job EXCEPT !.snap = Append(job.snap, 0), !.state = st]
    BY Zenon, <1>28 DEF FollowUp
  <2>2. /\ st \in {"queued", "leased"} /\ (st = "leased" => job.state = "leased")
        /\ 0 \in 0..MaxVersion /\ 0 <= version
    BY <1>0, RefreshAssumption
  <2>3. job.snap # <<>> /\ reviews' \subseteq 1..Len(job.snap)
        /\ UNCHANGED <<version, step, doubts>>
    BY <1>28 DEF FollowUp, IInv, JobOK
  <2> HIDE DEF st
  <2>4. job' \in JobType /\ job'.snap = Append(job.snap, 0) /\ JobOK'
    BY <2>1, <2>2, <2>3, RevisionAdded
  <2>5. TypeOK'
    BY <1>0, <1>28, <2>4 DEF FollowUp, TypeOK
  <2>6. FetchOK'
    BY <2>3, <2>4, PromptCovered
  <2>. QED
    BY <2>4, <2>5, <2>6 DEF IInv
<1>. QED
  BY <1>1, <1>2, <1>3, <1>4, <1>5, <1>6, <1>7, <1>8, <1>9, <1>10, <1>11, <1>12,
     <1>13, <1>15, <1>16, <1>17, <1>18, <1>19, <1>21, <1>22, <1>23, <1>24, <1>25,
     <1>26, <1>27, <1>28
  DEF Next, Commit

\* The inductive invariant holds in every reachable state.
LEMMA Invariance == Spec => []IInv
BY InitEstablishes, NextPreserves, PTL DEF Spec

-----------------------------------------------------------------------------
(* Theorems.                                                               *)

\* The rows, the running step and the job keep their types.
THEOREM RefreshTypes == Spec => []TypeOK
BY Invariance, PTL DEF IInv

\* Every step of the coordinator is a step of the mirror or changes nothing of it.
LEMMA StepSimulation ==
  ASSUME IInv, [Next]_vars
  PROVE  [Mirror!MNext]_(Mirror!mvars)
<1> USE DEF itemVars, jobVars
<1>0. /\ version \in Nat /\ job.snap \in Seq(0..MaxVersion) /\ Len(job.snap) \in Nat
      /\ DOMAIN job.snap = 1..Len(job.snap)
  BY RefreshAssumption DEF IInv, TypeOK, Versions, JobType
<1>1. ASSUME UNCHANGED <<version, job, doubts>>
      PROVE  [Mirror!MNext]_(Mirror!mvars)
  BY <1>1 DEF Mirror!mvars
<1>2. CASE UNCHANGED vars
  BY <1>1, <1>2 DEF vars
<1>3. CASE ItemChanges
  BY <1>3 DEF ItemChanges, Mirror!MNext, Mirror!Edit
<1>4. CASE \E r \in reviews : InvalidateEvidence(r)
  <2> PICK r \in reviews : InvalidateEvidence(r)
    BY <1>4
  <2>1. r \in DOMAIN job.snap /\ job.snap[r] # 0
    BY <1>0 DEF IInv, JobOK, InvalidateEvidence
  <2>2. CASE r \in settled
    BY <1>1, <2>2 DEF InvalidateEvidence
  <2>3. CASE r \notin settled
    BY <2>1, <2>3 DEF InvalidateEvidence, Mirror!MNext, Mirror!Doubt
  <2>. QED
    BY <2>2, <2>3
<1>5. CASE CommitAdmitted
  <2>1. /\ job'.snap = Append(job.snap, step.got) /\ version' = version
        /\ step.got \in 1..version /\ Covers(job.snap, step.got)
    <3>1. job \in JobType
      BY DEF IInv, TypeOK
    <3>. QED
      BY <1>5, <3>1 DEF CommitAdmitted, Examined, IInv, FetchOK, JobType
  <2>2. step.got \in Mirror!Current
    BY <1>0, <2>1 DEF Mirror!Current, Covers
  <2>3. CASE Forced
    <3>1. doubts # {} /\ doubts' = {}
      BY <1>5, <2>3 DEF CommitAdmitted, ConsumeDoubts, Forced
    <3>. QED
      BY <2>1, <2>2, <3>1 DEF Mirror!MNext, Mirror!Recheck
  <2>4. CASE ~Forced
    <3>1. Mirror!Newest # step.got
      <4>1. CASE job.state = "none"
        <5>1. job.snap = <<>>
          BY <4>1 DEF IInv, JobOK
        <5>. QED
          BY <2>1, <5>1 DEF Mirror!Newest
      <4>2. CASE job.state # "none"
        BY <1>5, <2>4, <4>2 DEF CommitAdmitted, Admissible, Unchanged, Latest, Mirror!Newest
      <4>. QED
        BY <4>1, <4>2
    <3>2. doubts' = doubts
      BY <1>5, <2>4 DEF CommitAdmitted, ConsumeDoubts
    <3>. QED
      BY <2>1, <2>2, <3>1, <3>2 DEF Mirror!MNext, Mirror!Copy
  <2>. QED
    BY <2>3, <2>4
<1>6. ASSUME UNCHANGED <<version, doubts>>, job.state # "none",
             job'.snap = job.snap \/ job'.snap = Append(job.snap, 0)
      PROVE  [Mirror!MNext]_(Mirror!mvars)
  <2>1. job.snap # <<>>
    BY <1>6 DEF IInv, JobOK
  <2>2. CASE job'.snap = job.snap
    BY <1>6, <2>2 DEF Mirror!mvars
  <2>3. CASE job'.snap = Append(job.snap, 0)
    BY <1>6, <2>1, <2>3 DEF Mirror!MNext, Mirror!Ask
  <2>. QED
    BY <1>6, <2>2, <2>3
<1>7. job \in JobType
  BY DEF IInv, TypeOK
<1>8. CASE ClaimReview \/ FollowUp \/ CompleteReview \/ FailReview
  <2>1. job.state # "none" /\ UNCHANGED <<version, doubts>>
    BY <1>8 DEF ClaimReview, FollowUp, CompleteReview, FailReview
  <2>2. ClaimReview => job'.snap = job.snap
    BY Zenon, <1>7 DEF ClaimReview, JobType
  <2>3. FollowUp => job'.snap = Append(job.snap, 0)
    BY Zenon, <1>7 DEF FollowUp, JobType
  <2>4. ASSUME NEW end, LeaseEnds(end) \/ job' = [job EXCEPT !.state = "queued"]
        PROVE  job'.snap = job.snap \/ job'.snap = Append(job.snap, 0)
    BY Zenon, <1>7, <2>4 DEF LeaseEnds, JobType
  <2>5. CompleteReview \/ FailReview => job'.snap = job.snap \/ job'.snap = Append(job.snap, 0)
    BY Zenon, <2>4 DEF CompleteReview, FailReview
  <2>. QED
    BY <1>6, <1>8, <2>1, <2>2, <2>3, <2>5
<1>9. CASE (\E v \in 1..version : Deliver(v)) \/ CatchUpItem \/ ReloadPolicy \/ RequestReview
  BY Zenon, <1>1, <1>9 DEF Deliver, CatchUpItem, ReloadPolicy, RequestReview
<1>10. CASE OwnRefresh \/ NothingToOwn \/ Fetch \/ FetchFails \/ CommitRollsBack
  BY <1>1, <1>10 DEF OwnRefresh, NothingToOwn, Fetch, FetchFails, CommitRollsBack
<1>11. CASE DiscardResult \/ CommitFailure \/ CommitNothing \/ CommitIneligible \/ CommitDenied
  BY <1>1, <1>11 DEF DiscardResult, CommitFailure, CommitNothing, CommitIneligible,
                     CommitDenied
<1>12. CASE ExpireOrphan \/ ExpireLateFetch \/ BackoffPasses \/ Restart
  BY <1>1, <1>12 DEF ExpireOrphan, ExpireLateFetch, ExpireOwner, BackoffPasses, Restart
<1>. QED
  BY <1>2, <1>3, <1>4, <1>5, <1>8, <1>9, <1>10, <1>11, <1>12 DEF Next, Commit

\* The coordinator implements the mirror: the revisions of a review job are the
\* operator's prompts and contents the item really had, these in order.  A content
\* comes again only to settle invalidations, all of them at once, or after a
\* prompt took its place as the pending revision.
THEOREM RefreshImplementsMirror == Spec => ImplementsMirror
<1>1. Init => Mirror!MInit
  BY DEF Init, Mirror!MInit
<1>2. IInv /\ [Next]_vars => [Mirror!MNext]_(Mirror!mvars)
  BY StepSimulation
<1>. QED
  BY <1>1, <1>2, Invariance, PTL DEF Spec, ImplementsMirror, Mirror!MSpec

-----------------------------------------------------------------------------
(* What an idle row and a waiting doubt say.                               *)

\* Every request is about a content the item has had; the result an owner
\* holds, unless it is asked to go round once more, answers the last request.
AnswersLast ==
  /\ requested <= version
  /\ Owns /\ step.phase = "fetched" /\ ~row.needs => requested <= step.got
  /\ Eligible = Versions => IdleIsCurrent

\* Without policy changes a doubt keeps its force flag on a row still to be run.
DoubtKept ==
  "policy" \notin Faults => enabled /\ ~moved /\ DoubtsPursued

KInv == IInv /\ AnswersLast /\ DoubtKept

\* At the start nothing was asked for or doubted.
LEMMA KInitEstablishes == Init => KInv
<1> SUFFICES ASSUME Init PROVE KInv
  OBVIOUS
<1>1. IInv
  BY InitEstablishes
<1>2. AnswersLast
  BY NoStepType DEF Init, AnswersLast, IdleIsCurrent
<1>3. DoubtKept
  BY DEF Init, DoubtKept, DoubtsPursued
<1>. QED
  BY <1>1, <1>2, <1>3 DEF KInv

\* The fields of a row that was asked to refresh.
LEMMA EnsureFields ==
  ASSUME NEW r \in RowType, NEW f \in BOOLEAN, NEW q, q = EnsureRefreshQueued(r, f)
  PROVE  /\ q.state = "queued" /\ q.owner = r.owner /\ q.force = (r.force \/ f)
         /\ q.needs = (r.needs \/ r.owner)
BY DEF EnsureRefreshQueued, RowType

\* The fields of a row after a failure.
LEMMA FailureFields ==
  ASSUME NEW r \in RowType, NEW q, q = AfterFailure(r)
  PROVE  q.state \in {"queued", "failed"} /\ q.owner = FALSE /\ q.force = r.force
BY DEF AfterFailure, RowType

\* The fields of a released row.
LEMMA ReleasedFields ==
  ASSUME NEW r \in RowType, NEW q, q = Released(r)
  PROVE  q.state = (IF r.needs THEN "queued" ELSE "idle") /\ q.owner = FALSE
BY DEF Released, RowType

\* A request keeps what rows and results say.
LEMMA RequestAnswers ==
  ASSUME KInv, NEW f \in BOOLEAN, Request(f), UNCHANGED version, step'.current => step' = step
  PROVE  AnswersLast' /\ row'.state = "queued" /\ row'.force = (row.force \/ f)
<1>1. row \in RowType /\ step \in StepType /\ version \in Nat
  BY RefreshAssumption DEF KInv, IInv, TypeOK, Versions
<1>2. /\ row'.state = "queued" /\ row'.owner = row.owner /\ row'.force = (row.force \/ f)
      /\ row'.needs = (row.needs \/ row.owner) /\ requested' = version
  BY <1>1, EnsureFields DEF Request
<1>3. row'.owner => row'.needs
  BY Zenon, <1>1, <1>2
<1>4. requested' <= version'
  BY <1>1, <1>2
<1>. QED
  BY <1>2, <1>3, <1>4 DEF AnswersLast, Owns, IdleIsCurrent

\* Steps that neither ask nor examine, and leave the row's owner a fetch that is
\* no newer than it was.
LEMMA RestAnswers ==
  ASSUME KInv, UNCHANGED <<version, requested, examined>>,
         row'.state = "idle" => row.state = "idle",
         ~row'.owner \/ step'.phase # "fetched" \/ (UNCHANGED <<row, step>>)
  PROVE  AnswersLast'
BY DEF KInv, AnswersLast, Owns, IdleIsCurrent

\* An owner that examined what it fetched leaves the row idle only when nobody
\* asked meanwhile.
LEMMA ExaminedAnswers ==
  ASSUME KInv, Examined, UNCHANGED <<version, requested>>, row'.state = "idle" => ~row.needs \/ Eligible # Versions
  PROVE  AnswersLast'
<1>1. step.phase = "fetched" /\ Owns /\ step' = NoStep /\ examined' = step.got
  BY DEF Examined
<1>. QED
  BY <1>1, NoStepType DEF KInv, AnswersLast, Owns, IdleIsCurrent

\* Steps that add no doubt and keep the force flag of a row still to be run.
LEMMA RestDoubts ==
  ASSUME KInv, UNCHANGED <<enabled, moved>>, doubts' \subseteq doubts,
         \/ doubts' = {}
         \/ row'.force /\ row'.state \notin {"none", "idle"}
         \/ row'.force = row.force /\ (row'.state \in {"none", "idle"} => row.state \in {"none", "idle"})
  PROVE  DoubtKept'
BY DEF KInv, DoubtKept, DoubtsPursued

\* An owner that finds nothing to admit answers no waiting doubt.
LEMMA DoubtAdmits ==
  ASSUME KInv, "policy" \notin Faults, doubts # {}
  PROVE  Forced /\ ForceAsked /\ ~Ineligible /\ Admissible
<1>1. enabled /\ ~moved /\ row.force
  BY DEF KInv, DoubtKept, DoubtsPursued
<1>2. job.state # "none"
  <2>1. doubts \subseteq 1..Len(job.snap) /\ (job.state = "none" => job.snap = <<>>)
    BY DEF KInv, IInv, JobOK
  <2>2. Len(<<>>) = 0 /\ 1..0 = {}
    OBVIOUS
  <2>3. CASE job.snap = <<>>
    <3>1. doubts \subseteq 1..0
      BY <2>1, <2>2, <2>3
    <3>. QED
      BY Zenon, <2>2, <3>1
  <2>. QED
    BY <2>1, <2>3
<1>. QED
  BY <1>1, <1>2 DEF Forced, ForceAsked, TenantMismatch, Ineligible, Admissible, Unchanged

\* Every step keeps what rows, results and doubts say.
LEMMA KNextPreserves == KInv /\ [Next]_vars => KInv'
<1> SUFFICES ASSUME KInv, [Next]_vars PROVE AnswersLast' /\ DoubtKept'
  BY NextPreserves DEF KInv
<1> USE DEF itemVars, jobVars
<1>0. /\ row \in RowType /\ step \in StepType /\ version \in Nat /\ requested \in Nat /\ examined \in Nat
      /\ row.needs \in BOOLEAN /\ row.force \in BOOLEAN
  BY RefreshAssumption DEF KInv, IInv, TypeOK, Versions, RowType
<1>1. CASE UNCHANGED vars
  BY <1>1, RestAnswers, RestDoubts DEF vars
<1>2. CASE ItemChanges
  <2>1. AnswersLast'
    BY <1>0, <1>2 DEF ItemChanges, KInv, AnswersLast, Owns, IdleIsCurrent
  <2>. QED
    BY <1>2, <2>1, RestDoubts DEF ItemChanges
<1>3. CASE (\E v \in 1..version : Deliver(v)) \/ CatchUpItem
  <2>1. Request(FALSE) /\ UNCHANGED <<version, enabled, moved, step, doubts>>
    BY Zenon, <1>3 DEF Deliver, CatchUpItem
  <2>2. AnswersLast' /\ row'.state = "queued" /\ row'.force = (row.force \/ FALSE)
    BY Zenon, <2>1, RequestAnswers
  <2>. QED
    BY <1>0, <2>1, <2>2, RestDoubts
<1>4. CASE \E r \in reviews : InvalidateEvidence(r)
  <2> PICK r \in reviews : InvalidateEvidence(r)
    BY <1>4
  <2>1. Request(TRUE) /\ UNCHANGED <<version, enabled, moved, step>>
    BY Zenon DEF InvalidateEvidence
  <2>2. AnswersLast' /\ row'.state = "queued" /\ row'.force = (row.force \/ TRUE)
    BY Zenon, <2>1, RequestAnswers
  <2>. QED
    BY Zenon, <2>1, <2>2 DEF KInv, DoubtKept, DoubtsPursued
<1>5. CASE ReloadPolicy
  <2>1. AnswersLast'
    BY <1>5, RestAnswers DEF ReloadPolicy
  <2>2. "policy" \in Faults
    BY <1>5 DEF ReloadPolicy, Fault
  <2>. QED
    BY <2>1, <2>2 DEF DoubtKept
<1>6. CASE RequestReview
  <2>1. step'.current = FALSE
    BY <1>6 DEF RequestReview, NoStep
  <2>2. Request(FALSE) /\ UNCHANGED <<version, enabled, moved, doubts>>
    BY Zenon, <1>6 DEF RequestReview
  <2>3. AnswersLast' /\ row'.state = "queued" /\ row'.force = (row.force \/ FALSE)
    BY Zenon, <2>1, <2>2, RequestAnswers
  <2>. QED
    BY <1>0, <2>2, <2>3, RestDoubts
<1>7. CASE OwnRefresh
  <2>1. row'.state = "running" /\ row'.force = row.force /\ step'.phase = "fetch"
    BY <1>0, <1>7 DEF OwnRefresh, RowType
  <2>2. AnswersLast'
    BY <1>7, <2>1, RestAnswers DEF OwnRefresh
  <2>. QED
    BY <1>7, <2>1, <2>2, RestDoubts DEF OwnRefresh
<1>8. CASE NothingToOwn \/ DiscardResult \/ CommitRollsBack
  <2>1. step' = NoStep /\ UNCHANGED <<itemVars, row, jobVars, requested, examined>>
    BY <1>8 DEF NothingToOwn, DiscardResult, CommitRollsBack
  <2>2. AnswersLast'
    BY <2>1, NoStepType, RestAnswers
  <2>. QED
    BY <2>1, <2>2, RestDoubts
<1>9. CASE Fetch
  <2>1. step'.got = version
    BY <1>0, <1>9 DEF Fetch, StepType
  <2>2. AnswersLast'
    BY <1>0, <1>9, <2>1 DEF Fetch, KInv, AnswersLast, IdleIsCurrent
  <2>. QED
    BY <1>9, <2>2, RestDoubts DEF Fetch
<1>10. CASE FetchFails
  <2>1. step'.phase = "erred"
    BY <1>0, <1>10 DEF FetchFails, StepType
  <2>2. AnswersLast'
    BY <1>10, <2>1, RestAnswers DEF FetchFails
  <2>. QED
    BY <1>10, <2>2, RestDoubts DEF FetchFails
<1>11. CASE CommitFailure
  <2>1. row'.state \in {"queued", "failed"} /\ row'.owner = FALSE /\ row'.force = row.force
    BY Zenon, <1>0, <1>11, FailureFields DEF CommitFailure
  <2>2. AnswersLast'
    BY <1>11, <2>1, RestAnswers DEF CommitFailure
  <2>. QED
    BY <1>11, <2>1, <2>2, RestDoubts DEF CommitFailure
<1>12. CASE CommitNothing
  <2>1. row'.state = (IF row.needs THEN "queued" ELSE "idle")
    BY Zenon, <1>0, <1>12, ReleasedFields DEF CommitNothing
  <2>2. AnswersLast'
    BY <1>12, <2>1, ExaminedAnswers DEF CommitNothing
  <2>3. "policy" \in Faults \/ doubts = {}
    BY <1>12, DoubtAdmits DEF CommitNothing
  <2>4. UNCHANGED <<enabled, moved, doubts>>
    BY <1>12 DEF CommitNothing
  <2>. QED
    BY <2>2, <2>3, <2>4 DEF KInv, DoubtKept, DoubtsPursued
<1>13. CASE CommitIneligible
  <2>1. step.got \in Versions /\ step.got \notin Eligible
    <3>1. step.got \in 1..version /\ version \in Versions
      BY <1>13 DEF CommitIneligible, Examined, KInv, IInv, FetchOK, TypeOK
    <3>2. step.got \in Versions
      BY <3>1, RefreshAssumption DEF Versions
    <3>. QED
      BY <1>13, <3>2 DEF CommitIneligible, Ineligible
  <2>2. AnswersLast'
    BY <1>13, <2>1, ExaminedAnswers DEF CommitIneligible
  <2>3. "policy" \in Faults \/ doubts = {}
    BY <1>13, DoubtAdmits DEF CommitIneligible
  <2>4. UNCHANGED <<enabled, moved, doubts>>
    BY <1>13 DEF CommitIneligible
  <2>. QED
    BY <2>2, <2>3, <2>4 DEF KInv, DoubtKept, DoubtsPursued
<1>14. CASE CommitDenied
  <2>1. /\ row'.state = (IF row.needs \/ ForceAsked THEN "queued" ELSE "idle")
        /\ row'.force = ForceAsked
    BY <1>0, <1>14 DEF CommitDenied, RowType
  <2>2. row'.state = "idle" => ~row.needs
    BY <2>1
  <2>3. AnswersLast'
    BY <1>14, <2>2, ExaminedAnswers DEF CommitDenied
  <2>4. UNCHANGED <<enabled, moved, doubts>>
    BY <1>14 DEF CommitDenied
  <2>5. "policy" \notin Faults /\ doubts # {} => row'.force /\ row'.state = "queued"
    BY <2>1, DoubtAdmits
  <2>. QED
    BY <2>3, <2>4, <2>5 DEF KInv, DoubtKept, DoubtsPursued
<1>15. CASE CommitAdmitted
  <2>1. row'.state = (IF row.needs THEN "queued" ELSE "idle")
    BY Zenon, <1>0, <1>15, ReleasedFields DEF CommitAdmitted
  <2>2. AnswersLast'
    BY <1>15, <2>1, ExaminedAnswers DEF CommitAdmitted
  <2>3. "policy" \notin Faults => doubts' = {}
    <3>1. CASE doubts # {} /\ "policy" \notin Faults
      BY <1>15, <3>1, DoubtAdmits DEF CommitAdmitted, ConsumeDoubts
    <3>2. CASE doubts = {}
      BY <1>15, <3>2 DEF CommitAdmitted, ConsumeDoubts
    <3>. QED
      BY <3>1, <3>2
  <2>4. UNCHANGED <<enabled, moved>>
    BY <1>15 DEF CommitAdmitted
  <2>. QED
    BY <2>2, <2>3, <2>4 DEF KInv, DoubtKept, DoubtsPursued
<1>16. CASE ExpireOrphan \/ ExpireLateFetch
  <2>1. /\ row' = [AfterFailure(row) EXCEPT !.due = FALSE]
        /\ UNCHANGED <<version, enabled, moved, doubts, requested, examined>>
    BY <1>16 DEF ExpireOrphan, ExpireLateFetch, ExpireOwner
  <2>2. AfterFailure(row) \in RowType
    BY <1>0, FailureType
  <2>3. row'.state \in {"queued", "failed"} /\ row'.owner = FALSE /\ row'.force = row.force
    BY Zenon, <1>0, <2>1, <2>2, FailureFields DEF RowType
  <2>4. AnswersLast'
    BY <2>1, <2>3, RestAnswers
  <2>. QED
    BY <2>1, <2>3, <2>4, RestDoubts
<1>17. CASE BackoffPasses
  <2>1. /\ row'.state = row.state /\ row'.owner = row.owner /\ row'.needs = row.needs
        /\ row'.force = row.force
    BY <1>0, <1>17 DEF BackoffPasses, RowType
  <2>2. AnswersLast'
    BY <1>17, <2>1 DEF BackoffPasses, KInv, AnswersLast, Owns, IdleIsCurrent
  <2>. QED
    BY <1>17, <2>1, <2>2, RestDoubts DEF BackoffPasses
<1>18. CASE Restart
  <2>1. step'.phase = "idle" /\ row'.force = row.force /\ row'.state \in {row.state, "queued"}
    BY <1>0, <1>18, NoStepType DEF Restart, RowType
  <2>2. AnswersLast'
    BY <1>18, <2>1, RestAnswers DEF Restart
  <2>. QED
    BY <1>18, <2>1, <2>2, RestDoubts DEF Restart
<1>19. CASE FollowUp \/ ClaimReview \/ CompleteReview \/ FailReview
  <2>1. UNCHANGED <<itemVars, row, step, doubts, requested, examined>>
    BY <1>19 DEF FollowUp, ClaimReview, CompleteReview, FailReview
  <2>2. AnswersLast'
    BY <2>1, RestAnswers
  <2>. QED
    BY <2>1, <2>2, RestDoubts
<1>. QED
  BY <1>1, <1>2, <1>3, <1>4, <1>5, <1>6, <1>7, <1>8, <1>9, <1>10, <1>11, <1>12,
     <1>13, <1>14, <1>15, <1>16, <1>17, <1>18, <1>19
  DEF Next, Commit

\* What rows, results and doubts say holds in every reachable state.
LEMMA KInvariance == Spec => []KInv
BY KInitEstablishes, KNextPreserves, PTL DEF Spec

\* Where the profile accepts every content, an idle row hides no change: an owner
\* examined the item at least as late as it was last asked to, whatever arrived in
\* the middle of a fetch, expired, rolled back or was restarted.
THEOREM IdleRowIsCurrent == Spec => [](Eligible = Versions => IdleIsCurrent)
<1>1. KInv => (Eligible = Versions => IdleIsCurrent)
  BY DEF KInv, AnswersLast
<1>. QED
  BY <1>1, KInvariance, PTL

\* While the policy reviews the repository for its session's tenant, an invalidation no revision answered
\* keeps its force flag on a row still to be run.
THEOREM DoubtIsPursued == Spec => []("policy" \notin Faults => DoubtsPursued)
<1>1. KInv => ("policy" \notin Faults => DoubtsPursued)
  BY DEF KInv, DoubtKept
<1>. QED
  BY <1>1, KInvariance, PTL
=============================================================================
