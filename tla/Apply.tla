------------------------------- MODULE Apply -------------------------------
(***************************************************************************)
(* Apply attempts and live comments of one reviewed item.                  *)
(*                                                                         *)
(* An accepted review revision proposes actions.  The transaction that     *)
(* accepts it (engine.CompleteWithSteers) plans at most one apply attempt, *)
(* identified by revision, type and reason.  A close is only recorded      *)
(* ("dry run"); a comment under policy `comment: true` is left in flight   *)
(* and written to GitHub after the commit, by Complete's tail (the         *)
(* "handler") or by the scheduler's minute retry (the "loop").  The        *)
(* comment carries a marker with the action's identity, by which a lost    *)
(* answer, a restart or a deleted comment is reconciled.  GitHub, its      *)
(* failures and the item's edits are the environment.                      *)
(***************************************************************************)
EXTENDS Integers, FiniteSets, Sequences

CONSTANTS
    Contents,     \* what GitHub may show of the item
    Blocked,      \* the contents a live comment is refused for (draft, closed, held)
    Artifacts,    \* review results: [verdict, actions, leak]
    MaxReviews,   \* bound on accepted review revisions
    MaxEvents,    \* bound on edits, faults, crashes and operator switches
    Overlap       \* TRUE: handler and loop may publish at the same time

ASSUME ApplyAssumption ==
    /\ Blocked \subseteq Contents
    /\ MaxReviews \in Nat /\ MaxEvents \in Nat /\ Overlap \in BOOLEAN

VARIABLES
    item,         \* GitHub: the item's contents
    comments,     \* GitHub: the item's comments, in creation order
    paused,       \* overlay pause of the item's project
    commentOn,    \* policy: comments are live, not dry runs
    job,          \* the review job: [state, claimed]
    snaps,        \* item_snapshots; the pending revision is Len(snaps)
    reviews,      \* review_revisions: [claimed, art]
    attempts,     \* apply_attempts: action id -> [state, comment]
    actions,      \* ids with an intended-action row, with its live flag
    invalid,      \* evidence_invalidations not yet consumed
    refresh,      \* refresh_requests of the item: idle, queued or forced
    pub,          \* publisher -> its progress
    events        \* disturbances so far

applyVars == <<item, comments, paused, commentOn, job, snaps, reviews,
               attempts, actions, invalid, refresh, pub, events>>

Publishers == {"loop", "handler"}

Proposals == UNION {{art.actions[i] : i \in DOMAIN art.actions} : art \in Artifacts}

ActionIds == (1 .. MaxReviews) \X Proposals

AttemptStates == {"none", "in_flight", "uncertain", "succeeded", "failed", "cancelled"}

Pending == Len(snaps)

Idle == [at |-> "idle", rev |-> 0, seen |-> "none", todo |-> {}, id |-> <<>>, comment |-> 0, err |-> "none"]

ApplyTypeOK ==
    /\ item \in Contents
    /\ \A i \in DOMAIN comments :
           comments[i] \in [marker : ActionIds, body : {"ours", "edited"}, gone : BOOLEAN]
    /\ paused \in BOOLEAN /\ commentOn \in BOOLEAN
    /\ job.state \in {"queued", "leased", "completed"} /\ job.claimed \in 0 .. Pending
    /\ \A i \in DOMAIN snaps : snaps[i] \in Contents
    /\ \A i \in DOMAIN reviews : reviews[i].claimed \in 1 .. Pending /\ reviews[i].art \in Artifacts
    /\ attempts \in [ActionIds -> [state : AttemptStates, comment : Nat]]
    /\ actions \subseteq (ActionIds \X BOOLEAN)
    /\ invalid \subseteq ActionIds
    /\ refresh \in {"idle", "queued", "forced"}
    /\ DOMAIN pub = Publishers
    /\ events \in 0 .. MaxEvents

ApplyInit ==
    /\ item \in Contents
    /\ comments = <<>>
    /\ paused = FALSE
    /\ commentOn \in BOOLEAN
    /\ job = [state |-> "queued", claimed |-> 0]
    /\ snaps = <<item>>
    /\ reviews = <<>>
    /\ attempts = [id \in ActionIds |-> [state |-> "none", comment |-> 0]]
    /\ actions = {}
    /\ invalid = {}
    /\ refresh = "idle"
    /\ pub = [p \in Publishers |-> Idle]
    /\ events = 0

-----------------------------------------------------------------------------
(* The apply transaction. *)

\* Policy and verdict admit the action's type and reason.
Eligible(verdict, a) ==
    \/ /\ verdict = "propose_close" /\ a.type = "close"
       /\ a.reason \in {"implemented_on_main", "duplicate_or_superseded", "stale_insufficient_info"}
    \/ verdict = "propose_comment" /\ a.type = "comment"

\* The answers verifyEvidence may give: GitHub (or the clock) decides the
\* three verified reasons, advisory reasons are refused, and any other
\* reason is good enough for a comment only.
VerifyEvidence(a) ==
    CASE a.reason \in {"implemented_on_main", "duplicate_or_superseded", "stale_insufficient_info"} -> BOOLEAN
      [] a.reason \in {"not_reproducible_on_main", "incoherent"} -> {FALSE}
      [] OTHER -> {a.type = "comment"}

LiveCommentBlocked(content) == content \in Blocked

\* The state runApplyTx gives a planned or unsettled attempt.
RunApplyState(a, snap, art) ==
    LET liveKind == a.type = "comment" /\ commentOn IN
    IF \/ job'.claimed # Pending \/ snaps[Pending] # snap
       \/ liveKind /\ (LiveCommentBlocked(snap) \/ art.leak)
    THEN "cancelled"
    ELSE IF liveKind THEN "in_flight" ELSE "succeeded"

\* runApplyTx: a settled attempt is left alone; the intended-action row is
\* inserted once, and keeps the body it was first given.
RunApply(id, snap, art) ==
    LET old   == attempts[id]
        state == RunApplyState(id[2], snap, art)
        lively == id[2].type = "comment" /\ commentOn
    IN  IF old.state \in {"succeeded", "cancelled", "failed"}
        THEN UNCHANGED <<attempts, actions>>
        ELSE /\ attempts' = [attempts EXCEPT ![id].state = state]
             /\ actions' = IF state = "cancelled" \/ \E b \in BOOLEAN : <<id, b>> \in actions
                           THEN actions ELSE actions \cup {<<id, lively>>}

\* maybeEnqueueApplyTx: the first proposed action that is eligible and
\* whose evidence holds gets the revision's attempt; a paused project gets
\* none.  The GitHub answers are chosen here, one per proposed action.
MaybeEnqueueApply(rev, snap, art) ==
    \E ok \in {f \in [DOMAIN art.actions -> BOOLEAN] :
                  \A i \in DOMAIN art.actions : f[i] \in VerifyEvidence(art.actions[i])} :
        LET good == {i \in DOMAIN art.actions : Eligible(art.verdict, art.actions[i]) /\ ok[i]}
        IN  IF paused \/ good = {}
            THEN UNCHANGED <<attempts, actions>>
            ELSE LET first == CHOOSE i \in good : \A k \in good : i <= k
                 IN  RunApply(<<rev, art.actions[first]>>, snap, art)

-----------------------------------------------------------------------------
(* The review job around it. *)

Claim ==
    /\ job.state = "queued"
    /\ ~paused
    /\ Len(reviews) < MaxReviews
    /\ job' = [state |-> "leased", claimed |-> Pending]
    /\ UNCHANGED <<item, comments, paused, commentOn, snaps, reviews, attempts,
                   actions, invalid, refresh, pub, events>>

\* The accepting transaction of CompleteWithSteers.  A result for the
\* pending revision completes the job and plans its apply; a result the
\* item has moved past queues the job again and applies nothing.
Complete(art) ==
    /\ job.state = "leased"
    /\ pub["handler"].at = "idle"
    /\ reviews' = Append(reviews, [claimed |-> job.claimed, art |-> art])
    /\ IF job.claimed = Pending
       THEN /\ job' = [job EXCEPT !.state = "completed"]
            /\ MaybeEnqueueApply(Len(reviews'), snaps[job.claimed], art)
       ELSE /\ job' = [job EXCEPT !.state = "queued"]
            /\ UNCHANGED <<attempts, actions>>
    /\ pub' = [pub EXCEPT !["handler"].at = "list"]
    /\ UNCHANGED <<item, comments, paused, commentOn, snaps, invalid, refresh, events>>

\* The refresh coordinator admits what GitHub shows: a changed item, or an
\* unchanged one whose invalidated evidence forces a new revision.
Admit ==
    /\ refresh # "idle"
    /\ refresh' = "idle"
    /\ IF item # snaps[Pending] \/ invalid # {}
       THEN /\ snaps' = Append(snaps, item)
            /\ job' = IF job.state = "leased" THEN job ELSE [job EXCEPT !.state = "queued"]
       ELSE UNCHANGED <<snaps, job>>
    /\ invalid' = {}
    /\ UNCHANGED <<item, comments, paused, commentOn, reviews, attempts, actions, pub, events>>

-----------------------------------------------------------------------------
(* ApplyAttempt, run by the loop for an item with unsettled attempts. *)

\* Mutant: uncertain attempts are not retried.
Retryable_InFlight == {id \in ActionIds : attempts[id].state = "in_flight"}

Retryable == {id \in ActionIds : attempts[id].state \in {"in_flight", "uncertain"}}

\* Without overlap a publisher starts only while the other one is idle.
MayStart(p) == Overlap \/ \A q \in Publishers \ {p} : pub[q].at = "idle"

\* ListRetryableApply, then the first transaction: the newest revision.
ApplyStart ==
    /\ pub["loop"].at = "idle"
    /\ MayStart("loop")
    /\ Retryable # {}
    /\ pub' = [pub EXCEPT !["loop"].at = "fetch", !["loop"].rev = Len(reviews)]
    /\ UNCHANGED <<item, comments, paused, commentOn, job, snaps, reviews, attempts,
                   actions, invalid, refresh, events>>

\* The live item is read outside any transaction.
ApplyFetch ==
    /\ pub["loop"].at = "fetch"
    /\ pub' = [pub EXCEPT !["loop"].at = "apply", !["loop"].seen = item]
    /\ UNCHANGED <<item, comments, paused, commentOn, job, snaps, reviews, attempts,
                   actions, invalid, refresh, events>>

\* A pull or issue GitHub cannot show ends the attempt until the next tick.
ApplyFetchFails ==
    /\ pub["loop"].at \in {"fetch", "apply"}
    /\ events < MaxEvents /\ events' = events + 1
    /\ pub' = [pub EXCEPT !["loop"] = Idle]
    /\ UNCHANGED <<item, comments, paused, commentOn, job, snaps, reviews, attempts,
                   actions, invalid, refresh>>

\* Every attempt of the revision is cancelled, whatever its state.
CancelRevision(rev) ==
    attempts' = [id \in ActionIds |->
        IF id[1] = rev /\ attempts[id].state # "none"
        THEN [attempts[id] EXCEPT !.state = "cancelled"] ELSE attempts[id]]

\* Evidence on the default branch no longer holds for one proposed action.
InvalidateEvidence(rev, a) ==
    LET id == <<rev, a>> IN
    /\ attempts' = IF attempts[id].state = "none" THEN attempts
                   ELSE [attempts EXCEPT ![id].state = "cancelled"]
    /\ invalid' = invalid \cup {id}
    /\ refresh' = "forced"

ApplyTx ==
    LET rev  == pub["loop"].rev
        art  == reviews[rev].art
        snap == snaps[reviews[rev].claimed]
        onMain == {i \in DOMAIN art.actions : art.actions[i].reason = "implemented_on_main"}
    IN
    /\ pub["loop"].at = "apply"
    /\ job' = job
    /\ \/ /\ paused
          /\ UNCHANGED <<attempts, actions, invalid, refresh>>
       \/ /\ ~paused /\ pub["loop"].seen # snap
          /\ CancelRevision(rev)
          /\ refresh' = IF refresh = "forced" THEN "forced" ELSE "queued"
          /\ UNCHANGED <<actions, invalid>>
       \/ /\ ~paused /\ pub["loop"].seen = snap
          /\ \E i \in onMain : InvalidateEvidence(rev, art.actions[i])
          /\ UNCHANGED actions
       \/ /\ ~paused /\ pub["loop"].seen = snap
          /\ MaybeEnqueueApply(rev, snap, art)
          /\ UNCHANGED <<invalid, refresh>>
    /\ pub' = [pub EXCEPT !["loop"] = [Idle EXCEPT !.at = "list"]]
    /\ UNCHANGED <<item, comments, paused, commentOn, snaps, reviews, events>>

-----------------------------------------------------------------------------
(* publishPendingComments and PublishComment, a GitHub call at a time. *)

ghFrame == <<item, paused, commentOn, job, snaps, reviews, actions, invalid, refresh>>

Fault == events < MaxEvents /\ events' = events + 1

\* The unsettled comment attempts of the item, of every revision.
PublishList(p) ==
    /\ pub[p].at = "list"
    /\ p = "loop" \/ MayStart(p)
    /\ LET todo == {id \in Retryable : id[2].type = "comment"}
       IN  pub' = [pub EXCEPT ![p] = [Idle EXCEPT !.at = IF todo = {} THEN "idle" ELSE "next",
                                                  !.todo = {<<id, attempts[id].comment>> : id \in todo}]]
    /\ UNCHANGED <<ghFrame, attempts, comments, events>>

PublishNext(p) ==
    /\ pub[p].at = "next"
    /\ \E t \in pub[p].todo :
           pub' = [pub EXCEPT ![p].at = "look", ![p].id = t[1], ![p].comment = t[2],
                              ![p].todo = @ \ {t}]
    /\ UNCHANGED <<ghFrame, attempts, comments, events>>


\* The first comment on the item that carries the marker.
CommentFor(id) ==
    LET marked == {i \in DOMAIN comments : comments[i].marker = id /\ ~comments[i].gone}
    IN  IF marked = {} THEN 0 ELSE CHOOSE i \in marked : \A k \in marked : i <= k

At(p, at) == pub' = [pub EXCEPT ![p].at = at]

Ends(p, comment, err) ==
    pub' = [pub EXCEPT ![p].at = "record", ![p].comment = comment, ![p].err = err]

\* Look for the marker first; a remembered comment id is updated when the
\* marker is not found.
Look(p) ==
    /\ pub[p].at = "look"
    /\ LET found == CommentFor(pub[p].id) IN
       CASE found > 0 /\ comments[found].body = "ours" -> Ends(p, found, "none")
         [] found > 0 /\ comments[found].body # "ours" -> pub' = [pub EXCEPT ![p].at = "update", ![p].comment = found]
         [] found = 0 /\ pub[p].comment > 0 -> At(p, "update")
         [] OTHER -> At(p, "create")
    /\ UNCHANGED <<ghFrame, attempts, comments, events>>

\* updateComment: a comment deleted since is created again (except on the
\* second look, where the error is final).
UpdateComment(p) ==
    LET c == pub[p].comment IN
    /\ pub[p].at \in {"update", "reupdate"}
    /\ IF comments[c].gone
       THEN /\ IF pub[p].at = "update" THEN At(p, "create") ELSE Ends(p, 0, "failed")
            /\ UNCHANGED comments
       ELSE /\ comments' = [comments EXCEPT ![c].body = "ours"]
            /\ Ends(p, c, "none")
    /\ UNCHANGED <<ghFrame, attempts, events>>

CreateComment(p) ==
    /\ pub[p].at = "create"
    /\ comments' = Append(comments, [marker |-> pub[p].id, body |-> "ours", gone |-> FALSE])
    /\ Ends(p, Len(comments'), "none")
    /\ UNCHANGED <<ghFrame, attempts, events>>

\* A create whose answer is lost or an error: GitHub may or may not have
\* written the comment, and the marker is looked up again.
CreateFails(p) ==
    /\ pub[p].at = "create"
    /\ Fault
    /\ \E written \in BOOLEAN, err \in {"uncertain", "denied"} :
        /\ written => err = "uncertain"
        /\ comments' = IF written
                       THEN Append(comments, [marker |-> pub[p].id, body |-> "ours", gone |-> FALSE])
                       ELSE comments
        /\ pub' = [pub EXCEPT ![p].at = "relook", ![p].err = err]
    /\ UNCHANGED <<ghFrame, attempts>>

Relook(p) ==
    /\ pub[p].at = "relook"
    /\ LET found == CommentFor(pub[p].id) IN
       CASE found > 0 /\ comments[found].body = "ours" -> Ends(p, found, "none")
         [] found > 0 /\ comments[found].body # "ours" -> pub' = [pub EXCEPT ![p].at = "reupdate", ![p].comment = found]
         [] OTHER -> At(p, "record")
    /\ UNCHANGED <<ghFrame, attempts, comments, events>>

\* Any other GitHub call that fails: denied for a 4xx, uncertain otherwise.
\* On the second look the create's own error stands.
CallFails(p) ==
    /\ pub[p].at \in {"look", "update", "reupdate", "relook"}
    /\ Fault
    /\ IF pub[p].at = "relook" THEN At(p, "record")
       ELSE \E err \in {"uncertain", "denied"} : Ends(p, 0, err)
    /\ UNCHANGED <<ghFrame, attempts, comments>>

\* The outcome is recorded only on an attempt that is still unsettled.
RecordOutcome(p) ==
    LET id == pub[p].id
        state == CASE pub[p].err = "none" -> "succeeded"
                   [] pub[p].err = "denied" -> "cancelled"
                   [] OTHER -> pub[p].err
    IN
    /\ pub[p].at = "record"
    /\ attempts' = IF attempts[id].state \notin {"in_flight", "uncertain"} THEN attempts
                   ELSE [attempts EXCEPT ![id] =
                           [state |-> state,
                            comment |-> IF state = "succeeded" THEN pub[p].comment ELSE @.comment]]
    /\ pub' = [pub EXCEPT ![p] = IF pub[p].todo = {} THEN Idle
                                 ELSE [Idle EXCEPT !.at = "next", !.todo = pub[p].todo]]
    /\ UNCHANGED <<ghFrame, comments, events>>

-----------------------------------------------------------------------------
(* The environment: GitHub's users, the operator, a crash. *)

EditItem(c) ==
    /\ Fault /\ c # item
    /\ item' = c
    /\ \E delivered \in BOOLEAN :
           refresh' = IF delivered /\ refresh = "idle" THEN "queued" ELSE refresh
    /\ UNCHANGED <<comments, paused, commentOn, job, snaps, reviews, attempts, actions, invalid, pub>>

TouchComment(i) ==
    /\ Fault /\ ~comments[i].gone
    /\ \/ comments' = [comments EXCEPT ![i].gone = TRUE]
       \/ comments[i].body = "ours" /\ comments' = [comments EXCEPT ![i].body = "edited"]
    /\ UNCHANGED <<ghFrame, attempts, pub>>

Operator ==
    /\ Fault
    /\ \/ paused' = ~paused /\ UNCHANGED commentOn
       \/ commentOn' = ~commentOn /\ UNCHANGED paused
    /\ UNCHANGED <<item, comments, job, snaps, reviews, attempts, actions, invalid, refresh, pub>>

\* The process dies: both publishers are gone, the rows stay.
Crash ==
    /\ Fault
    /\ \E p \in Publishers : pub[p] # Idle
    /\ pub' = [p \in Publishers |-> Idle]
    /\ UNCHANGED <<ghFrame, attempts, comments>>

PublishStep(p) ==
    \/ PublishList(p) \/ PublishNext(p) \/ Look(p) \/ UpdateComment(p)
    \/ CreateComment(p) \/ Relook(p) \/ RecordOutcome(p)

LoopStep == ApplyStart \/ ApplyFetch \/ ApplyTx \/ PublishStep("loop")

ApplyNext ==
    \/ Claim
    \/ \E art \in Artifacts : Complete(art)
    \/ Admit
    \/ LoopStep
    \/ PublishStep("handler")
    \/ ApplyFetchFails
    \/ \E p \in Publishers : CreateFails(p) \/ CallFails(p)
    \/ \E c \in Contents : EditItem(c)
    \/ \E i \in DOMAIN comments : TouchComment(i)
    \/ Operator
    \/ Crash

\* The scheduler retries each minute; a Complete that committed runs its tail.
ApplyFairness == WF_applyVars(LoopStep) /\ WF_applyVars(PublishStep("handler"))

-----------------------------------------------------------------------------
(* What the comments and the attempts promise. *)


\* A comment is on GitHub only for an action that was recorded first, as a
\* live one, from a result without private text on an item that was not
\* held, closed or a draft when it was reviewed (runApplyTx).
RefusedNeverPosted ==
    \A i \in DOMAIN comments :
        LET id == comments[i].marker IN
        /\ <<id, TRUE>> \in actions
        /\ ~reviews[id[1]].art.leak
        /\ snaps[reviews[id[1]].claimed] \notin Blocked

\* A success is backed by its record, and the comment id kept with it names
\* a comment of that very action (publishPendingComments).
SuccessIsRecorded ==
    \A id \in ActionIds :
        /\ attempts[id].state = "succeeded" => \E b \in BOOLEAN : <<id, b>> \in actions
        /\ attempts[id].comment # 0 => comments[attempts[id].comment].marker = id

\* Failed main-branch evidence is never forgotten: until admission consumes
\* the invalidation, a forced refresh of the item stays queued, through
\* crashes and later drift (ApplyAttempt's transaction).
InvalidationForcesRefresh == invalid # {} => refresh = "forced"

\* A settled attempt is never opened again by a retry (runApplyTx's early
\* return, the guarded UPDATE of publishPendingComments).
SettledStaysSettled ==
    [][\A id \in ActionIds :
          attempts[id].state \in {"succeeded", "failed", "cancelled"} =>
          attempts'[id].state \in {"succeeded", "failed", "cancelled"}]_applyVars

\* A comment is written only for an attempt that is in flight or uncertain
\* at that moment: nothing cancelled or done is posted late.
PostsOnlyUnsettled ==
    [][Len(comments') > Len(comments) =>
          attempts[comments'[Len(comments')].marker].state \in {"in_flight", "uncertain"}]_applyVars

\* Every live comment attempt is eventually settled once GitHub answers:
\* the minute retry picks up what a crash or a lost answer left behind.
AttemptsSettle ==
    \A id \in ActionIds :
        (attempts[id].state \in {"in_flight", "uncertain"})
            ~> (attempts[id].state \in {"succeeded", "failed", "cancelled"})

=============================================================================
