---------------------------- MODULE SessionWrite ----------------------------
(***************************************************************************)
(* Publication of one implement session's work.                            *)
(*                                                                         *)
(* A turn's result may ask the plane to publish a session branch           *)
(* (engine.publishResult), or, where plane publication is off, claim a     *)
(* pull request the guest opened itself (engine.observeResult).  An ask is *)
(* recorded as a write.propose action; the operator applies the latest one *)
(* (engine.ApplySessionWrite), which pushes the default branch or creates  *)
(* or updates a pull request (gh.Publisher) and stores a write.apply       *)
(* receipt.  Applies of a session exclude each other (lockWrite), so one   *)
(* applier is modelled; it may crash between any two GitHub calls.         *)
(* Commits of the guest form a line 1, 2, 3, ...                           *)
(***************************************************************************)
EXTENDS Integers, Sequences, FiniteSets

CONSTANTS
    OwnBranches,    \* branches under the session's prefix
    OtherBranches,  \* branches a session may not publish
    MaxCommits,     \* bound on the guest's commits
    MaxResults,     \* bound on completed turns
    MaxUpsets       \* bound on faults, crashes and moves of other people

VARIABLES
    heads,        \* GitHub: branch -> commit it points at (0: no branch)
    base,         \* GitHub: commit of the default branch; -1 once others moved it
    pulls,        \* GitHub: pull requests, numbered from 1
    publisher,    \* the plane runs with a publisher
    implement,    \* the session is an implement session with an open task
    ship,         \* policy: pull-request or push-base
    commits,      \* guest: commits made so far
    results,      \* review_revisions: [ask, outcome, pull, sha]
    proposals,    \* write.propose actions: [branch, sha]
    receipts,     \* write.apply actions: [proposal, pull, branch, sha]
    applier,      \* ApplySessionWrite in progress
    upsets

writeVars == <<heads, base, pulls, publisher, implement, ship, commits, results,
               proposals, receipts, applier, upsets>>

Branches == OwnBranches \cup OtherBranches

None == "none"

ASSUME WriteAssumption ==
    /\ None \notin Branches
    /\ MaxCommits \in Nat /\ MaxResults \in Nat /\ MaxUpsets \in Nat

Resting == [at |-> "idle", proposal |-> 0, pull |-> 0]

Outcomes == {"published", "unconfirmed", "blocked", "reported", "proposed"}

WriteTypeOK ==
    /\ heads \in [Branches -> 0 .. MaxCommits]
    /\ base \in -1 .. MaxCommits
    /\ \A i \in DOMAIN pulls : pulls[i] \in [head : Branches, open : BOOLEAN, text : 0 .. MaxResults]
    /\ {publisher, implement} \subseteq BOOLEAN
    /\ ship \in {"pull-request", "push-base"}
    /\ commits \in 0 .. MaxCommits
    /\ \A i \in DOMAIN results : results[i].outcome \in Outcomes
    /\ \A i \in DOMAIN proposals : proposals[i] \in [branch : Branches, sha : 1 .. MaxCommits]
    /\ \A i \in DOMAIN receipts : receipts[i].proposal \in DOMAIN proposals
    /\ applier.at \in {"idle", "plan", "push", "head", "find", "create", "update", "relook", "record"}
    /\ upsets \in 0 .. MaxUpsets

WriteInit ==
    /\ heads = [b \in Branches |-> 0]
    /\ base = 0
    /\ pulls = <<>>
    /\ publisher \in BOOLEAN
    /\ implement = TRUE
    /\ ship \in {"pull-request", "push-base"}
    /\ commits = 0
    /\ results = <<>> /\ proposals = <<>> /\ receipts = <<>>
    /\ applier = Resting
    /\ upsets = 0

planeRows == <<results, proposals, receipts>>
github == <<heads, base, pulls>>
settings == <<publisher, implement, ship>>

Newest(good) == IF good = {} THEN 0 ELSE CHOOSE i \in good : \A k \in good : k <= i

-----------------------------------------------------------------------------
(* A completed turn. *)

SessionRefAllowed(branch) == branch \in OwnBranches

\* The branch of the newest ask that was not blocked, or none.
PriorPublishAsk ==
    LET i == Newest({k \in DOMAIN results : results[k].ask # None /\ results[k].outcome # "blocked"})
    IN  IF i = 0 THEN None ELSE results[i].ask

\* The newest result seen published, or 0.
PriorPublication ==
    Newest({k \in DOMAIN results : results[k].outcome = "published" /\ results[k].pull > 0})

\* publishResult refuses an ask (or, with a publisher, a claimed pull).
PublishBlocked(ask, claim, sha) ==
    IF ask = None
    THEN publisher /\ claim > 0
    ELSE \/ ~publisher \/ ~implement
         \/ ~SessionRefAllowed(ask)
         \/ sha = 0
         \/ PriorPublishAsk \notin {None, ask}

\* observeResult: what GitHub shows of a claimed pull request.  The
\* candidate is the commit the runner saw, or the pull's head when that is
\* the tip of some branch of the workspace.
Observed(claim, sha, known) ==
    LET shown == heads[pulls[claim].head]
    IN  IF shown # 0 /\ (shown = sha \/ known)
        THEN [outcome |-> "published", sha |-> shown, candidate |-> shown]
        ELSE [outcome |-> "unconfirmed", sha |-> shown, candidate |-> sha]

\* observeFollowUpPublication: a follow-up must move the same pull request.
FollowUp(claim, o) ==
    LET prev == PriorPublication IN
    IF prev = 0 THEN o.outcome
    ELSE IF results[prev].pull # claim \/ o.sha = results[prev].sha
            \/ o.candidate \in {0, results[prev].sha}
         THEN "blocked" ELSE o.outcome

CompleteResult(ask, claim, sha, findings, known) ==
    LET blocked == PublishBlocked(ask, claim, sha)
        pull    == IF ask # None \/ blocked THEN 0 ELSE claim
        seen    == Observed(pull, sha, known)
        outcome == CASE pull > 0 -> FollowUp(pull, seen)
                     [] pull = 0 /\ blocked -> "blocked"
                     [] pull = 0 /\ ~blocked /\ ask # None -> "proposed"
                     [] OTHER -> "reported"
    IN
    /\ Len(results) < MaxResults
    /\ ask # None \/ claim > 0 \/ findings   \* ValidateResult: not an empty result
    /\ results' = Append(results, [ask |-> ask, outcome |-> outcome, pull |-> pull,
                                   sha |-> IF pull > 0 THEN seen.sha ELSE 0])
    /\ proposals' = IF outcome = "proposed"
                    THEN Append(proposals, [branch |-> ask, sha |-> sha]) ELSE proposals
    /\ UNCHANGED <<github, settings, commits, receipts, applier, upsets>>

-----------------------------------------------------------------------------
(* ApplySessionWrite. *)

Applied(i) == \E k \in DOMAIN receipts : receipts[k].proposal = i

\* The latest proposal, unless its receipt already exists.
ApplyBegin ==
    /\ applier.at = "idle"
    /\ implement /\ publisher
    /\ proposals # <<>>
    /\ ~Applied(Len(proposals))
    /\ applier' = [Resting EXCEPT !.at = "plan", !.proposal = Len(proposals)]
    /\ UNCHANGED <<github, settings, commits, planeRows, upsets>>

Ask == proposals[applier.proposal]

\* publicationFromWriteApply, else the newest published result: the pull
\* request the session already has, and who wrote it.
SessionPublication ==
    IF receipts # <<>> /\ receipts[Len(receipts)].pull > 0
    THEN [pull |-> receipts[Len(receipts)].pull, plane |-> TRUE, branch |-> receipts[Len(receipts)].branch]
    ELSE IF PriorPublication # 0
         THEN [pull |-> results[PriorPublication].pull, plane |-> FALSE, branch |-> None]
         ELSE [pull |-> 0, plane |-> TRUE, branch |-> None]

\* executePublication: push the base, or publish the branch as the pull
\* request the session already has.
ExecutePublication ==
    LET prev == SessionPublication IN
    /\ applier.at = "plan"
    /\ applier' =
         CASE ship = "push-base" -> [applier EXCEPT !.at = "push"]
           [] ship # "push-base" /\ prev.pull > 0 /\ (~prev.plane \/ prev.branch # Ask.branch) -> Resting
           [] OTHER -> [applier EXCEPT !.at = "head", !.pull = prev.pull]
    /\ UNCHANGED <<github, settings, commits, planeRows, upsets>>

\* GitHub moves the default branch only forward.
FastForward(sha) == base # -1 /\ base <= sha

PushBase ==
    /\ applier.at = "push"
    /\ IF FastForward(Ask.sha)
       THEN base' = Ask.sha /\ applier' = [applier EXCEPT !.at = "record"]
       ELSE applier' = Resting /\ UNCHANGED base
    /\ UNCHANGED <<heads, pulls, settings, commits, planeRows, upsets>>

RequireHead ==
    /\ applier.at = "head"
    /\ applier' = IF heads[Ask.branch] = Ask.sha THEN [applier EXCEPT !.at = "find"] ELSE Resting
    /\ UNCHANGED <<github, settings, commits, planeRows, upsets>>

OpenFor(branch) ==
    LET open == {i \in DOMAIN pulls : pulls[i].open /\ pulls[i].head = branch}
    IN  IF open = {} THEN 0 ELSE CHOOSE i \in open : \A k \in open : i <= k

\* A named pull request must still be the open one for the branch;
\* otherwise the branch's open pull request is looked up.
FindPull ==
    LET n == applier.pull
        found == OpenFor(Ask.branch)
    IN
    /\ applier.at = "find"
    /\ applier' =
         CASE n > 0 /\ pulls[n].open /\ pulls[n].head = Ask.branch -> [applier EXCEPT !.at = "update"]
           [] n > 0 /\ ~(pulls[n].open /\ pulls[n].head = Ask.branch) -> Resting
           [] n = 0 /\ found > 0 -> [applier EXCEPT !.at = "update", !.pull = found]
           [] OTHER -> [applier EXCEPT !.at = "create"]
    /\ UNCHANGED <<github, settings, commits, planeRows, upsets>>

UpdatePull ==
    /\ applier.at = "update"
    /\ pulls' = [pulls EXCEPT ![applier.pull].text = applier.proposal]
    /\ applier' = [applier EXCEPT !.at = "record"]
    /\ UNCHANGED <<heads, base, settings, commits, planeRows, upsets>>

\* GitHub refuses a second open pull request of one branch; a refused
\* create looks the branch up again.
CreatePull ==
    /\ applier.at = "create"
    /\ IF OpenFor(Ask.branch) > 0
       THEN applier' = [applier EXCEPT !.at = "relook"] /\ UNCHANGED pulls
       ELSE /\ pulls' = Append(pulls, [head |-> Ask.branch, open |-> TRUE, text |-> applier.proposal])
            /\ applier' = [applier EXCEPT !.at = "record", !.pull = Len(pulls')]
    /\ UNCHANGED <<heads, base, settings, commits, planeRows, upsets>>

\* Mutant: a pull request found after a failed create is taken as it is.
Relooked_AsIs ==
    LET found == OpenFor(Ask.branch) IN
    /\ applier.at = "relook"
    /\ applier' = IF found > 0 THEN [applier EXCEPT !.at = "record", !.pull = found] ELSE Resting
    /\ UNCHANGED <<github, settings, commits, planeRows, upsets>>

Relooked ==
    LET found == OpenFor(Ask.branch) IN
    /\ applier.at = "relook"
    /\ applier' = IF found > 0 THEN [applier EXCEPT !.at = "update", !.pull = found] ELSE Resting
    /\ UNCHANGED <<github, settings, commits, planeRows, upsets>>

RecordReceipt ==
    /\ applier.at = "record"
    /\ receipts' = Append(receipts, [proposal |-> applier.proposal, pull |-> applier.pull,
                                     branch |-> Ask.branch, sha |-> Ask.sha])
    /\ applier' = Resting
    /\ UNCHANGED <<github, settings, commits, results, proposals, upsets>>

-----------------------------------------------------------------------------
(* Faults, and what the guest, GitHub's users and the operator do. *)

Upset == upsets < MaxUpsets /\ upsets' = upsets + 1

\* A GitHub write whose answer is lost: it may have happened.  Only a
\* create is looked up again; the others end the apply with an error.
WriteFails ==
    /\ Upset
    /\ applier.at \in {"push", "create", "update"}
    /\ \/ applier.at = "push" /\ FastForward(Ask.sha) /\ base' = Ask.sha /\ UNCHANGED pulls
       \/ /\ applier.at = "create" /\ OpenFor(Ask.branch) = 0 /\ UNCHANGED base
          /\ pulls' = Append(pulls, [head |-> Ask.branch, open |-> TRUE, text |-> applier.proposal])
       \/ applier.at = "update" /\ UNCHANGED base
          /\ pulls' = [pulls EXCEPT ![applier.pull].text = applier.proposal]
       \/ UNCHANGED <<base, pulls>>
    /\ applier' = IF applier.at = "create" THEN [applier EXCEPT !.at = "relook"] ELSE Resting
    /\ UNCHANGED <<heads, settings, commits, planeRows>>

\* A failed read, a failed insert of the receipt, or a crash.
ApplyStops ==
    /\ Upset
    /\ applier # Resting
    /\ applier' = Resting
    /\ UNCHANGED <<github, settings, commits, planeRows>>

GuestPush(branch) ==
    /\ commits < MaxCommits
    /\ commits' = commits + 1
    /\ heads' = [heads EXCEPT ![branch] = commits']
    /\ UNCHANGED <<base, pulls, settings, planeRows, applier, upsets>>

OpenByHand(branch) ==
    /\ Upset
    /\ heads[branch] # 0 /\ OpenFor(branch) = 0
    /\ pulls' = Append(pulls, [head |-> branch, open |-> TRUE, text |-> 0])
    /\ UNCHANGED <<heads, base, settings, commits, planeRows, applier>>

ClosePull(i) ==
    /\ Upset
    /\ pulls[i].open
    /\ pulls' = [pulls EXCEPT ![i].open = FALSE]
    /\ UNCHANGED <<heads, base, settings, commits, planeRows, applier>>

MoveBase ==
    /\ Upset
    /\ base' = -1
    /\ UNCHANGED <<heads, pulls, settings, commits, planeRows, applier>>

\* A policy reload, a closed task, or a restart with another configuration.
Reconfigure ==
    /\ Upset
    /\ \/ ship' \in {"pull-request", "push-base"} \ {ship} /\ UNCHANGED <<publisher, implement, applier>>
       \/ implement' = ~implement /\ UNCHANGED <<publisher, ship, applier>>
       \/ publisher' = ~publisher /\ applier' = Resting /\ UNCHANGED <<implement, ship>>
    /\ UNCHANGED <<github, commits, planeRows>>

WriteNext ==
    \/ \E ask \in Branches \cup {None}, claim \in 0 .. Len(pulls), sha \in 0 .. commits,
          findings, known \in BOOLEAN : CompleteResult(ask, claim, sha, findings, known)
    \/ ApplyBegin \/ ExecutePublication \/ PushBase \/ RequireHead \/ FindPull
    \/ UpdatePull \/ CreatePull \/ Relooked \/ RecordReceipt
    \/ WriteFails \/ ApplyStops
    \/ \E b \in Branches : GuestPush(b) \/ OpenByHand(b)
    \/ \E i \in DOMAIN pulls : ClosePull(i)
    \/ MoveBase \/ Reconfigure

-----------------------------------------------------------------------------

\* The operator's retry after a lost answer or a crash never leaves two
\* open pull requests of the session's work: whatever the plane opened or
\* took over, at most one is open (PublishPull, priorPublishAsk).
OneOpenPull ==
    \A i, k \in DOMAIN pulls :
        pulls[i].open /\ pulls[k].open /\ pulls[i].text > 0 /\ pulls[k].text > 0 => i = k

\* One receipt per proposal: a second apply returns the first one's receipt
\* (ApplySessionWrite).
OneReceiptPerProposal ==
    \A i, k \in DOMAIN receipts : receipts[i].proposal = receipts[k].proposal => i = k

\* A receipt tells the truth: the pull request it names is of the
\* proposal's branch and was given this proposal's text, or a later one's.
ReceiptIsTrue ==
    \A i \in DOMAIN receipts :
        receipts[i].pull > 0 =>
            /\ pulls[receipts[i].pull].head = proposals[receipts[i].proposal].branch
            /\ pulls[receipts[i].pull].text >= receipts[i].proposal

\* A session proposes one branch, of its own prefix, for its whole life,
\* and only commits the guest has made (publishResult).
ProposalsKeepBranch ==
    \A i \in DOMAIN proposals :
        proposals[i].branch \in OwnBranches /\ proposals[i].branch = proposals[1].branch

\* Of two consecutive published results the second is the same pull request
\* at another commit (observeFollowUpPublication).
FollowUpsMovePull ==
    \A i, k \in DOMAIN results :
        /\ i < k
        /\ results[i].outcome = "published" /\ results[k].outcome = "published"
        /\ \A j \in i + 1 .. k - 1 : results[j].outcome # "published"
        => results[i].pull = results[k].pull /\ results[i].sha # results[k].sha

=============================================================================
