---------------------------- MODULE SessionDraft ----------------------------
(***************************************************************************)
(* Definition drafts of one session, applied to the core service.          *)
(*                                                                         *)
(* A completed turn records a core.draft action (engine.draftResult); the  *)
(* operator applies the latest one (engine.ApplySessionDraft): resolve the *)
(* definition branch, pin the head the edit expects, edit under an         *)
(* idempotency key, lint, open a core proposal, store the receipt.  Each   *)
(* call may fail or be the last before a crash, and the operator retries.  *)
(* The core is external: it is modelled from the requests and the error    *)
(* classes of internal/core (compare-and-swap on the branch head, and one  *)
(* result per idempotency key and expected head).                          *)
(***************************************************************************)
EXTENDS Integers, Sequences, FiniteSets

CONSTANTS
    MaxDrafts,    \* bound on draft results
    MaxTroubles   \* bound on failed calls, crashes, denials and foreign edits

ASSUME DraftAssumption == MaxDrafts \in Nat /\ MaxTroubles \in Nat

VARIABLES
    branch,      \* core: head revision of the branch; 0 while it does not exist
    lastHead,    \* core: the newest revision number
    edits,       \* core: committed edits by draft: [expected, head], head 0 for none
    opened,      \* core: proposals by draft: candidate revision, 0 for none
    drafts,      \* plane: core.draft actions recorded
    pins,        \* plane: expected head pinned by draft; -1 for none
    draftRows,   \* plane: core.draft.apply receipt by draft
    desk,        \* ApplySessionDraft in progress
    shared,      \* other authors edit the branch too
    troubles

draftVars == <<branch, lastHead, edits, opened, drafts, pins, draftRows, desk, shared, troubles>>

Drafts == 1 .. MaxDrafts

AtDesk == [at |-> "idle", draft |-> 0, head |-> 0]

NoRow == [done |-> FALSE, refused |-> FALSE, head |-> 0]

DraftTypeOK ==
    /\ branch \in Nat /\ lastHead \in Nat
    /\ edits \in [Drafts -> [expected : Nat, head : Nat]]
    /\ opened \in [Drafts -> Nat]
    /\ drafts \in 0 .. MaxDrafts
    /\ pins \in [Drafts -> Int]
    /\ draftRows \in [Drafts -> [done : BOOLEAN, refused : BOOLEAN, head : Nat]]
    /\ desk.at \in {"idle", "get", "create", "pin", "edit", "lint", "propose", "record", "refuse"}
    /\ troubles \in 0 .. MaxTroubles

DraftInit ==
    /\ branch = 0 /\ lastHead = 0
    /\ edits = [d \in Drafts |-> [expected |-> 0, head |-> 0]]
    /\ opened = [d \in Drafts |-> 0]
    /\ drafts = 0
    /\ pins = [d \in Drafts |-> -1]
    /\ draftRows = [d \in Drafts |-> NoRow]
    /\ desk = AtDesk
    /\ shared \in BOOLEAN
    /\ troubles = 0

coreVars == <<branch, lastHead, edits, opened>>
planeVars == <<drafts, pins, draftRows>>

\* Validity of a draft ask: namespace, parent revision, an object type and a
\* link type, no agent member, and a source turn on every member.
ValidateDraftRequest(d) ==
    /\ d.named
    /\ {"object_type", "link_type"} \subseteq d.kinds
    /\ "agent" \notin d.kinds
    /\ d.sourced

\* A turn's result asks for a draft; an ask that shares its turn with a
\* GitHub publish, or is not valid, is blocked and records nothing.
DraftResult(d) ==
    /\ drafts < MaxDrafts
    /\ ~d.publishes
    /\ ValidateDraftRequest(d)
    /\ drafts' = drafts + 1
    /\ UNCHANGED <<coreVars, pins, draftRows, desk, shared, troubles>>

DraftBegin ==
    /\ desk.at = "idle"
    /\ drafts > 0
    /\ ~draftRows[drafts].done
    /\ desk' = [AtDesk EXCEPT !.at = "get", !.draft = drafts]
    /\ UNCHANGED <<coreVars, planeVars, shared, troubles>>

\* resolveDraftBranch: a branch the core does not have is created; losing
\* that race to another author reads the branch again.
GetBranch ==
    /\ desk.at = "get"
    /\ desk' = IF branch = 0 THEN [desk EXCEPT !.at = "create"]
               ELSE [desk EXCEPT !.at = "pin", !.head = branch]
    /\ UNCHANGED <<coreVars, planeVars, shared, troubles>>

CreateBranch ==
    /\ desk.at = "create"
    /\ IF branch = 0
       THEN /\ lastHead' = lastHead + 1 /\ branch' = lastHead'
            /\ desk' = [desk EXCEPT !.at = "pin", !.head = lastHead']
       ELSE desk' = [desk EXCEPT !.at = "get"] /\ UNCHANGED <<branch, lastHead>>
    /\ UNCHANGED <<edits, opened, planeVars, shared, troubles>>

\* Mutant: a retry pins the head it sees.
PinHead_Again ==
    LET d == desk.draft IN
    /\ desk.at = "pin"
    /\ pins' = [pins EXCEPT ![d] = desk.head]
    /\ desk' = [desk EXCEPT !.at = "edit"]
    /\ UNCHANGED <<coreVars, drafts, draftRows, shared, troubles>>

\* pinDraftExpectedHead: the first persisted head wins.
PinHead ==
    LET d == desk.draft IN
    /\ desk.at = "pin"
    /\ pins' = IF pins[d] = -1 THEN [pins EXCEPT ![d] = desk.head] ELSE pins
    /\ desk' = [desk EXCEPT !.at = "edit", !.head = pins'[d]]
    /\ UNCHANGED <<coreVars, drafts, draftRows, shared, troubles>>

\* The core's answer to an edit with the draft's idempotency key: a replay
\* for the same expected head, a conflict for another one, otherwise a
\* compare-and-swap on the branch head.
EditAnswer(d, expected) ==
    CASE edits[d].head # 0 /\ edits[d].expected = expected -> "replay"
      [] edits[d].head # 0 /\ edits[d].expected # expected -> "already_exists"
      [] edits[d].head = 0 /\ branch = expected -> "commit"
      [] OTHER -> "conflict"

CommitEdit(d, expected) ==
    /\ lastHead' = lastHead + 1
    /\ branch' = lastHead'
    /\ edits' = [edits EXCEPT ![d] = [expected |-> expected, head |-> lastHead']]

ApplyEdit ==
    LET d == desk.draft
        answer == EditAnswer(d, desk.head)
    IN
    /\ desk.at = "edit"
    /\ IF answer = "commit" THEN CommitEdit(d, desk.head) ELSE UNCHANGED <<lastHead, branch, edits>>
    /\ desk' = IF answer \in {"commit", "replay"}
               THEN [desk EXCEPT !.at = "lint", !.head = edits'[d].head] ELSE AtDesk
    /\ UNCHANGED <<opened, planeVars, shared, troubles>>

\* The lint report must be about the edited revision.
Lint ==
    /\ desk.at = "lint"
    /\ desk' = IF branch = desk.head THEN [desk EXCEPT !.at = "propose"] ELSE AtDesk
    /\ UNCHANGED <<coreVars, planeVars, shared, troubles>>

CreateProposal ==
    /\ desk.at = "propose"
    /\ opened' = [opened EXCEPT ![desk.draft] = IF @ = 0 THEN desk.head ELSE @]
    /\ desk' = [desk EXCEPT !.at = "record"]
    /\ UNCHANGED <<branch, lastHead, edits, planeVars, shared, troubles>>

RecordDraft ==
    /\ desk.at \in {"record", "refuse"}
    /\ draftRows' = [draftRows EXCEPT ![desk.draft] =
                        [done |-> TRUE, refused |-> desk.at = "refuse",
                         head |-> IF desk.at = "refuse" THEN 0 ELSE desk.head]]
    /\ desk' = AtDesk
    /\ UNCHANGED <<coreVars, drafts, pins, shared, troubles>>

-----------------------------------------------------------------------------

Trouble == troubles < MaxTroubles /\ troubles' = troubles + 1

\* A core call whose answer is lost: an edit or a proposal may have landed.
CoreCallFails ==
    LET d == desk.draft IN
    /\ Trouble
    /\ desk.at \in {"get", "create", "edit", "lint", "propose"}
    /\ \/ desk.at = "edit" /\ EditAnswer(d, desk.head) = "commit" /\ CommitEdit(d, desk.head) /\ UNCHANGED opened
       \/ desk.at = "propose" /\ opened' = [opened EXCEPT ![d] = IF @ = 0 THEN desk.head ELSE @]
          /\ UNCHANGED <<branch, lastHead, edits>>
       \/ UNCHANGED coreVars
    /\ desk' = AtDesk
    /\ UNCHANGED <<planeVars, shared>>

\* PermissionDenied from any call becomes a refused receipt.
CoreDenies ==
    /\ Trouble
    /\ desk.at \in {"get", "create", "edit", "lint", "propose"}
    /\ desk' = [desk EXCEPT !.at = "refuse"]
    /\ UNCHANGED <<coreVars, planeVars, shared>>

DeskCrash ==
    /\ Trouble
    /\ desk # AtDesk
    /\ desk' = AtDesk
    /\ UNCHANGED <<coreVars, planeVars, shared>>

\* Another author creates or edits the branch.
ForeignEdit ==
    /\ Trouble /\ shared
    /\ lastHead' = lastHead + 1 /\ branch' = lastHead'
    /\ UNCHANGED <<edits, opened, planeVars, desk, shared>>

DeskStep ==
    \/ DraftBegin \/ GetBranch \/ CreateBranch \/ PinHead \/ ApplyEdit
    \/ Lint \/ CreateProposal \/ RecordDraft

DraftAsks ==
    [named : BOOLEAN, kinds : SUBSET {"object_type", "link_type", "agent"},
     sourced : BOOLEAN, publishes : BOOLEAN]

DraftNext ==
    \/ \E d \in DraftAsks : DraftResult(d)
    \/ DeskStep
    \/ CoreCallFails \/ CoreDenies \/ DeskCrash \/ ForeignEdit

\* The operator retries what did not succeed, and each apply runs to its end.
DraftFairness == WF_draftVars(DeskStep)

-----------------------------------------------------------------------------

\* However often a draft is retried, the core commits one edit for it, at
\* the head that was pinned before the first try (pinDraftExpectedHead, the
\* idempotency key of executeDraft).
EditAtPinnedHead ==
    \A d \in Drafts : edits[d].head # 0 => edits[d].expected = pins[d]

\* A receipt that is not a refusal tells the truth: the core holds the
\* draft's edit at that revision and a proposal of exactly it.
DraftReceiptIsTrue ==
    \A d \in Drafts : draftRows[d].done /\ ~draftRows[d].refused =>
        edits[d].head = draftRows[d].head /\ opened[d] = draftRows[d].head

\* A proposal is only opened for a linted revision the draft itself wrote,
\* never for someone else's head (executeDraft's lint check).
ProposesOwnEdit == \A d \in Drafts : opened[d] # 0 => opened[d] = edits[d].head

\* While nobody else edits the branch, the operator's retries get the
\* latest draft applied or refused: a lost answer never wedges it.
DraftSettles ==
    \A d \in Drafts :
        (~shared /\ drafts = d) ~> (draftRows[d].done \/ drafts > d)

=============================================================================
