---------------------------- MODULE SessionTree ----------------------------
(***************************************************************************)
(* A parent session and the child sessions it starts (ADR 0071, ADR 0072): *)
(* fan-out, results reported on the parent, and the two walks over a tree, *)
(* cancel and archive.  Each walk is several transactions; prompts, claims *)
(* and turn endings of any session fall between them.                      *)
(*                                                                         *)
(* A session's single turn is abstracted to its state, whether a follow-up *)
(* is owed beyond the running revision, and whether a queued prompt is     *)
(* held back; the turn's own protocol is module TurnLease.                 *)
(***************************************************************************)
EXTENDS Integers, FiniteSets

CONSTANTS
    Children,     \* ids a child session may get: naturals without 0
    FanOut,       \* MaxConcurrentLeases of the parent's project
    MaxRequests,  \* bound on prompts, cancels, archives and unarchives
    RetryMax      \* attempts of a turn before it fails

ASSUME TreeAssumption ==
    /\ Children \subseteq Nat \ {0} /\ IsFiniteSet(Children)
    /\ FanOut \in Nat /\ MaxRequests \in Nat /\ RetryMax \in Nat \ {0}

Root == 0
Members == {Root} \cup Children

VARIABLES
    tree,         \* session -> [archived, state, owed, held, tries]
    results,      \* child -> outcomes recorded on the parent (child.result actions)
    spawning,     \* a StartChild call that found the parent unarchived
    admitted,     \* sessions with a prompt call that found them unarchived
    cancelling,   \* cancel walk: [on, left], children still to cancel
    archiving,    \* archive walk: [at, top, left, now], sessions still to archive
    sealed,       \* sessions archived by a finished walk, none unarchived since
    spared,       \* history: children a cancel walk passed and left running
    overbooked,   \* history: a session was unarchived
    requests

treeVars == <<tree, results, spawning, admitted, cancelling, archiving, sealed, spared,
              overbooked, requests>>

Live(s) == tree[s].state \in {"queued", "leased"}
Terminal == {"completed", "failed"}

TreeTypeOK ==
    /\ \A s \in Members :
          /\ tree[s].state \in {"none", "queued", "leased"} \cup Terminal
          /\ tree[s].tries \in 0 .. RetryMax - 1
          /\ (tree[s].owed => tree[s].state = "leased")
          /\ (tree[s].held => Live(s))
    /\ results \in [Children -> SUBSET Terminal]
    /\ admitted \subseteq Members /\ sealed \subseteq Members
    /\ archiving.at \in {"idle", "mark", "drop", "fail", "list"}

NoSession == [archived |-> FALSE, state |-> "none", owed |-> FALSE, held |-> FALSE, tries |-> 0]
Started == [NoSession EXCEPT !.state = "queued"]
NoCancel == [on |-> FALSE, left |-> {}]
NoArchive == [at |-> "idle", top |-> Root, now |-> Root, left |-> {}]

TreeInit ==
    /\ tree = [s \in Members |-> IF s = Root THEN Started ELSE NoSession]
    /\ results = [c \in Children |-> {}]
    /\ spawning = FALSE /\ admitted = {}
    /\ cancelling = NoCancel /\ archiving = NoArchive
    /\ sealed = {} /\ spared = {} /\ overbooked = FALSE
    /\ requests = 0

\* ListChildSessionIDs
ChildrenOf(s) == IF s = Root THEN {c \in Children : tree[c].state # "none"} ELSE {}

\* CountActiveChildSessionsTx
ActiveChildren == {c \in Children : Live(c) /\ ~tree[c].archived}

Request == requests < MaxRequests /\ requests' = requests + 1

-----------------------------------------------------------------------------
(* Ending a turn. *)

\* recordChildOutcomeTx: an insert under the id child-result-<child>-<outcome>.
\* Nothing is recorded on an archived parent.
Records(s) == s # Root /\ ~tree[Root].archived

\* The insert fails, and rolls its transaction back, when that id exists.
RecordRefused(s, outcome) == Records(s) /\ outcome \in results[s]

Recorded(s, outcome) ==
    results' = IF Records(s) THEN [results EXCEPT ![s] = @ \cup {outcome}] ELSE results

\* finishMeasurementTx of a turn that becomes terminal.
FinishMeasurement(s, outcome) ==
    /\ ~RecordRefused(s, outcome)
    /\ tree' = [tree EXCEPT ![s].state = outcome, ![s].owed = FALSE, ![s].held = FALSE, ![s].tries = 0]
    /\ Recorded(s, outcome)

Requeued(s) ==
    /\ tree' = [tree EXCEPT ![s].state = "queued", ![s].tries = 0,
                            ![s].owed = FALSE, ![s].held = @ /\ tree[s].owed]
    /\ UNCHANGED results

calls == <<spawning, admitted, cancelling, archiving>>
history == <<sealed, spared, overbooked>>

\* ClaimToken: only sessions that are not archived, within the tree's limit.
ClaimSession(s) ==
    /\ tree[s].state = "queued" /\ ~tree[s].archived
    /\ Cardinality({u \in Members : tree[u].state = "leased"}) < FanOut
    /\ tree' = [tree EXCEPT ![s].state = "leased"]
    /\ UNCHANGED <<results, calls, history, requests>>

\* Complete, or a failure that ends the turn: owed or held prompts run
\* next, otherwise the turn is terminal.
EndTurn(s, outcome) ==
    /\ tree[s].state = "leased"
    /\ IF tree[s].owed \/ tree[s].held THEN Requeued(s) ELSE FinishMeasurement(s, outcome)
    /\ UNCHANGED <<calls, history, requests>>

CompleteTurn(s) == EndTurn(s, "completed")

\* A failed or expired attempt is retried until RetryMax.
LoseTurn(s) ==
    /\ tree[s].state = "leased"
    /\ IF tree[s].tries + 1 < RetryMax
       THEN /\ tree' = [tree EXCEPT ![s].state = "queued", ![s].tries = @ + 1, ![s].owed = FALSE]
            /\ UNCHANGED <<results, calls, history, requests>>
       ELSE EndTurn(s, "failed")

-----------------------------------------------------------------------------
(* Starting and prompting. *)

\* StartChildGuest reads the parent before it looks up the pin.
StartChild ==
    /\ ~spawning /\ ~tree[Root].archived
    /\ spawning' = TRUE
    /\ UNCHANGED <<tree, results, admitted, cancelling, archiving, history, requests>>

\* Mutant: the transaction does not read the parent again.
StartChildTx_Unchecked ==
    /\ spawning /\ spawning' = FALSE
    /\ IF Cardinality(ActiveChildren) >= FanOut
       THEN UNCHANGED tree
       ELSE \E c \in Children :
               /\ tree[c].state = "none"
               /\ \A d \in Children : d < c => tree[d].state # "none"
               /\ tree' = [tree EXCEPT ![c] = Started]
    /\ UNCHANGED <<results, admitted, cancelling, archiving, history, requests>>

\* Its transaction: the parent may have been archived, the fan-out may be
\* taken.
StartChildTx ==
    /\ spawning /\ spawning' = FALSE
    /\ IF tree[Root].archived \/ Cardinality(ActiveChildren) >= FanOut
       THEN UNCHANGED tree
       ELSE \E c \in Children :
               /\ tree[c].state = "none"
               /\ \A d \in Children : d < c => tree[d].state # "none"
               /\ tree' = [tree EXCEPT ![c] = Started]
    /\ UNCHANGED <<results, admitted, cancelling, archiving, history, requests>>

\* promptFollowUp and promptQueued read the session before the transaction.
Prompt(s) ==
    /\ Request
    /\ tree[s].state # "none" /\ ~tree[s].archived /\ s \notin admitted
    /\ admitted' = admitted \cup {s}
    /\ UNCHANGED <<tree, results, spawning, cancelling, archiving, history>>

\* checkChildReactivationTx: a terminal child reserves fan-out again.
ReactivationRefused(s) ==
    s # Root /\ ~Live(s) /\ Cardinality(ActiveChildren) >= FanOut

\* enqueuePromptTx: a follow-up of a running turn is owed, a queued prompt
\* is held, and any prompt of an ended turn starts it again.
PromptTx(s, queued) ==
    /\ s \in admitted /\ admitted' = admitted \ {s}
    /\ tree' = IF ReactivationRefused(s) THEN tree
               ELSE IF ~Live(s) THEN [tree EXCEPT ![s].state = "queued", ![s].tries = 0]
               ELSE IF queued THEN [tree EXCEPT ![s].held = TRUE]
               ELSE [tree EXCEPT ![s].owed = tree[s].state = "leased"]
    /\ UNCHANGED <<results, spawning, cancelling, archiving, history, requests>>

-----------------------------------------------------------------------------
(* Cancel. *)

\* cancelTurnTx after the queued prompts were dropped: an owed follow-up is
\* requeued, everything else that runs or waits fails.
CancelTurn(s) ==
    IF tree[s].state = "leased" /\ tree[s].owed
    THEN /\ tree' = [tree EXCEPT ![s].state = "queued", ![s].owed = FALSE, ![s].held = FALSE]
         /\ UNCHANGED results
    ELSE IF Live(s) THEN FinishMeasurement(s, "failed")
    ELSE UNCHANGED <<tree, results>>

\* CancelSession of the root: the children are listed, then the root's own
\* turn is cancelled.  Of a child: its turn is cancelled.
CancelSession(s) ==
    /\ Request
    /\ tree[s].state # "none" /\ ~cancelling.on
    /\ CancelTurn(s)
    /\ cancelling' = IF s = Root THEN [on |-> TRUE, left |-> ChildrenOf(Root)] ELSE cancelling
    /\ UNCHANGED <<spawning, admitted, archiving, history>>

\* The next child of the walk.  Its error is logged and the walk goes on.
CancelChild(c) ==
    /\ cancelling.on /\ c \in cancelling.left
    /\ \A d \in cancelling.left : c <= d
    /\ cancelling' = [cancelling EXCEPT !.left = @ \ {c}]
    /\ \/ CancelTurn(c) /\ UNCHANGED spared
       \/ /\ Live(c) /\ ~tree[c].owed /\ RecordRefused(c, "failed")
          /\ spared' = spared \cup {c}
          /\ UNCHANGED <<tree, results>>
    /\ UNCHANGED <<spawning, admitted, archiving, sealed, overbooked, requests>>

CancelEnds ==
    /\ cancelling.on /\ cancelling.left = {}
    /\ cancelling' = NoCancel
    /\ UNCHANGED <<tree, results, spawning, admitted, archiving, history, requests>>

-----------------------------------------------------------------------------
(* Archive. *)

\* ArchiveSession of one session: mark, drop its queued prompts, fail its
\* turns; of the root, then the same for the children listed only now.
ArchiveSession(s) ==
    /\ Request
    /\ archiving.at = "idle" /\ tree[s].state # "none"
    /\ archiving' = [at |-> "mark", top |-> s, now |-> s, left |-> {}]
    /\ UNCHANGED <<tree, results, spawning, admitted, cancelling, history>>

SetArchived ==
    /\ archiving.at = "mark"
    /\ tree' = [tree EXCEPT ![archiving.now].archived = TRUE]
    /\ archiving' = [archiving EXCEPT !.at = "drop"]
    /\ UNCHANGED <<results, spawning, admitted, cancelling, history, requests>>

DropQueuedPrompts ==
    /\ archiving.at = "drop"
    /\ tree' = [tree EXCEPT ![archiving.now].held = FALSE]
    /\ archiving' = [archiving EXCEPT !.at = "fail"]
    /\ UNCHANGED <<results, spawning, admitted, cancelling, history, requests>>

\* The next session of the walk, or its end.
Onward(left) ==
    /\ archiving' = IF left = {} THEN NoArchive
                    ELSE LET c == CHOOSE x \in left : \A y \in left : x <= y
                         IN  [archiving EXCEPT !.at = "mark", !.now = c, !.left = left \ {c}]

\* failArchivedTurns: also a turn that its cancel would requeue.  On the
\* root the children are listed next.  An error of a child is joined to the
\* walk's error and the walk goes on; an error of the session the call named
\* ends it.
FailArchivedTurns ==
    /\ archiving.at = "fail"
    /\ LET s == archiving.now
           refused == Live(s) /\ RecordRefused(s, "failed")
       IN  /\ IF Live(s) /\ ~refused
              THEN FinishMeasurement(s, "failed") ELSE UNCHANGED <<tree, results>>
           /\ IF s = Root THEN archiving' = [archiving EXCEPT !.at = "list"] /\ UNCHANGED sealed
              ELSE /\ sealed' = IF refused \/ ~tree[s].archived THEN sealed ELSE sealed \cup {s}
                   /\ Onward(archiving.left)
    /\ UNCHANGED <<spawning, admitted, cancelling, spared, overbooked, requests>>

ListChildren ==
    /\ archiving.at = "list"
    /\ sealed' = IF tree[Root].archived THEN sealed \cup {Root} ELSE sealed
    /\ Onward(ChildrenOf(Root))
    /\ UNCHANGED <<tree, results, spawning, admitted, cancelling, spared, overbooked, requests>>

\* UnarchiveSession reserves nothing.
UnarchiveSession(s) ==
    /\ Request
    /\ tree[s].archived
    /\ tree' = [tree EXCEPT ![s].archived = FALSE]
    /\ sealed' = sealed \ {s} /\ overbooked' = TRUE
    /\ UNCHANGED <<results, spawning, admitted, cancelling, archiving, spared>>

TreeNext ==
    \/ \E s \in Members : \/ ClaimSession(s) \/ CompleteTurn(s) \/ LoseTurn(s)
                           \/ Prompt(s) \/ PromptTx(s, TRUE) \/ PromptTx(s, FALSE)
                           \/ CancelSession(s) \/ ArchiveSession(s) \/ UnarchiveSession(s)
    \/ \E c \in Children : CancelChild(c)
    \/ StartChild \/ StartChildTx \/ CancelEnds
    \/ SetArchived \/ DropQueuedPrompts \/ FailArchivedTurns \/ ListChildren

-----------------------------------------------------------------------------
(* Properties. *)

\* A parent never has more active children than its project's limit, by
\* starting children, by prompting ended ones or by cancelling ones that owe
\* a follow-up; only unarchiving brings work back without reserving.
FanOutHolds == overbooked \/ Cardinality(ActiveChildren) <= FanOut

\* Once an archive walk of the parent has ended, every child is archived
\* unless it was unarchived since: a child start that raced the walk is
\* refused, and the children are listed after the parent was marked.
ArchiveCoversTree ==
    (Root \in sealed /\ archiving.at = "idle" /\ ~overbooked)
        => \A c \in Children : tree[c].state # "none" => tree[c].archived

\* No turn of a session whose archiving finished is leased, although a
\* prompt admitted before it may still requeue the turn.
ArchivedRunsNothing == \A s \in sealed : tree[s].state # "leased"

\* A child that ended under a live parent has reported that outcome on it.
ResultReported ==
    \A c \in Children :
        tree[c].state \in Terminal /\ ~tree[Root].archived /\ ~overbooked
            => tree[c].state \in results[c]

\* A cancelled parent fails its live children (those with nothing owed).
CancelFailsChildren == spared = {}
=============================================================================
