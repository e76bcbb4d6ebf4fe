----------------------------- MODULE MCEffects -----------------------------
(***************************************************************************)
(* The claim scheduler and everything the plane does to the outside with a *)
(* turn's result: applies and comments, session publication, definition    *)
(* drafts, repairs.  The parts share no state; a behaviour explores one.   *)
(***************************************************************************)
EXTENDS Apply, SessionWrite, SessionDraft, Repair, Claims, TLC

VARIABLE part

Parts == {"apply", "write", "draft", "repair", "claims"}

vars == <<part, applyVars, writeVars, draftVars, repairVars, claimVars>>

\* Review results: a close, comments on two grounds, one with private text.
advise == [type |-> "comment", reason |-> "advice"]
onMain == [type |-> "comment", reason |-> "implemented_on_main"]
close == [type |-> "close", reason |-> "duplicate_or_superseded"]
Result(verdict, acts, leak) == [verdict |-> verdict, actions |-> acts, leak |-> leak]
MCArtifacts ==
    {Result("propose_comment", <<close, advise>>, FALSE), Result("propose_comment", <<onMain>>, FALSE),
     Result("propose_comment", <<advise>>, TRUE), Result("propose_close", <<close>>, FALSE)}

\* Issues: a text, another text, the first one edited by a person.
Issue(text, human) ==
    [open |-> TRUE, draft |-> FALSE, labelled |-> TRUE, protected |-> FALSE, human |-> human, text |-> text]
MCIssueContents == {Issue(1, FALSE), Issue(2, FALSE), Issue(1, TRUE)}

\* Two reviews of project a; a run of project b that is a child of review 1.
MCLane == (1 :> "review") @@ (2 :> "review") @@ (3 :> "run")
MCProjectOf == (1 :> "a") @@ (2 :> "a") @@ (3 :> "b")
MCRootOf == (1 :> 1) @@ (2 :> 2) @@ (3 :> 1)
MCKeysOf == ("r" :> <<"a">>) @@ ("s" :> <<"a", "b">>)
MCLeaseLimit == ("a" :> 1) @@ ("b" :> 1)
MCDailyMax == ("a" :> 1) @@ ("b" :> 0)

Init ==
    /\ part \in Parts
    /\ ApplyInit /\ WriteInit /\ DraftInit /\ RepairInit /\ ClaimsInit
    \* The parts at rest have one initial state.
    /\ part = "apply" \/ (item = "text" /\ commentOn)
    /\ part = "write" \/ (publisher /\ ship = "pull-request")
    /\ part = "draft" \/ shared
    /\ part = "repair" \/ \A i \in Issues : issue[i] = Issue(1, FALSE)

Next ==
    /\ UNCHANGED part
    /\ \/ part = "apply" /\ ApplyNext /\ UNCHANGED <<writeVars, draftVars, repairVars, claimVars>>
       \/ part = "write" /\ WriteNext /\ UNCHANGED <<applyVars, draftVars, repairVars, claimVars>>
       \/ part = "draft" /\ DraftNext /\ UNCHANGED <<applyVars, writeVars, repairVars, claimVars>>
       \/ part = "repair" /\ RepairNext /\ UNCHANGED <<applyVars, writeVars, draftVars, claimVars>>
       \/ part = "claims" /\ ClaimsNext /\ UNCHANGED <<applyVars, writeVars, draftVars, repairVars>>

Spec == Init /\ [][Next]_vars
=============================================================================
