----------------------------- MODULE MCProgress -----------------------------
(***************************************************************************)
(* What the plane's and the runner's loops promise to finish: comment      *)
(* attempts, drafts, schedule buckets, missed deliveries, cancels of local *)
(* processes, a guest's steers and its end, followed reads, expiries and   *)
(* link starts.  The parts share no state; a behaviour explores one, and   *)
(* only that part's fairness binds it.                                     *)
(***************************************************************************)
EXTENDS Apply, SessionDraft, Schedules, Reconcile, LocalRuntime, Guest, Follow, Retention, PreviewLinks

VARIABLE part

Parts == {"apply", "draft", "schedules", "reconcile", "local", "guest", "follow", "retention", "links"}

vars == <<part, applyVars, draftVars, schedVars, recVars, localVars, guestVars, followVars, retVars, forwardVars>>
restVars == <<guestVars, followVars, retVars, forwardVars>>
loopVars == <<applyVars, draftVars, schedVars, recVars, localVars>>

\* One comment and one comment that quotes private text.
Result(leak) ==
    [verdict |-> "propose_comment", actions |-> <<[type |-> "comment", reason |-> "advice"]>>, leak |-> leak]
MCArtifacts == {Result(TRUE), Result(FALSE)}

\* The guest is a plain ACP turn, the one that takes steers; what its gates
\* answer is a question of safety and is left to MCHosts.
Init ==
    /\ part \in Parts
    /\ ApplyInit /\ DraftInit /\ SchedInit /\ RecInit /\ LocalInit
    /\ GuestInit /\ FollowInit /\ RetInit /\ ForwardInit
    /\ part = "apply" \/ (item = "text" /\ commentOn)
    /\ part = "draft" \/ shared
    /\ mode = "plain" /\ file = NoPrompt /\ ~granted /\ rules = "none" /\ host = "acp"

Next ==
    /\ UNCHANGED part
    /\ \/ part = "apply" /\ ApplyNext /\ UNCHANGED <<draftVars, schedVars, recVars, localVars, restVars>>
       \/ part = "draft" /\ DraftNext /\ UNCHANGED <<applyVars, schedVars, recVars, localVars, restVars>>
       \/ part = "schedules" /\ SchedNext /\ UNCHANGED <<applyVars, draftVars, recVars, localVars, restVars>>
       \/ part = "reconcile" /\ RecNext /\ UNCHANGED <<applyVars, draftVars, schedVars, localVars, restVars>>
       \/ part = "local" /\ LocalNext /\ UNCHANGED <<applyVars, draftVars, schedVars, recVars, restVars>>
       \/ part = "guest" /\ GuestNext /\ UNCHANGED <<loopVars, followVars, retVars, forwardVars>>
       \/ part = "follow" /\ FollowNext /\ UNCHANGED <<loopVars, guestVars, retVars, forwardVars>>
       \/ part = "retention" /\ RetNext /\ UNCHANGED <<loopVars, guestVars, followVars, forwardVars>>
       \/ part = "links" /\ ForwardNext /\ UNCHANGED <<loopVars, guestVars, followVars, retVars>>

\* The fairness of each part, as its module states it.
Fairness ==
    /\ WF_applyVars(part = "apply" /\ LoopStep)
    /\ WF_applyVars(part = "apply" /\ PublishStep("handler"))
    /\ WF_draftVars(part = "draft" /\ DeskStep)
    /\ WF_schedVars(part = "schedules" /\ StepSchedules)
    /\ WF_schedVars(part = "schedules" /\ \E sc \in step.left : StartScheduled(sc))
    /\ WF_schedVars(part = "schedules" /\ SchedulePrompt)
    /\ WF_recVars(part = "reconcile" /\ ReconcileDeliveries)
    /\ WF_recVars(part = "reconcile" /\ ReconcileOne)
    /\ WF_localVars(part = "local" /\ ReconcileSumika(Plane))
    /\ WF_localVars(part = "local" /\ ActorStep(Plane))
    /\ WF_localVars(part = "local" /\ GraceEnds)
    /\ WF_guestVars(part = "guest" /\ RunnerStep)
    /\ WF_guestVars(part = "guest" /\ Heartbeat)
    /\ WF_guestVars(part = "guest" /\ HeartbeatRefused)
    /\ WF_guestVars(part = "guest" /\ HandOver)
    /\ WF_guestVars(part = "guest" /\ ReadStep)
    /\ WF_guestVars(part = "guest" /\ CancelledDone)
    /\ WF_followVars(part = "follow" /\ PlaneStep)
    /\ WF_followVars(part = "follow" /\ HandleEvent)
    /\ WF_retVars(part = "retention" /\ ListDue)
    /\ WF_retVars(part = "retention" /\ \E s \in Sessions : ExpireSession(s))
    /\ \A w \in Finishers : WF_retVars(part = "retention" /\ FinisherStep(w))
    /\ \A c \in LinkCallers : WF_forwardVars(part = "links" /\ CallerStep(c))

FairSpec == Init /\ [][Next]_vars /\ Fairness
=============================================================================
