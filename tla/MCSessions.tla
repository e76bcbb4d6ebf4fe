----------------------------- MODULE MCSessions -----------------------------
(***************************************************************************)
(* What starts, prompts and ends sessions beside the turn protocol: parent *)
(* and child trees, schedules, session webhooks, the reconciling of missed *)
(* deliveries, local sessions under Sumika.  What outlives a turn or a     *)
(* process: retention, setup of the user service, schema migrations,       *)
(* preview grants and their links.  The parts share no state; a behaviour  *)
(* explores one.                                                           *)
(***************************************************************************)
EXTENDS SessionTree, Schedules, Webhooks, Reconcile, LocalRuntime,
        Retention, Setup, Migrations, PreviewLinks, Previews, TLC

VARIABLE part

Parts == {"tree", "schedules", "hooks", "reconcile", "local",
          "retention", "setup", "migrations", "links", "previews"}

sessionVars == <<treeVars, schedVars, hookVars, recVars, localVars>>
upkeepVars == <<retVars, setupVars, migVars, forwardVars, previewVars>>
vars == <<part, sessionVars, upkeepVars>>

Init ==
    /\ part \in Parts
    /\ TreeInit /\ SchedInit /\ HookInit /\ RecInit /\ LocalInit
    /\ RetInit /\ SetupInit /\ MigInit /\ ForwardInit /\ PreviewInit
    /\ part = "setup" \/ platform = "systemd"
    /\ part = "migrations" \/ stamps = {}

\* Prompts, operations and crashes of one behaviour, together.
RetBudget == nOps + nPrompts + nStops <= 3

\* One operator who mints, one visitor who presents grants.
PreviewRoles == visit["op"].kind \in {"none", "mint"} /\ visit["page"].kind # "mint"

SessionStep ==
    \/ part = "tree" /\ TreeNext /\ UNCHANGED <<schedVars, hookVars, recVars, localVars>>
    \/ part = "schedules" /\ SchedNext /\ UNCHANGED <<treeVars, hookVars, recVars, localVars>>
    \/ part = "hooks" /\ HookNext /\ UNCHANGED <<treeVars, schedVars, recVars, localVars>>
    \/ part = "reconcile" /\ RecNext /\ UNCHANGED <<treeVars, schedVars, hookVars, localVars>>
    \/ part = "local" /\ LocalNext /\ UNCHANGED <<treeVars, schedVars, hookVars, recVars>>

UpkeepStep ==
    \/ /\ part = "retention" /\ RetNext /\ RetBudget'
       /\ UNCHANGED <<setupVars, migVars, forwardVars, previewVars>>
    \/ part = "setup" /\ SetupNext /\ UNCHANGED <<retVars, migVars, forwardVars, previewVars>>
    \/ part = "migrations" /\ MigNext /\ UNCHANGED <<retVars, setupVars, forwardVars, previewVars>>
    \/ part = "links" /\ ForwardNext /\ UNCHANGED <<retVars, setupVars, migVars, previewVars>>
    \/ /\ part = "previews" /\ PreviewNext /\ PreviewRoles'
       /\ UNCHANGED <<retVars, setupVars, migVars, forwardVars>>

Next ==
    /\ UNCHANGED part
    /\ \/ SessionStep /\ UNCHANGED upkeepVars
       \/ UpkeepStep /\ UNCHANGED sessionVars

Spec == Init /\ [][Next]_vars
=============================================================================
