------------------------------- MODULE Repair -------------------------------
(***************************************************************************)
(* Automatic documentation repairs (ADR 0038) and the efforts they start.  *)
(*                                                                         *)
(* Every refresh of an issue ends in engine.maybeAdmitRepair: an eligible  *)
(* issue with no competing branch or pull request is selected, within a    *)
(* daily budget, and an implement task is started for it in a second       *)
(* transaction.  An effort (here: one per issue) binds at most one task    *)
(* until the operator closes it.  Before its work is published the repair  *)
(* is checked again (recheckRepair).  Refreshes exclude each other         *)
(* (refreshMu), so one admission is in progress at a time; the operator,   *)
(* the publisher, GitHub and crashes interleave with it.                   *)
(***************************************************************************)
EXTENDS Integers, Sequences, FiniteSets

CONSTANTS
    Issues,       \* issue numbers of one repository
    IssueContents, \* what GitHub may show of an issue; also its item hash
    MaxRepairs,   \* policy: max_repairs_per_repo_per_utc_day
    Cooldown,     \* days a competing decline blocks the same contents (code: 7)
    MaxDay,       \* bound on days
    MaxTasks,     \* bound on tasks of an effort
    MaxDecisions, \* bound on recorded decisions
    MaxMoves      \* bound on edits, rivals, switches, operator calls, crashes

VARIABLES
    issue,        \* GitHub: contents of each issue
    rival,        \* GitHub: competing work on each issue, or an outage
    mainSHA,      \* GitHub: head of the default branch
    repairOn,     \* policy: repair docs, implement
    stopped,      \* the project is paused or halted
    day,          \* UTC day
    decisions,    \* repair_decisions, in id order
    tasks,        \* issue -> tasks of its effort, by revision
    admission,    \* maybeAdmitRepair in progress
    publishing,   \* ApplySessionWrite of a repair session in progress
    published,    \* history: what was published
    moves

repairVars == <<issue, rival, mainSHA, repairOn, stopped, day, decisions, tasks,
                admission, publishing, published, moves>>

ASSUME RepairAssumption ==
    /\ IsFiniteSet(Issues)
    /\ MaxRepairs \in Nat /\ Cooldown \in Nat /\ MaxDay \in Nat
    /\ MaxTasks \in Nat /\ MaxDecisions \in Nat /\ MaxMoves \in Nat

NoAdmission == [at |-> "idle"]
NoPublishing == [at |-> "idle"]

\* A decision of the admission path.
Decision(i, hash, verdict, reason) ==
    [item |-> i, hash |-> hash, decision |-> verdict, reason |-> reason, day |-> day]

RepairTypeOK ==
    /\ issue \in [Issues -> IssueContents]
    /\ rival \in [Issues -> {"none", "branch", "pr", "unavailable"}]
    /\ mainSHA \in Nat /\ day \in 0 .. MaxDay
    /\ {repairOn, stopped} \subseteq BOOLEAN
    /\ \A k \in DOMAIN decisions : /\ decisions[k].item \in Issues
                                   /\ decisions[k].hash \in IssueContents
                                   /\ decisions[k].decision \in {"selected", "declined"}
    /\ \A i \in Issues : \A k \in DOMAIN tasks[i] :
           tasks[i][k].state \in {"open", "abandoned", "cancelled", "superseded"}
    /\ admission.at \in {"idle", "compete", "select", "start", "retract"}
    /\ publishing.at \in {"idle", "recheck"}

RepairInit ==
    /\ \E c \in IssueContents : issue = [i \in Issues |-> c]
    /\ rival = [i \in Issues |-> "none"]
    /\ mainSHA = 1 /\ repairOn = TRUE /\ stopped = FALSE /\ day = 0
    /\ decisions = <<>>
    /\ tasks = [i \in Issues |-> <<>>]
    /\ admission = NoAdmission /\ publishing = NoPublishing
    /\ published = {} /\ moves = 0

repairGitHub == <<issue, rival, mainSHA>>
repairPolicy == <<repairOn, stopped, day>>
repairWork == <<admission, publishing, published>>

-----------------------------------------------------------------------------
(* Tasks of an effort. *)

Last(s) == s[Len(s)]

TaskStillBound(t) == t.state \notin {"abandoned", "cancelled"}

\* GetLatestTask, LatestTaskTx: the effort's highest revision is bound.
LatestBound(i) == tasks[i] # <<>> /\ TaskStillBound(Last(tasks[i]))

\* LookupTaskBySpecHashTx; a released hash is found by no pin.
SpecBound(i, spec) ==
    \E k \in DOMAIN tasks[i] : /\ tasks[i][k].spec = spec /\ ~tasks[i][k].released
                               /\ TaskStillBound(tasks[i][k])

\* ReleaseTaskSpecTx, SupersedeTaskTx
ReleaseLatest(s) ==
    IF s = <<>> THEN s
    ELSE [s EXCEPT ![Len(s)].released = TRUE, ![Len(s)].state = "superseded"]

NewTask(spec) == [spec |-> spec, state |-> "open", released |-> FALSE]

\* StartTask refuses: a base that GitHub has moved past, a pause, a halt.
StartBlocked(spec) == spec.base # mainSHA \/ stopped

\* StartTask commits: a bound task is returned, otherwise a revision starts.
StartTask(i, spec) ==
    tasks' = IF SpecBound(i, spec) \/ LatestBound(i)
             THEN tasks
             ELSE [tasks EXCEPT ![i] = Append(ReleaseLatest(tasks[i]), NewTask(spec))]

-----------------------------------------------------------------------------
(* Admission: the tail of a refresh. *)

RepairEligible(c) ==
    /\ c.open /\ ~c.draft /\ c.labelled
    /\ repairOn
    /\ ~c.protected /\ ~c.human

InsertDecision(d) == decisions' = Append(decisions, d)

\* maybeAdmitRepair up to the GitHub calls.
MaybeAdmitRepair(i) ==
    /\ admission.at = "idle" /\ Len(decisions) < MaxDecisions
    /\ issue[i].open /\ issue[i].labelled
    /\ ~LatestBound(i)
    /\ IF RepairEligible(issue[i])
       THEN /\ admission' = [at |-> "compete", item |-> i, hash |-> issue[i], base |-> mainSHA]
            /\ UNCHANGED decisions
       ELSE /\ InsertDecision(Decision(i, issue[i], "declined", "ineligible"))
            /\ UNCHANGED admission
    /\ UNCHANGED <<repairGitHub, repairPolicy, tasks, publishing, published, moves>>

\* repairCompeting and the decline it leads to.
RepairCompeting ==
    /\ admission.at = "compete"
    /\ LET i == admission.item IN
       IF rival[i] = "none"
       THEN admission' = [admission EXCEPT !.at = "select"] /\ UNCHANGED decisions
       ELSE /\ InsertDecision(Decision(i, admission.hash, "declined", rival[i]))
            /\ admission' = NoAdmission
    /\ UNCHANGED <<repairGitHub, repairPolicy, tasks, publishing, published, moves>>

\* LatestDeclineTx: the first competing decline of these contents.
Cooling(i, hash) ==
    LET competing == {k \in DOMAIN decisions :
                         /\ decisions[k].item = i /\ decisions[k].hash = hash
                         /\ decisions[k].reason \in {"branch", "pr"}}
    IN  \E k \in competing : /\ \A j \in competing : k <= j
                             /\ day - decisions[k].day < Cooldown

SelectedRows(i) == {k \in DOMAIN decisions : decisions[k].item = i /\ decisions[k].decision = "selected"}

\* Mutant: a selection counts on its own day only.
LatestSelected_Today(i) ==
    LET own == {k \in SelectedRows(i) : decisions[k].day = day} IN
    IF own = {} THEN 0 ELSE CHOOSE k \in own : \A j \in own : j <= k

\* LatestSelectedRowTx, LatestSelected; 0 when there is none.
LatestSelected(i) ==
    IF SelectedRows(i) = {} THEN 0
    ELSE CHOOSE k \in SelectedRows(i) : \A j \in SelectedRows(i) : j <= k

\* CountRepairsTodayTx
RepairsOn(d) == Cardinality({i \in Issues : \E k \in SelectedRows(i) : decisions[k].day = d})

\* The admission transaction.
SelectRepair ==
    /\ admission.at = "select"
    /\ LET i == admission.item
           hash == admission.hash
           row == LatestSelected(i)
           again == row # 0 /\ decisions[row].hash = hash
       IN  \/ /\ stopped
              /\ InsertDecision(Decision(i, hash, "declined", "paused"))
              /\ admission' = NoAdmission
           \/ /\ ~stopped /\ (Cooling(i, hash) \/ LatestBound(i))
              /\ admission' = NoAdmission
              /\ UNCHANGED decisions
           \/ /\ ~stopped /\ ~Cooling(i, hash) /\ ~LatestBound(i)
              /\ again
              /\ admission' = [at |-> "start", item |-> i, hash |-> hash, base |-> admission.base,
                               row |-> row]
              /\ UNCHANGED decisions
           \/ /\ ~stopped /\ ~Cooling(i, hash) /\ ~LatestBound(i)
              /\ ~again
              /\ IF RepairsOn(day) >= MaxRepairs
                 THEN /\ InsertDecision(Decision(i, hash, "declined", "budget"))
                      /\ admission' = NoAdmission
                 ELSE /\ InsertDecision(Decision(i, hash, "selected", "docs"))
                      /\ admission' = [at |-> "start", item |-> i, hash |-> hash,
                                       base |-> admission.base, row |-> Len(decisions) + 1]
    /\ UNCHANGED <<repairGitHub, repairPolicy, tasks, publishing, published, moves>>

\* The task of a selected repair, in its own transaction.
StartRepair ==
    /\ admission.at = "start"
    /\ LET spec == [by |-> "plane", from |-> admission.hash, base |-> admission.base] IN
       IF StartBlocked(spec)
       THEN admission' = [admission EXCEPT !.at = "retract"] /\ UNCHANGED tasks
       ELSE StartTask(admission.item, spec) /\ admission' = NoAdmission
    /\ UNCHANGED <<repairGitHub, repairPolicy, decisions, publishing, published, moves>>

\* Deletes one row of a sequence of rows; ids keep their order.
Without(s, k) == SubSeq(s, 1, k - 1) \o SubSeq(s, k + 1, Len(s))

RetractRepairSelection ==
    /\ admission.at = "retract"
    /\ decisions' = Append(Without(decisions, admission.row),
                           Decision(admission.item, admission.hash, "declined", "start_failed"))
    /\ admission' = NoAdmission
    /\ UNCHANGED <<repairGitHub, repairPolicy, tasks, publishing, published, moves>>

-----------------------------------------------------------------------------
(* Publication of a repair session. *)

\* ApplySessionWrite has read the session's open task.
PublishBegins(i, k) ==
    /\ publishing.at = "idle"
    /\ k \in DOMAIN tasks[i] /\ tasks[i][k].state = "open"
    /\ publishing' = [at |-> "recheck", item |-> i, task |-> k]
    /\ UNCHANGED <<repairGitHub, repairPolicy, decisions, tasks, admission, published, moves>>

RecheckRepair(i, k) ==
    /\ RepairEligible(issue[i])
    /\ LatestSelected(i) # 0 /\ decisions[LatestSelected(i)].hash = issue[i]
    /\ ~(LatestBound(i) /\ Len(tasks[i]) # k)
    /\ tasks[i][k].spec.base = mainSHA
    /\ ~stopped
    /\ rival[i] = "none"

PublishEnds ==
    /\ publishing.at = "recheck"
    /\ LET i == publishing.item
           k == publishing.task
       IN  published' = IF RecheckRepair(i, k)
                        THEN published \cup {[item |-> i, task |-> k, hash |-> issue[i],
                                              open |-> tasks[i][k].state = "open"]}
                        ELSE published
    /\ publishing' = NoPublishing
    /\ UNCHANGED <<repairGitHub, repairPolicy, decisions, tasks, admission, moves>>

-----------------------------------------------------------------------------
(* The operator, GitHub, time and crashes. *)

Move == moves < MaxMoves /\ moves' = moves + 1

\* A pinned run through the API under the same effort key.
OperatorStarts(i) ==
    /\ Move
    /\ Len(tasks[i]) < MaxTasks
    /\ ~stopped
    /\ StartTask(i, [by |-> "operator", from |-> issue[i], base |-> mainSHA])
    /\ UNCHANGED <<repairGitHub, repairPolicy, decisions, repairWork>>

\* AbandonEffort, CancelEffort
CloseEffort(i) ==
    /\ Move
    /\ tasks[i] # <<>> /\ Len(tasks[i]) < MaxTasks
    /\ \E s \in {"abandoned", "cancelled"} :
           tasks' = [tasks EXCEPT ![i][Len(tasks[i])].state = s]
    /\ UNCHANGED <<repairGitHub, repairPolicy, decisions, repairWork>>

EditIssue ==
    /\ Move
    /\ \/ \E i \in Issues, c \in IssueContents : issue' = [issue EXCEPT ![i] = c] /\ UNCHANGED <<rival, mainSHA>>
       \/ \E i \in Issues, r \in {"none", "branch", "pr", "unavailable"} :
              rival' = [rival EXCEPT ![i] = r] /\ UNCHANGED <<issue, mainSHA>>
       \/ mainSHA' = mainSHA + 1 /\ UNCHANGED <<issue, rival>>
    /\ UNCHANGED <<repairPolicy, decisions, tasks, repairWork>>

SwitchRepair ==
    /\ Move
    /\ \/ repairOn' = ~repairOn /\ UNCHANGED stopped
       \/ stopped' = ~stopped /\ UNCHANGED repairOn
    /\ UNCHANGED <<repairGitHub, day, decisions, tasks, repairWork>>

NextDay ==
    /\ day < MaxDay
    /\ day' = day + 1
    /\ UNCHANGED <<repairGitHub, repairOn, stopped, decisions, tasks, repairWork, moves>>

RepairCrash ==
    /\ Move
    /\ admission # NoAdmission \/ publishing # NoPublishing
    /\ admission' = NoAdmission /\ publishing' = NoPublishing
    /\ UNCHANGED <<repairGitHub, repairPolicy, decisions, tasks, published>>

RepairNext ==
    \/ \E i \in Issues : MaybeAdmitRepair(i) \/ OperatorStarts(i) \/ CloseEffort(i)
    \/ RepairCompeting \/ SelectRepair \/ StartRepair \/ RetractRepairSelection
    \/ \E i \in Issues, k \in 1 .. MaxTasks : PublishBegins(i, k)
    \/ PublishEnds
    \/ EditIssue \/ SwitchRepair \/ NextDay \/ RepairCrash

-----------------------------------------------------------------------------
(* Properties. *)

\* No day selects more issues than the policy's budget, whatever edits,
\* crashes between selection and start, and retractions happen (ADR 0038).
RepairBudgetHolds == \A d \in 0 .. day : RepairsOn(d) <= MaxRepairs

\* A selection that was not followed by its task (a crash) is taken up
\* again, not made a second time: two successive selections of an issue
\* are for different contents.
SelectionReused ==
    \A i \in Issues : \A j, k \in SelectedRows(i) :
        (j < k /\ \A l \in SelectedRows(i) : ~(j < l /\ l < k)) => decisions[j].hash # decisions[k].hash

\* An effort names one implement session: at most its newest revision is
\* open, whether the plane or the operator started it.
OneOpenTask ==
    \A i \in Issues : \A k \in DOMAIN tasks[i] :
        tasks[i][k].state = "open" => k = Len(tasks[i])

\* The spec hash of a closed effort is free: no pin resolves to a revision
\* that a later one replaced.
SpecNamesLatest ==
    \A i \in Issues : \A k \in DOMAIN tasks[i] :
        ~tasks[i][k].released => k = Len(tasks[i])

\* Work of a repair that is still open is only published while the issue
\* shows the contents the task was started from.
PublishesItsIssue ==
    \A p \in published :
        LET spec == tasks[p.item][p.task].spec IN
        p.open /\ spec.by = "plane" => spec.from = p.hash

\* A bound task that the plane started has its selection on record.
TaskWasSelected ==
    \A i \in Issues :
        LatestBound(i) /\ Last(tasks[i]).spec.by = "plane" =>
            \E k \in SelectedRows(i) : decisions[k].hash = Last(tasks[i]).spec.from
=============================================================================
