----------------------------- MODULE Schedules -----------------------------
(***************************************************************************)
(* Schedules: the plane loop lists them, computes the time bucket each is  *)
(* in, and starts at most one run, or queues at most one prompt on the     *)
(* bound session, per bucket (engine.StepSchedules, StartScheduled).       *)
(* Operators create and delete schedules and guests set their own while a  *)
(* step is under way; the process may stop between two transactions.       *)
(***************************************************************************)
EXTENDS Integers, FiniteSets

CONSTANTS
    PlanIds,      \* schedule ids, naturals without 0
    Periods,      \* every, in clock ticks
    Epoch,        \* clock reading at the start (Unix time is never near 0)
    MaxClock,     \* bound on time
    MaxEdits      \* bound on operator and guest changes, pauses and crashes

ASSUME SchedulesAssumption ==
    /\ PlanIds \subseteq Nat \ {0} /\ Periods \subseteq Nat \ {0}
    /\ Epoch \in Nat /\ MaxClock \in Nat /\ MaxEdits \in Nat

VARIABLES
    plans,        \* schedule id -> [there, every, bound, by]
    nextPlan,     \* next schedule id
    clock,
    step,         \* the loop: [at, left, now, plan, bucket]
    idem,         \* idempotency keys: <<schedule, bucket>>
    runs,         \* schedule id -> its scheduled session is live
    guestArchived,\* the bound session is archived
    schedPaused,
    fired,        \* history: schedule -> bucket -> prompts or runs started
    gone,         \* history: schedules deleted before the latest step listed them
    schedEdits

schedVars == <<plans, nextPlan, clock, step, idem, runs, guestArchived, schedPaused, fired, gone, schedEdits>>

NoPlan == [there |-> FALSE, every |-> 1, bound |-> FALSE, by |-> "operator"]
NoStep == [at |-> "idle", left |-> {}, now |-> 0, plan |-> 0, bucket |-> 0]

Bucket(now, every) == (Epoch + now) \div every
Buckets == UNION {{Bucket(n, e) : n \in 0 .. MaxClock} : e \in Periods}

SchedTypeOK ==
    /\ \A p \in PlanIds : plans[p].there \in BOOLEAN /\ plans[p].every \in Periods \cup {1}
    /\ step.at \in {"idle", "start", "prompt"}
    /\ \A l \in step.left : l.id \in PlanIds
    /\ idem \subseteq PlanIds \X Buckets
    /\ \A p \in PlanIds, b \in Buckets : fired[p][b] \in Nat
    /\ runs \subseteq PlanIds

SchedInit ==
    /\ plans = [p \in PlanIds |-> NoPlan] /\ nextPlan = 1
    /\ clock = 0 /\ step = NoStep
    /\ idem = {} /\ runs = {}
    /\ guestArchived = FALSE /\ schedPaused = FALSE
    /\ fired = [p \in PlanIds |-> [b \in Buckets |-> 0]]
    /\ gone = {} /\ schedEdits = 0

Edit == schedEdits < MaxEdits /\ schedEdits' = schedEdits + 1

\* CreateSchedule; bound ones name an unarchived session of the project.
CreateSchedule(every, bound) ==
    /\ nextPlan \in PlanIds
    /\ bound => ~guestArchived
    /\ plans' = [plans EXCEPT ![nextPlan] =
                    [there |-> TRUE, every |-> every, bound |-> bound, by |-> "operator"]]
    /\ nextPlan' = nextPlan + 1
    /\ UNCHANGED <<clock, step, idem, runs, guestArchived, schedPaused, fired, gone, schedEdits>>

\* DeleteSchedule
DeleteSchedule(p) ==
    /\ Edit
    /\ plans[p].there
    /\ plans' = [plans EXCEPT ![p].there = FALSE]
    /\ UNCHANGED <<nextPlan, clock, step, idem, runs, guestArchived, schedPaused, fired, gone>>

\* GuestScheduleRequest for the guest's own session: the schedule named
\* after the session is inserted, updated in place or cleared.
GuestPlan == {p \in PlanIds : plans[p].there /\ plans[p].by = "guest"}

GuestScheduleSet(every) ==
    /\ Edit
    /\ ~guestArchived
    /\ \/ \E p \in GuestPlan : plans' = [plans EXCEPT ![p].every = every] /\ UNCHANGED nextPlan
       \/ /\ GuestPlan = {} /\ nextPlan \in PlanIds
          /\ plans' = [plans EXCEPT ![nextPlan] =
                          [there |-> TRUE, every |-> every, bound |-> TRUE, by |-> "guest"]]
          /\ nextPlan' = nextPlan + 1
    /\ UNCHANGED <<clock, step, idem, runs, guestArchived, schedPaused, fired, gone>>

GuestScheduleClear ==
    /\ Edit
    /\ ~guestArchived
    /\ \E p \in GuestPlan : plans' = [plans EXCEPT ![p].there = FALSE]
    /\ UNCHANGED <<nextPlan, clock, step, idem, runs, guestArchived, schedPaused, fired, gone>>

-----------------------------------------------------------------------------
(* The loop. *)

\* ListSchedules, and the time of the step.
StepSchedules ==
    /\ step.at = "idle"
    /\ \E p \in PlanIds : plans[p].there
    /\ step' = [NoStep EXCEPT !.at = "start", !.now = clock,
                   !.left = {[id |-> p, every |-> plans[p].every, bound |-> plans[p].bound] :
                             p \in {q \in PlanIds : plans[q].there}}]
    /\ gone' = {p \in PlanIds : p < nextPlan /\ ~plans[p].there}
    /\ UNCHANGED <<plans, nextPlan, clock, idem, runs, guestArchived, schedPaused, fired, schedEdits>>

\* The list holds the next schedule, or the step is over.
Remaining(left) == IF left = {} THEN NoStep ELSE [step EXCEPT !.at = "start", !.left = left]

Fire(p, b) == fired' = [fired EXCEPT ![p][b] = @ + 1]

\* StartScheduled's transaction: paused, key known, bound session, live
\* session, or a new scheduled session.
StartScheduled(sc) ==
    /\ step.at = "start" /\ sc \in step.left
    /\ \A l \in step.left : sc.id <= l.id
    /\ LET b == Bucket(step.now, sc.every)
           key == <<sc.id, b>>
           rest == Remaining(step.left \ {sc})
       IN  \/ /\ schedPaused \/ key \in idem \/ (~sc.bound /\ sc.id \in runs)
              /\ step' = rest
              /\ UNCHANGED <<idem, runs, fired>>
           \/ /\ ~schedPaused /\ key \notin idem /\ sc.bound
              /\ idem' = idem \cup {key}
              /\ step' = IF guestArchived THEN rest
                         ELSE [step EXCEPT !.at = "prompt", !.left = @ \ {sc},
                                           !.plan = sc.id, !.bucket = b]
              /\ UNCHANGED <<runs, fired>>
           \/ /\ ~schedPaused /\ key \notin idem /\ ~sc.bound /\ sc.id \notin runs
              /\ idem' = idem \cup {key} /\ runs' = runs \cup {sc.id}
              /\ Fire(sc.id, b)
              /\ step' = rest
    /\ UNCHANGED <<plans, nextPlan, clock, guestArchived, schedPaused, gone, schedEdits>>

\* Mutant: the loop does not move on after the prompt.
SchedulePrompt_Again ==
    /\ step.at = "prompt"
    /\ IF schedPaused \/ guestArchived THEN step' = Remaining(step.left) /\ UNCHANGED fired
       ELSE Fire(step.plan, step.bucket) /\ UNCHANGED step
    /\ UNCHANGED <<plans, nextPlan, clock, idem, runs, guestArchived, schedPaused, gone, schedEdits>>

\* PromptQueued on the bound session, outside that transaction; a paused
\* project or an archived session refuses it.
SchedulePrompt ==
    /\ step.at = "prompt"
    /\ IF schedPaused \/ guestArchived THEN UNCHANGED fired ELSE Fire(step.plan, step.bucket)
    /\ step' = Remaining(step.left)
    /\ UNCHANGED <<plans, nextPlan, clock, idem, runs, guestArchived, schedPaused, gone, schedEdits>>

-----------------------------------------------------------------------------
(* Time, sessions, operators. *)

Tick ==
    /\ clock < MaxClock
    /\ clock' = clock + 1
    /\ UNCHANGED <<plans, nextPlan, step, idem, runs, guestArchived, schedPaused, fired, gone, schedEdits>>

\* A scheduled session's turn ends.
RunEnds(p) ==
    /\ p \in runs /\ runs' = runs \ {p}
    /\ UNCHANGED <<plans, nextPlan, clock, step, idem, guestArchived, schedPaused, fired, gone, schedEdits>>

SchedSwitch ==
    /\ Edit
    /\ \/ schedPaused' = ~schedPaused /\ UNCHANGED guestArchived
       \/ guestArchived' = ~guestArchived /\ UNCHANGED schedPaused
    /\ UNCHANGED <<plans, nextPlan, clock, step, idem, runs, fired, gone>>

\* The plane stops; the next one lists the schedules anew.
SchedCrash ==
    /\ Edit
    /\ step.at # "idle" /\ step' = NoStep
    /\ UNCHANGED <<plans, nextPlan, clock, idem, runs, guestArchived, schedPaused, fired, gone>>

SchedNext ==
    \/ \E e \in Periods : GuestScheduleSet(e) \/ \E b \in BOOLEAN : CreateSchedule(e, b)
    \/ \E p \in PlanIds : DeleteSchedule(p) \/ RunEnds(p)
    \/ GuestScheduleClear \/ StepSchedules
    \/ \E sc \in step.left : StartScheduled(sc)
    \/ SchedulePrompt \/ Tick \/ SchedSwitch \/ SchedCrash

\* The loop keeps stepping.
SchedFairness ==
    /\ WF_schedVars(StepSchedules)
    /\ WF_schedVars(\E sc \in step.left : StartScheduled(sc))
    /\ WF_schedVars(SchedulePrompt)

-----------------------------------------------------------------------------
(* Properties. *)

\* A schedule starts at most one run or prompt in a time bucket, although
\* the loop looks at it many times in that bucket, may stop between the key
\* and the prompt, and the schedule may be changed meanwhile.
BucketAtMostOnce == \A p \in PlanIds, b \in Buckets : fired[p][b] <= 1

\* A schedule deleted before a step listed the schedules never starts
\* anything again; only the step that had listed it may still use it.
DeletedStaysSilent == [][\A p \in gone : fired'[p] = fired[p]]_schedVars

\* A schedule that stays, in a project that is not paused and with nothing
\* bound or live in the way, has its current bucket used.
BucketsUsed ==
    \A p \in PlanIds :
        []( (plans[p].there /\ ~plans[p].bound /\ schedEdits = MaxEdits /\ ~schedPaused)
            => <>(<<p, Bucket(clock, plans[p].every)>> \in idem \/ p \in runs \/ ~plans[p].there))
=============================================================================
