------------------------------- MODULE Claims -------------------------------
(***************************************************************************)
(* The claim scheduler: which queued turn a polling runner is given.       *)
(*                                                                         *)
(* A runner polls with a random claim token and resends the same request   *)
(* when the connection breaks (runner.postClaim).  Each request is a       *)
(* handler of its own: it replays the lease its token already holds, or    *)
(* selects a turn under pause, policy, daily review budget, halts and      *)
(* lease limits and leases it (engine.ClaimToken), then prepares the       *)
(* environment outside the transaction, mints the turn's credential        *)
(* (server.issueTurnSecrets) and answers.  Handlers of one runner may      *)
(* overlap: a broken connection does not stop the first one.               *)
(***************************************************************************)
EXTENDS Integers, FiniteSets, Sequences

CONSTANTS
    Turns,        \* turn ids: naturals, older ones smaller
    Runners,
    Projects,
    Lane,         \* turn -> "review", "run" or "scheduled"
    ProjectOf,    \* turn -> project its session belongs to
    RootOf,       \* turn -> turn of its session's root (itself without parent)
    KeysOf,       \* runner -> sequence of the claim keys it is configured with
    LeaseLimit,   \* project -> max_concurrent_leases
    DailyMax,     \* project -> max_reviews_per_utc_day
    RetryLimit,   \* lease losses before a turn fails (code: 3)
    MaxPolls,     \* bound on polls
    MaxClaimDay,  \* bound on days
    MaxPollUpsets \* bound on lost connections, failures and switches

ASSUME ClaimsAssumption ==
    /\ IsFiniteSet(Turns) /\ Turns \subseteq Nat \ {0}
    /\ Lane \in [Turns -> {"review", "run", "scheduled"}]
    /\ ProjectOf \in [Turns -> Projects] /\ RootOf \in [Turns -> Turns]
    /\ KeysOf \in [Runners -> Seq(Projects) \ {<<>>}]
    /\ LeaseLimit \in [Projects -> Nat] /\ DailyMax \in [Projects -> Nat]
    /\ RetryLimit \in Nat \ {0} /\ MaxPolls \in Nat /\ MaxClaimDay \in Nat /\ MaxPollUpsets \in Nat

VARIABLES
    turns,        \* turn -> [state, gen, token, lapsed, retries, cred, grant]
    working,      \* environments (by turn) under an operation
    barred,       \* turns whose act is halted or whose guest is not allowed
    pausedProjects,
    counts,       \* daily_review_counts: project, day -> reviews charged
    today,
    calls,        \* claim handlers in progress
    runners,      \* runner -> [at, poll, turn, gen, cred]
    grants,       \* history: review leases granted, and whether given back
    polls,        \* polls so far; a poll's number is its claim token
    upsetsSeen

claimVars == <<turns, working, barred, pausedProjects, counts, today, calls, runners,
               grants, polls, upsetsSeen>>

Waiting(n) == [at |-> "waiting", poll |-> n, turn |-> 0, gen |-> 0, cred |-> 0]
IdleRunner == [Waiting(0) EXCEPT !.at = "idle"]

ClaimsTypeOK ==
    /\ \A t \in Turns : /\ turns[t].state \in {"queued", "leased", "completed", "failed"}
                        /\ turns[t].retries \in 0 .. RetryLimit
                        /\ turns[t].token \in 0 .. polls
                        /\ turns[t].cred <= turns[t].grant
    /\ working \subseteq Turns /\ barred \subseteq Turns
    /\ pausedProjects \subseteq Projects
    /\ \A p \in Projects, d \in 0 .. MaxClaimDay : counts[p][d] \in Nat
    /\ \A c \in calls : c.at \in {"claim", "ensure", "answer"}
    /\ \A r \in Runners : runners[r].at \in {"idle", "waiting", "working"}

ClaimsInit ==
    /\ turns = [t \in Turns |-> [state |-> "queued", gen |-> 0, token |-> 0, lapsed |-> FALSE,
                                 retries |-> 0, cred |-> 0, grant |-> 0]]
    /\ working = {} /\ barred = {} /\ pausedProjects = {}
    /\ counts = [p \in Projects |-> [d \in 0 .. MaxClaimDay |-> 0]]
    /\ today = 0
    /\ calls = {}
    /\ runners = [r \in Runners |-> IdleRunner]
    /\ grants = {}
    /\ polls = 0 /\ upsetsSeen = 0

switches == <<working, barred, pausedProjects>>
ledger == <<counts, grants>>

-----------------------------------------------------------------------------
(* Leases. *)

Leased(tt, t) == tt[t].state = "leased"

\* CountTreeLeasedTurnsTx: leases of the root session and its children.
TreeLeased(tt, t) == Cardinality({u \in Turns : RootOf[u] = RootOf[t] /\ Leased(tt, u)})

\* CountLeasedTurnsTx
ProjectLeased(tt, p) == Cardinality({t \in Turns : ProjectOf[t] = p /\ Leased(tt, t)})

\* A lost attempt: the turn is requeued until its retries are used up.
Lost(turn) ==
    LET n == turn.retries + 1 IN
    [turn EXCEPT !.retries = n, !.lapsed = FALSE,
                 !.state = IF n >= RetryLimit THEN "failed" ELSE "queued"]

\* expireDueLeasesTx over the turns of a scope; expiry ends the generation.
ExpireDue(scope) ==
    [t \in Turns |-> IF t \in scope /\ Leased(turns, t) /\ turns[t].lapsed
                    THEN [Lost(turns[t]) EXCEPT !.gen = @ + 1]
                    ELSE turns[t]]

\* claimSelectRepos: a claim key sees the sessions of its project.
Scope(p) == {t \in Turns : ProjectOf[t] = p}

-----------------------------------------------------------------------------
(* The claim transaction. *)

\* Mutant: tokens are not remembered.
Replayed_Never(token) == {}

\* replayClaimTx: the live lease this token was granted.
Replayed(token) ==
    {t \in Turns : Leased(turns, t) /\ turns[t].token = token /\ ~turns[t].lapsed}

BudgetOut(p) == counts[p][today] >= DailyMax[p]

\* The lanes of a claim: reviews stop at the daily budget, other work goes on.
Lanes(p) == {"run", "scheduled"} \cup (IF BudgetOut(p) THEN {} ELSE {"review"})

\* The queued rows the candidate loop walks, and the ones it does not skip.
Candidates(tt, p) == {t \in Scope(p) : tt[t].state = "queued" /\ Lane[t] \in Lanes(p)}

ClaimEligible(tt, p) ==
    {t \in Candidates(tt, p) \ (working \cup barred) :
        TreeLeased(tt, t) < LeaseLimit[ProjectOf[RootOf[t]]]}

\* Runs first, then id order.
Before(t, u) ==
    \/ Lane[t] = "run" /\ Lane[u] # "run"
    \/ (Lane[t] = "run") = (Lane[u] = "run") /\ t <= u

\* Mutant: the project's lease limit is not looked at.
Selected_NoLimit(tt, p) == {t \in ClaimEligible(tt, p) : \A u \in ClaimEligible(tt, p) : Before(t, u)}

\* The turn the transaction leases, or none.
Selected(tt, p) ==
    {t \in ClaimEligible(tt, p) : /\ \A u \in ClaimEligible(tt, p) : Before(t, u)
                                 /\ ProjectLeased(tt, p) < LeaseLimit[p]}

\* IncrReviewsToday
Charge(t, gen) ==
    IF Lane[t] # "review" THEN UNCHANGED ledger
    ELSE /\ counts' = [counts EXCEPT ![ProjectOf[t]][today] = @ + 1]
         /\ grants' = grants \cup {[turn |-> t, gen |-> gen, day |-> today, back |-> FALSE]}

\* The handler of one request; keys are the claim keys it has yet to try.
NewCall(r, n) ==
    [runner |-> r, poll |-> n, at |-> "claim", keys |-> KeysOf[r], turn |-> 0, gen |-> 0, day |-> 0]

Granted(c, at, t, gen) == [c EXCEPT !.at = at, !.keys = <<>>, !.turn = t, !.gen = gen, !.day = today]

\* The answer w reaches the runner when it still waits for this poll.
Answer(c, w) ==
    runners' = IF runners[c.runner].at = "waiting" /\ runners[c.runner].poll = c.poll
               THEN [runners EXCEPT ![c.runner] = w] ELSE runners

\* ClaimToken up to its commit, for the next key of the request.  Without
\* work the handler tries its next key, and answers 204 after the last.  A
\* paused project and an exhausted budget with nothing else queued are
\* errors: the expirations of that transaction are rolled back.
ClaimToken(c) ==
    /\ c.at = "claim"
    /\ LET p == Head(c.keys)
           tt == ExpireDue(Scope(p))
           refused == p \in pausedProjects \/ (BudgetOut(p) /\ Candidates(tt, p) = {})
       IN  \/ \E t \in Replayed(c.poll) :
                 /\ calls' = (calls \ {c}) \cup {Granted(c, "answer", t, turns[t].gen)}
                 /\ UNCHANGED <<turns, ledger, runners>>
           \/ /\ Replayed(c.poll) = {} /\ ~refused
              /\ \E t \in Selected(tt, p) :
                    /\ turns' = [tt EXCEPT ![t].state = "leased", ![t].gen = @ + 1, ![t].cred = 0,
                                           ![t].token = c.poll, ![t].lapsed = FALSE]
                    /\ Charge(t, tt[t].gen + 1)
                    /\ calls' = (calls \ {c}) \cup {Granted(c, "ensure", t, tt[t].gen + 1)}
                    /\ UNCHANGED runners
           \/ /\ Replayed(c.poll) = {} /\ (refused \/ Selected(tt, p) = {})
              /\ turns' = IF refused THEN turns ELSE tt
              /\ IF Len(c.keys) = 1
                 THEN calls' = calls \ {c} /\ Answer(c, IdleRunner)
                 ELSE calls' = (calls \ {c}) \cup {[c EXCEPT !.keys = Tail(@)]} /\ UNCHANGED runners
              /\ UNCHANGED ledger
    /\ UNCHANGED <<switches, today, polls, upsetsSeen>>

\* EnsureSessionEnvironment finished.
EnsureSessionEnvironment(c) ==
    /\ c.at = "ensure" /\ c.turn \notin working
    /\ calls' = (calls \ {c}) \cup {[c EXCEPT !.at = "answer"]}
    /\ UNCHANGED <<turns, switches, ledger, today, runners, polls, upsetsSeen>>

Holds(c) == Leased(turns, c.turn) /\ turns[c.turn].gen = c.gen

\* Mutant: the review is given back to the current day.
RequeueBusyEnvironmentClaim_Today(c) ==
    /\ c.at = "ensure" /\ c.turn \in working
    /\ LET t == c.turn IN
       IF ~Holds(c) THEN UNCHANGED <<turns, ledger>>
       ELSE /\ turns' = [turns EXCEPT ![t].state = "queued", ![t].lapsed = FALSE]
            /\ IF Lane[t] # "review" THEN UNCHANGED ledger
               ELSE /\ counts' = [counts EXCEPT ![ProjectOf[t]][today] = @ - 1]
                    /\ grants' = {[g EXCEPT !.back = @ \/ (g.turn = t /\ g.gen = c.gen)] : g \in grants}
    /\ calls' = calls \ {c}
    /\ Answer(c, IdleRunner)
    /\ UNCHANGED <<switches, today, polls, upsetsSeen>>

\* requeueBusyEnvironmentClaim: an operation took the environment first.  A
\* charged review is given back to the day it was charged to.
RequeueBusyEnvironmentClaim(c) ==
    /\ c.at = "ensure" /\ c.turn \in working
    /\ LET t == c.turn IN
       IF ~Holds(c) THEN UNCHANGED <<turns, ledger>>
       ELSE /\ turns' = [turns EXCEPT ![t].state = "queued", ![t].lapsed = FALSE]
            /\ IF Lane[t] # "review" THEN UNCHANGED ledger
               ELSE /\ counts' = [counts EXCEPT ![ProjectOf[t]][c.day] = @ - 1]
                    /\ grants' = {[g EXCEPT !.back = @ \/ (g.turn = t /\ g.gen = c.gen)] : g \in grants}
    /\ calls' = calls \ {c}
    /\ Answer(c, IdleRunner)
    /\ UNCHANGED <<switches, today, polls, upsetsSeen>>

\* Setup failed: Fail of this lease, unless it was lost meanwhile.
EnsureFails(c) ==
    /\ c.at = "ensure" /\ upsetsSeen < MaxPollUpsets
    /\ upsetsSeen' = upsetsSeen + 1
    /\ turns' = IF Holds(c) /\ ~turns[c.turn].lapsed
                THEN [turns EXCEPT ![c.turn] = Lost(@)] ELSE turns
    /\ calls' = calls \ {c}
    /\ Answer(c, IdleRunner)
    /\ UNCHANGED <<switches, ledger, today, polls>>

\* issueTurnSecrets: the credential of this turn and generation, and the
\* guest grant of the turn, are replaced by new ones.
IssueTurnSecrets(c) ==
    /\ c.at = "answer"
    /\ LET t == c.turn
           minted == turns[t].grant + 1
       IN  /\ turns' = [turns EXCEPT ![t].grant = minted,
                                     ![t].cred = IF turns[t].gen = c.gen THEN minted ELSE @]
           /\ Answer(c, [at |-> "working", poll |-> c.poll, turn |-> t, gen |-> c.gen, cred |-> minted])
    /\ calls' = calls \ {c}
    /\ UNCHANGED <<switches, ledger, today, polls, upsetsSeen>>

-----------------------------------------------------------------------------
(* Runners. *)

Poll(r) ==
    /\ runners[r].at = "idle" /\ polls < MaxPolls
    /\ polls' = polls + 1
    /\ runners' = [runners EXCEPT ![r] = Waiting(polls')]
    /\ calls' = calls \cup {NewCall(r, polls')}
    /\ UNCHANGED <<turns, switches, ledger, today, upsetsSeen>>

\* The connection broke: postClaim sends the same body again.
PostClaimAgain(r) ==
    /\ runners[r].at = "waiting" /\ upsetsSeen < MaxPollUpsets
    /\ \A c \in calls : c.runner = r => c.at # "claim"
    /\ upsetsSeen' = upsetsSeen + 1
    /\ calls' = calls \cup {NewCall(r, runners[r].poll)}
    /\ UNCHANGED <<turns, switches, ledger, today, runners, polls>>

\* The runner gives the poll up, or is restarted while it works.
Abandon(r) ==
    /\ runners[r].at # "idle" /\ upsetsSeen < MaxPollUpsets
    /\ upsetsSeen' = upsetsSeen + 1
    /\ runners' = [runners EXCEPT ![r] = IdleRunner]
    /\ UNCHANGED <<turns, switches, ledger, today, calls, polls>>

\* TurnCredentialValid, and the lease identity the turn endpoints check.
Authorised(r) ==
    LET w == runners[r] IN
    Leased(turns, w.turn) /\ turns[w.turn].gen = w.gen /\ turns[w.turn].cred = w.cred

\* The runner completes its turn, or stops when it is refused.
Finish(r) ==
    /\ runners[r].at = "working"
    /\ runners' = [runners EXCEPT ![r] = IdleRunner]
    /\ turns' = IF Authorised(r) /\ ~turns[runners[r].turn].lapsed
                THEN [turns EXCEPT ![runners[r].turn].state = "completed"] ELSE turns
    /\ UNCHANGED <<switches, ledger, today, calls, polls, upsetsSeen>>

-----------------------------------------------------------------------------
(* Time and operators. *)

\* No heartbeat arrived for longer than the lease: nobody works on the
\* turn with authority.
Lapse(t) ==
    /\ Leased(turns, t) /\ ~turns[t].lapsed
    /\ \A r \in Runners : ~(runners[r].at = "working" /\ runners[r].turn = t /\ Authorised(r))
    /\ turns' = [turns EXCEPT ![t].lapsed = TRUE]
    /\ UNCHANGED <<switches, ledger, today, calls, runners, polls, upsetsSeen>>

\* ExpireOverdueLeases of the scheduler.
ExpireOverdueLeases ==
    /\ turns' = ExpireDue(Turns) /\ turns' # turns
    /\ UNCHANGED <<switches, ledger, today, calls, runners, polls, upsetsSeen>>

NextUTCDay ==
    /\ today < MaxClaimDay
    /\ today' = today + 1
    /\ UNCHANGED <<turns, switches, ledger, calls, runners, polls, upsetsSeen>>

Flip(s, x) == IF x \in s THEN s \ {x} ELSE s \cup {x}

\* An environment operation begins or ends; a halt or guest policy changes;
\* SetPause.
Switch ==
    /\ upsetsSeen < MaxPollUpsets /\ upsetsSeen' = upsetsSeen + 1
    /\ \/ \E t \in Turns : working' = Flip(working, t) /\ UNCHANGED <<barred, pausedProjects>>
       \/ \E t \in Turns : barred' = Flip(barred, t) /\ UNCHANGED <<working, pausedProjects>>
       \/ \E p \in Projects : pausedProjects' = Flip(pausedProjects, p) /\ UNCHANGED <<working, barred>>
    /\ UNCHANGED <<turns, ledger, today, calls, runners, polls>>

ClaimsNext ==
    \/ \E c \in calls : \/ ClaimToken(c) \/ EnsureSessionEnvironment(c)
                        \/ RequeueBusyEnvironmentClaim(c) \/ EnsureFails(c) \/ IssueTurnSecrets(c)
    \/ \E r \in Runners : Poll(r) \/ PostClaimAgain(r) \/ Abandon(r) \/ Finish(r)
    \/ \E t \in Turns : Lapse(t)
    \/ ExpireOverdueLeases \/ NextUTCDay \/ Switch

-----------------------------------------------------------------------------
(* Properties. *)

\* A project never holds more leases than its limit, and a session tree
\* never more than the limit of its root's project, although children may
\* belong to other projects (ADR 0064, ADR 0072 D5).
LeaseLimitsHold ==
    /\ \A p \in Projects : ProjectLeased(turns, p) <= LeaseLimit[p]
    /\ \A t \in Turns : TreeLeased(turns, t) <= LeaseLimit[ProjectOf[RootOf[t]]]

\* The daily review count is what was granted that day and not given back:
\* replays do not charge twice, a busy environment costs nothing even when
\* it is noticed after midnight, and the budget is never exceeded.
BudgetMatchesGrants ==
    \A p \in Projects, d \in 0 .. MaxClaimDay :
        /\ counts[p][d] = Cardinality({g \in grants : ProjectOf[g.turn] = p /\ g.day = d /\ ~g.back})
        /\ counts[p][d] <= DailyMax[p]

\* A claim token holds at most one live lease, however often its request
\* was sent: the resent poll gets the lease the lost answer carried.
OneLeasePerToken ==
    \A t, u \in Turns :
        /\ Leased(turns, t) /\ Leased(turns, u)
        /\ ~turns[t].lapsed /\ ~turns[u].lapsed
        /\ turns[t].token = turns[u].token
        => t = u

\* Two runners never both work with authority on the same turn.
OneAuthorisedWorker ==
    \A r, s \in Runners :
        /\ runners[r].at = "working" /\ runners[s].at = "working"
        /\ runners[r].turn = runners[s].turn
        /\ Authorised(r) /\ Authorised(s)
        => r = s

\* A runner that was answered keeps the authority it was given for as long
\* as its lease is live.  Stated of the resend rule: "A runner that lost the
\* response retries with the same token and gets the same lease."
WorkerKeepsCredential ==
    \A r \in Runners :
        LET w == runners[r] IN
        w.at = "working" /\ Leased(turns, w.turn) /\ turns[w.turn].gen = w.gen
        => turns[w.turn].cred = w.cred
=============================================================================
