------------------------------- MODULE Guest -------------------------------
(***************************************************************************)
(* One claimed turn on a runner: the heartbeat goroutine that renews the   *)
(* lease and brings steers, the main goroutine that drives the guest       *)
(* (internal/runner/acp.go, runner.go), the ACP read loop that answers the *)
(* guest's permission requests (internal/acp/client.go), and the plane's   *)
(* side of all three: turn_steers, approval_decisions and the gates that   *)
(* decide whether an allow still holds (internal/server/approvals.go).     *)
(*                                                                         *)
(* The guest is a program the code does not control.  It works on one      *)
(* prompt at a time, may ask for permission and waits for the answer, may  *)
(* write its report file, and ends the prompt when it likes.  Prompt 0 is  *)
(* the turn's own input; prompt s > 0 is steer s.                          *)
(***************************************************************************)
EXTENDS Integers, Sequences, FiniteSets

CONSTANTS MaxSteers,   \* steers the operator aims at the lease
          MaxAsks,     \* permission requests the guest makes
          MaxLosses,   \* heartbeat answers lost on the way back
          MaxChanges,  \* times the operator changes grants, policy or pause
          RmFails      \* whether removing an earlier result can fail

ASSUME GuestBounds == {MaxSteers, MaxAsks, MaxLosses, MaxChanges} \subseteq Nat /\ RmFails \in BOOLEAN

Steers == 1..MaxSteers
Asks == 1..MaxAsks
NoPrompt == -1
Old == -2           \* the report an earlier turn left in the container

VARIABLES
  host,      \* how the turn is hosted: "acp", "native" or "process"
  mode,      \* "plain", "implement", or "gated": a space session, whose writes
             \* need a tool grant, or an indefinite one, whose need an override
  rules,     \* the policy rule the claim copied: "allow", "none" or "reject"
  lease,     \* the lease on the plane: "held", "completed" or "ended"
  steerRow,  \* turn_steers
  decided,   \* approval_decisions by ask: "none", "open", "allow" or "deny"
  granted,   \* the live tool grant, or write override, of the session
  policy,    \* the rule in the plane's current policy
  projectPaused,    \* the project is paused
  pc,        \* where OneACPTurnWithOutcome is
  ctx,       \* runCtx: "live", "lost" or "deadline"
  ids,       \* steerReceiptState.ids: steers to confirm on the next heartbeat
  queued,    \* heartbeatSteers' queue
  steers,    \* the channel between the goroutines, of capacity one
  prompt,    \* the prompt to send or sent last
  current,   \* currentSteerID
  delivered, \* deliveredSteerIDs
  res,       \* what session/prompt returned: "none", "ok" or "err"
  pctx,      \* the prompt's permission context: "none", "live" or "cancelled"
  guest,     \* the guest: "idle", "busy", "asking" or "dead"
  out,       \* what the guest wrote and the read loop has not read
  rd,        \* the read loop: "read", "wait", "answer" or "write"
  verdict,   \* the answer being prepared
  kind,      \* the tool of each ask: "read", "write" or "fenced"
  asks,      \* asks made so far
  file,      \* which prompt wrote the report file, NoPrompt or Old
  result,    \* the report the completion carried, NoPrompt if none
  seen,      \* history: prompts the guest was given, in order
  ran,       \* history: asks the guest was told to go ahead with
  late,      \* history: asks first read after their prompt was cancelled
  bare,      \* history: asks during which the session never held the grant
  losses, changes

guestPlane == <<lease, steerRow, decided, granted, policy, projectPaused, changes>>
mainVars == <<pc, prompt, current, delivered, res, result>>
beatVars == <<ids, queued, steers, losses>>
readVars == <<rd, verdict>>
agentVars == <<guest, out, kind, asks, file, seen, ran>>
fixed == <<host, mode, rules>>
guestVars == <<fixed, guestPlane, mainVars, beatVars, readVars, agentVars, ctx, pctx, late, bare>>

GuestInit ==
  /\ host \in {"acp", "native", "process"}
  /\ mode \in {"plain", "gated", "implement"}
  /\ rules \in {"allow", "none", "reject"}
  /\ lease = "held" /\ steerRow = [s \in Steers |-> "none"]
  /\ decided = [a \in Asks |-> "none"]
  /\ granted \in BOOLEAN /\ policy = rules /\ projectPaused = FALSE /\ changes = 0
  /\ pc = "claimed" /\ ctx = "live" /\ ids = {} /\ queued = <<>> /\ steers = <<>>
  /\ prompt = 0 /\ current = 0 /\ delivered = <<>> /\ res = "none"
  /\ pctx = "none" /\ guest = "idle" /\ out = <<>> /\ rd = "read" /\ verdict = "none"
  /\ kind = [a \in Asks |-> "read"] /\ asks = 0 /\ file \in {NoPrompt, Old}
  /\ result = NoPrompt /\ seen = <<>> /\ ran = {} /\ late = {} /\ bare = {} /\ losses = 0

----------------------------------------------------------------------------
(* The gates (internal/acp: FenceGate, RetentionWriteGate, SpaceReadGate,  *)
(* RulesGate) as permissionGate stacks them, outermost first.              *)

WriteCapable(k) == k # "read"

NeedsGrant(k) == mode = "gated" /\ WriteCapable(k)

Fenced(k) == mode = "implement" /\ k = "fenced"

\* Mutant: the gate reads the grants the claim copied.
GateDenies_Snapshot(k, found) == Fenced(k)

\* A lookup of the live grants that fails denies a write.
GateDenies(k, found) == Fenced(k) \/ (NeedsGrant(k) /\ ~(found /\ granted))

PermissionGate(k, found) ==
  IF GateDenies(k, found) \/ rules = "reject" THEN "deny"
  ELSE IF rules = "allow" THEN "allow" ELSE "unmatched"

\* allowStillValid: an operator's allow is checked again when it is read.
AllowStillValid(a) ==
  /\ lease = "held" /\ ~projectPaused
  /\ ~(NeedsGrant(kind[a]) /\ ~granted)
  /\ ~Fenced(kind[a])
  /\ policy # "reject"

----------------------------------------------------------------------------
(* The plane: steers, approvals and what the operator changes meanwhile.   *)

Unsettled == {s \in Steers : steerRow[s] \in {"open", "offered", "received"}}

\* The lease ends by c; acknowledged steers stay, the others become prompts.
EndLease(c, acks) ==
  /\ lease' = c
  /\ steerRow' = [s \in Steers |->
       IF s \in Unsettled THEN (IF s \in acks THEN "acked" ELSE "promoted") ELSE steerRow[s]]

PromptSteer ==
  /\ lease = "held" /\ pc # "ended"
  /\ \E s \in Steers :
       /\ steerRow[s] = "none" /\ \A x \in Steers : x < s => steerRow[x] # "none"
       /\ steerRow' = [steerRow EXCEPT ![s] = "open"]
  /\ UNCHANGED <<fixed, lease, decided, granted, policy, projectPaused, changes, mainVars, beatVars,
                 readVars, agentVars, ctx, pctx, late, bare>>

\* decideApproval: the first decision on an approval stays.
DecideApproval ==
  /\ pc # "ended"
  /\ \E a \in Asks, d \in {"allow", "deny"} :
       decided[a] = "open" /\ decided' = [decided EXCEPT ![a] = d]
  /\ UNCHANGED <<fixed, lease, steerRow, granted, policy, projectPaused, changes, mainVars, beatVars,
                 readVars, agentVars, ctx, pctx, late, bare>>

\* The operator gives or takes a grant, reloads the policy, or pauses.
ChangeRules ==
  /\ pc # "ended" /\ changes < MaxChanges /\ changes' = changes + 1
  /\ \/ granted' = ~granted /\ UNCHANGED <<policy, projectPaused>>
     \/ policy' \in {"allow", "none", "reject"} \ {policy} /\ UNCHANGED <<granted, projectPaused>>
     \/ projectPaused' = ~projectPaused /\ UNCHANGED <<granted, policy>>
  /\ bare' = IF granted' THEN {} ELSE bare
  /\ UNCHANGED <<fixed, lease, steerRow, decided, mainVars, beatVars, readVars, agentVars,
                 ctx, pctx, late>>

\* Cancel, expiry, halt or a new claim of the turn ends the lease.
LoseLease ==
  /\ lease = "held" /\ EndLease("ended", {})
  /\ UNCHANGED <<fixed, decided, granted, policy, projectPaused, changes, mainVars, beatVars, readVars,
                 agentVars, ctx, pctx, late, bare>>

----------------------------------------------------------------------------
(* The heartbeat goroutine.                                                *)

Beating == pc \notin {"claimed", "ended"} /\ ctx = "live"

Offerable(got) == {s \in Steers : steerRow[s] \in {"open", "offered"} /\ s \notin got}

Least(S) == CHOOSE s \in S : \A x \in S : s <= x

\* Where heartbeatSteers puts the steer an answer brought.
Keep(q, s) == Append(q, s)

\* PollHeartbeat: the plane takes the receipts, offers the oldest steer not
\* yet received, and the answer may be lost.
Heartbeat ==
  /\ Beating /\ lease = "held"
  /\ LET next == Offerable(ids) IN
     /\ steerRow' = [s \in Steers |->
          CASE s \in ids /\ steerRow[s] \in {"offered", "received"} -> "received"
            [] next # {} /\ s = Least(next) -> "offered"
            [] OTHER -> steerRow[s]]
     /\ \/ losses < MaxLosses /\ losses' = losses + 1 /\ UNCHANGED <<ids, queued>>
        \/ /\ ids' = IF next = {} THEN {} ELSE {Least(next)}
           /\ queued' = IF next = {} \/ host = "process" THEN queued ELSE Keep(queued, Least(next))
           /\ UNCHANGED losses
  /\ UNCHANGED <<fixed, lease, decided, granted, policy, projectPaused, changes, mainVars, steers,
                 readVars, agentVars, ctx, pctx, late, bare>>

\* Mutant: a refused heartbeat is retried like any other failure.
LeaseLostError_Retry == FALSE

\* ErrLeaseLost ends the turn; the process driver's heartbeat ignores it.
LeaseLostError == host # "process"

HeartbeatRefused ==
  /\ Beating /\ lease # "held" /\ LeaseLostError
  /\ ctx' = "lost"
  /\ UNCHANGED <<fixed, guestPlane, mainVars, beatVars, readVars, agentVars, pctx, late, bare>>

\* The main goroutine is offered one steer at a time.
HandOver ==
  /\ Beating /\ queued # <<>> /\ steers = <<>>
  /\ steers' = <<Head(queued)>> /\ queued' = Tail(queued)
  /\ UNCHANGED <<fixed, guestPlane, mainVars, ids, losses, readVars, agentVars, ctx, pctx, late, bare>>

\* The execution deadline of the assignment.
Deadline ==
  /\ ctx = "live" /\ pc \notin {"claimed", "ended"} /\ ctx' = "deadline"
  /\ UNCHANGED <<fixed, guestPlane, mainVars, beatVars, readVars, agentVars, pctx, late, bare>>

----------------------------------------------------------------------------
(* The main goroutine.                                                     *)

\* PrepareResult: an earlier turn's report is removed from the container, and
\* a removal that fails is not noticed.
PrepareResult == file' = NoPrompt \/ (RmFails /\ file' = file)

\* OneACPTurnWithOutcome up to the host: the commit hooks, the report file
\* and the turn's link; any of them may fail.
PrepareTurn ==
  /\ pc = "claimed" /\ pc' \in {"starting", "failing"} /\ PrepareResult
  /\ UNCHANGED <<fixed, guestPlane, prompt, current, delivered, res, result, beatVars, readVars,
                 guest, out, kind, asks, seen, ran, ctx, pctx, late, bare>>

\* GuestHost: the guest's home, its arguments and its process.
StartGuest ==
  /\ pc = "starting" /\ ctx = "live" /\ pc' \in {"opening", "failing"}
  /\ UNCHANGED <<fixed, guestPlane, prompt, current, delivered, res, result, beatVars, readVars,
                 agentVars, ctx, pctx, late, bare>>

\* initialize, then session/load or session/new.
OpenSession ==
  /\ pc = "opening" /\ ctx = "live" /\ pc' \in {"submit", "failing"}
  /\ UNCHANGED <<fixed, guestPlane, prompt, current, delivered, res, result, beatVars, readVars,
                 agentVars, ctx, pctx, late, bare>>

\* SessionPromptSubmittedBlocks: a fresh permission context, then the write.
SubmitPrompt ==
  /\ pc = "submit" /\ ctx = "live"
  /\ pctx' = "live" /\ pc' = "sent" /\ res' = "none"
  /\ guest' = "busy" /\ seen' = Append(seen, prompt)
  /\ UNCHANGED <<fixed, guestPlane, prompt, current, delivered, result, beatVars, readVars, out,
                 kind, asks, file, ran, ctx, late, bare>>

\* hostACP learns that the prompt was written: the steer counts as delivered.
PromptSubmitted ==
  /\ pc = "sent" /\ pc' = "wait"
  /\ delivered' = IF current > 0 THEN Append(delivered, current) ELSE delivered
  /\ current' = 0
  /\ UNCHANGED <<fixed, guestPlane, prompt, res, result, beatVars, readVars, agentVars, ctx, pctx,
                 late, bare>>

\* SessionCancel cancels the permission context of the prompt in flight.
CancelWaits(p) == IF p = "live" THEN "cancelled" ELSE p

\* A steer arrives while the prompt runs: cancel the prompt.
TakeSteer ==
  /\ host = "acp" /\ pc = "wait" /\ steers # <<>> /\ ctx = "live"
  /\ pc' = "cancelling" /\ prompt' = Head(steers) /\ steers' = <<>>
  /\ pctx' = CancelWaits(pctx)
  /\ UNCHANGED <<fixed, guestPlane, current, delivered, res, result, ids, queued, losses, readVars,
                 agentVars, ctx, late, bare>>

ClearResult(f) == NoPrompt

\* The cancelled prompt ended: drop its report and send the steer.
SteerNext ==
  /\ pc = "cancelling" /\ res = "ok" /\ ctx = "live"
  /\ \/ pc' = "submit" /\ file' = ClearResult(file) /\ current' = prompt
     \/ pc' = "failing" /\ UNCHANGED <<file, current>>
  /\ UNCHANGED <<fixed, guestPlane, prompt, delivered, res, result, beatVars, readVars, guest, out,
                 kind, asks, seen, ran, ctx, pctx, late, bare>>

\* call returns the context's error to whoever waits for the prompt.
CallCancelled ==
  /\ ctx # "live" /\ res = "none" /\ pc \in {"sent", "wait", "cancelling"}
  /\ res' = "err" /\ pctx' = "none"
  /\ UNCHANGED <<fixed, guestPlane, pc, prompt, current, delivered, result, beatVars, readVars,
                 agentVars, ctx, late, bare>>

GiveUp ==
  /\ \/ res = "err" /\ pc \in {"sent", "wait", "cancelling"}
     \/ ctx # "live" /\ pc \in {"starting", "opening", "submit", "sent"}
     \/ ctx # "live" /\ pc = "cancelling" /\ res # "none"
     \/ ctx = "lost" /\ pc \in {"wait", "collect"} /\ res # "none"
  /\ pc' = "failing"
  /\ UNCHANGED <<fixed, guestPlane, prompt, current, delivered, res, result, beatVars, readVars,
                 agentVars, ctx, pctx, late, bare>>

\* finish: the prompt's answer ends the turn.
FinishTurn ==
  /\ pc \in {"sent", "wait"} /\ res = "ok" /\ pc' = "collect"
  /\ delivered' = IF current > 0 THEN Append(delivered, current) ELSE delivered
  /\ current' = 0
  /\ UNCHANGED <<fixed, guestPlane, prompt, res, result, beatVars, readVars, agentVars, ctx, pctx,
                 late, bare>>

Range1(s) == {s[i] : i \in DOMAIN s}

\* The steers CompleteWithSteers acknowledges.
Acks == Range1(delivered)

\* The deferred calls: the heartbeat ends and stop() ends the guest.
Stopped == /\ pc' = "ended" /\ guest' = "dead" /\ out' = <<>> /\ rd' = "read"
           /\ verdict' = "none" /\ pctx' = "none" /\ res' = "none"
           /\ ids' = {} /\ queued' = <<>> /\ steers' = <<>> /\ delivered' = <<>> /\ current' = 0

\* collectResult and CompleteWithSteers; stop() then ends the guest.
CompleteTurn ==
  /\ pc = "collect" /\ result' = file
  /\ IF lease = "held" THEN EndLease("completed", Acks) ELSE UNCHANGED <<lease, steerRow>>
  /\ Stopped
  /\ UNCHANGED <<fixed, decided, granted, policy, projectPaused, changes, prompt, losses, kind, asks,
                 file, seen, ran, ctx, late, bare>>

FailTurn ==
  /\ pc = "failing"
  /\ IF lease = "held" THEN EndLease("ended", {}) ELSE UNCHANGED <<lease, steerRow>>
  /\ Stopped
  /\ UNCHANGED <<fixed, decided, granted, policy, projectPaused, changes, prompt, result, losses, kind,
                 asks, file, seen, ran, ctx, late, bare>>

----------------------------------------------------------------------------
(* The guest.                                                              *)

GuestAsk ==
  /\ guest = "busy" /\ asks < MaxAsks /\ host # "process"
  /\ \E k \in {"read", "write", "fenced"} : kind' = [kind EXCEPT ![asks + 1] = k]
  /\ asks' = asks + 1 /\ guest' = "asking" /\ out' = Append(out, "ask")
  /\ bare' = IF granted THEN bare ELSE bare \cup {asks + 1}
  /\ UNCHANGED <<fixed, guestPlane, mainVars, beatVars, readVars, file, seen, ran, ctx, pctx, late>>

GuestReport ==
  /\ guest = "busy" /\ file' = seen[Len(seen)] /\ file' # file
  /\ UNCHANGED <<fixed, guestPlane, mainVars, beatVars, readVars, guest, out, kind, asks, seen, ran,
                 ctx, pctx, late, bare>>

GuestDone ==
  /\ guest = "busy" /\ guest' = "idle"
  /\ \E d \in {"ok", "err"} : out' = Append(out, d)
  /\ UNCHANGED <<fixed, guestPlane, mainVars, beatVars, readVars, kind, asks, file, seen, ran, ctx,
                 pctx, late, bare>>

----------------------------------------------------------------------------
(* The read loop, one message at a time.                                   *)

\* IngestTurnAction records an approval only while the turn is leased.
RecordApproval(a) == lease = "held" /\ decided' = [decided EXCEPT ![a] = "open"]

\* answerPermission up to the decision: the gate, and for a request no rule
\* matches an approval row to wait on (a refused receipt denies).
ReadAsk ==
  /\ rd = "read" /\ out # <<>> /\ Head(out) = "ask" /\ out' = Tail(out)
  /\ late' = IF pctx = "cancelled" THEN late \cup {asks} ELSE late
  /\ \E found \in BOOLEAN :
     LET v == PermissionGate(kind[asks], found) IN
     IF v = "unmatched"
     THEN \/ RecordApproval(asks) /\ rd' = "wait" /\ verdict' = "none"
          \/ rd' = "answer" /\ verdict' = "deny" /\ UNCHANGED decided
     ELSE rd' = "answer" /\ verdict' = v /\ UNCHANGED decided
  /\ UNCHANGED <<fixed, lease, steerRow, granted, policy, projectPaused, changes, mainVars, beatVars,
                 guest, kind, asks, file, seen, ran, ctx, pctx, bare>>

\* HTTPRecorder.Wait: poll, then denied, until one of them or the context
\* settles the request.
PollApproval ==
  /\ rd = "wait" /\ rd' = "answer"
  /\ verdict' = IF decided[asks] = "allow" /\ AllowStillValid(asks) THEN "allow" ELSE "deny"
  /\ decided[asks] \in {"allow", "deny"}
  /\ UNCHANGED <<fixed, guestPlane, mainVars, beatVars, agentVars, ctx, pctx, late, bare>>

WaitCancelled ==
  /\ rd = "wait" /\ (ctx # "live" \/ pctx = "cancelled")
  /\ rd' = "answer" /\ verdict' = "cancelled"
  /\ UNCHANGED <<fixed, guestPlane, mainVars, beatVars, agentVars, ctx, pctx, late, bare>>

\* claudeDecide: the native protocols have no cancelled outcome, only deny.
NativeAnswer(v) == IF v = "allow" THEN "allow" ELSE "deny"

\* The outcome answerPermission writes: a cancelled prompt's request is
\* answered cancelled, whatever was decided.
FinalAnswer(v) ==
  IF host = "native" THEN NativeAnswer(v)
  ELSE IF ctx # "live" \/ pctx = "cancelled" THEN "cancelled" ELSE v

CheckAnswer ==
  /\ rd = "answer" /\ rd' = "write" /\ verdict' = FinalAnswer(verdict)
  /\ UNCHANGED <<fixed, guestPlane, mainVars, beatVars, agentVars, ctx, pctx, late, bare>>

WriteAnswer ==
  /\ rd = "write" /\ rd' = "read" /\ verdict' = "none" /\ guest' = "busy"
  /\ ran' = IF verdict = "allow" THEN ran \cup {asks} ELSE ran
  /\ UNCHANGED <<fixed, guestPlane, mainVars, beatVars, out, kind, asks, file, seen, ctx, pctx, late, bare>>

ReadDone ==
  /\ rd = "read" /\ out # <<>> /\ Head(out) \in {"ok", "err"} /\ out' = Tail(out)
  /\ IF res = "none" /\ pc \in {"sent", "wait", "cancelling"}
     THEN res' = Head(out) /\ pctx' = "none"
     ELSE UNCHANGED <<res, pctx>>
  /\ UNCHANGED <<fixed, guestPlane, pc, prompt, current, delivered, result, beatVars, readVars,
                 guest, kind, asks, file, seen, ran, ctx, late, bare>>

RunnerStep == \/ PrepareTurn \/ StartGuest \/ OpenSession \/ SubmitPrompt \/ PromptSubmitted \/ TakeSteer \/ SteerNext
              \/ CallCancelled \/ GiveUp \/ FinishTurn \/ CompleteTurn \/ FailTurn
BeatStep == Heartbeat \/ HeartbeatRefused \/ HandOver
ReadStep == ReadAsk \/ PollApproval \/ WaitCancelled \/ CheckAnswer \/ WriteAnswer \/ ReadDone
GuestStep == GuestAsk \/ GuestReport \/ GuestDone

GuestNext ==
  \/ PromptSteer \/ DecideApproval \/ ChangeRules \/ LoseLease \/ Deadline
  \/ RunnerStep \/ BeatStep \/ ReadStep \/ GuestStep

----------------------------------------------------------------------------
(* Properties.                                                             *)

\* The states of rows and goroutines, and at most one steer on its way to the
\* main goroutine.
GuestTypeOK ==
  /\ steerRow \in [Steers -> {"none", "open", "offered", "received", "acked", "promoted"}]
  /\ decided \in [Asks -> {"none", "open", "allow", "deny"}]
  /\ pc \in {"claimed", "starting", "opening", "submit", "sent", "wait", "cancelling", "collect", "failing", "ended"}
  /\ Len(steers) <= 1 /\ ids \subseteq Steers /\ ran \subseteq 1..asks
  /\ guest \in {"idle", "busy", "asking", "dead"}

\* No tool runs that the session's fence forbids, that the operator denied,
\* or that writes while the session never held the grant it needs, however
\* the rules change between the request, the decision and the answer.
NothingForbiddenRuns ==
  \A a \in ran :
    /\ ~Fenced(kind[a])
    /\ decided[a] # "deny"
    /\ ~(NeedsGrant(kind[a]) /\ a \in bare)

\* A request first read after its prompt was cancelled for a steer is never
\* answered with an allow, even when a rule or an operator allows it.
CancelledAsksRefused == ran \cap late = {}

\* The report a completion carries was written during the last prompt the
\* guest was given: not by an interrupted prompt and not by an earlier turn.
ReportIsLatest == result # NoPrompt => result = seen[Len(seen)]

\* The guest is given every steer at most once and in the order sent, and
\* when the turn completes a steer waits as a follow-up exactly when the
\* guest was not given it.
SteersOnce ==
  /\ \A i, j \in DOMAIN seen : i < j => seen[i] < seen[j]
  /\ lease = "completed" =>
       \A s \in Steers : steerRow[s] # "none" =>
         steerRow[s] = (IF s \in Range1(seen) THEN "acked" ELSE "promoted")

\* A lease that is gone stops the guest, even while a permission request
\* waits for an operator who never answers.
LostLeaseStopsGuest == (lease = "ended" /\ host # "process") ~> (guest = "dead")

\* A steer the runner received reaches the guest or the turn ends: a prompt
\* that waits for an approval does not hold the steer up.
SteerReaches ==
  \A s \in Steers :
    (host = "acp" /\ steerRow[s] = "received") ~> (s \in Range1(seen) \/ pc = "ended")

\* The runner's three goroutines go on.  Of the guest only this much is
\* assumed: it ends a prompt it was told to cancel.
CancelledDone == pctx = "cancelled" /\ GuestDone
GuestFairness ==
  WF_guestVars(RunnerStep) /\ WF_guestVars(Heartbeat) /\ WF_guestVars(HeartbeatRefused)
  /\ WF_guestVars(HandOver) /\ WF_guestVars(ReadStep) /\ WF_guestVars(CancelledDone)
=============================================================================
