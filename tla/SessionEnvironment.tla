-------------------------- MODULE SessionEnvironment --------------------------
(***************************************************************************)
(* The container environment of one session: its rows in the environments  *)
(* table, the guest each row's handle names, and everything that provisions,*)
(* replaces, sleeps, wakes or stops that guest                              *)
(* (internal/engine/environment.go, cancel.go, halt.go, archive.go and      *)
(* internal/store/environment.go).                                          *)
(*                                                                          *)
(* Driver calls take long and hold no transaction, so every handler is cut  *)
(* at its reads and writes of the store and at its driver calls.  A handler *)
(* keeps the row it read and saves that row whole (UpdateEnvironment).      *)
(* envOperations is the in-memory set of environments under an operation.   *)
(*                                                                          *)
(* The turn is reduced to whether it is queued and which claim holds its    *)
(* lease: how a lease ends and what the turn does next is TurnLease's       *)
(* subject, and both outcomes are possible here.  A pin stands for the      *)
(* source hash of image and commit.  A container is known by its name,      *)
(* which the runtime keeps unique: <<0, 0>> for the session's first         *)
(* environment, <<id, pin>> for the replacement of environment id after the *)
(* source changed, <<id, 0>> for its replacement once expired.              *)
(***************************************************************************)
EXTENDS Naturals, Sequences, FiniteSets

CONSTANTS MaxClaims,    \* leases granted
          MaxEnvs,      \* rows of the environments table
          MaxPin,       \* commits the source goes through
          Disturbances, \* what this instance does besides claims
          MaxDisturbances

Kinds == {"sleep", "archive", "wake", "cancel", "halt", "grant", "restart"}

ASSUME EnvironmentAssumption == /\ MaxClaims \in Nat \ {0}
                                /\ MaxEnvs \in Nat \ {0}
                                /\ MaxPin \in Nat \ {0}
                                /\ Disturbances \subseteq Kinds
                                /\ MaxDisturbances \in Nat \ {0}

VARIABLES
  rows,      \* the environments table, by id
  sess,      \* sessions.environment_id
  replaced,  \* the replace receipts: <<old id, new id>>
  archived,  \* sessions.archived
  turn,      \* the session's turn and the commit its next claim gets
  grants,    \* environments with a live terminal lease or preview grant
  guest,     \* what the container runtime has under each name
  harness,   \* the guest each claim's harness runs in
  busy,      \* envOperations
  claim,     \* EnsureSessionEnvironment, for each claim
  sleeper,   \* the idle sweep or ArchiveSession
  waker,     \* WakeSessionEnvironment
  stopper,   \* cancelOneSession or applyHalt
  claims,    \* claims so far
  disturbed, \* disturbances so far
  lost,      \* history: rows saved over a change made since they were read
  torn,      \* history: rows a restart left naming a destroyed guest
  leaked     \* history: guests a restart, a failed start or destroy cut loose

store == <<rows, sess, replaced, archived, turn, grants>>
procs == <<claim, sleeper, waker, stopper>>
counts == <<claims, disturbed>>
history == <<lost, torn, leaked>>
vars == <<store, guest, harness, busy, procs, counts, history>>

Claims == 1..MaxClaims
Envs == 1..MaxEnvs
Pins == 1..MaxPin
Names == (0..MaxEnvs) \X (0..MaxPin)
NoName == <<>>

Row == [name : Names, state : {"ready", "sleeping", "expired"},
        handle : BOOLEAN, hash : 0..MaxPin]
NewRow(name, pin) == [name |-> name, state |-> "ready", handle |-> pin # 0,
                      hash |-> pin]

Unread == NewRow(<<0, 0>>, 0)
Expired(r) == [r EXCEPT !.state = "expired", !.handle = FALSE]
Ready(r) == [r EXCEPT !.state = "ready"]

WakeSteps == {"wakeRead", "wakeGuest", "wakeSave"}
ClaimSteps == WakeSteps \cup
  {"idle", "ensure", "touch", "destroy", "expire", "provision", "insert",
   "replace", "undo", "create", "prepare", "wake", "busy", "fail", "granted",
   "sent"}
SleepSteps == {"idle", "failTurns", "revoke", "begin", "reserve", "reread", "stop",
               "save", "restore"}
StopSteps == {"idle", "wait", "reread", "commit", "check", "guest", "kill", "release"}

Process(steps) == [pc : steps, env : 0..MaxEnvs, row : Row]
At(pc, e, r) == [pc |-> pc, env |-> e, row |-> r]
Idle == At("idle", 0, Unread)

ClaimType == [pc : ClaimSteps, env : 0..MaxEnvs, row : Row, pin : 0..MaxPin,
              tag : 0..MaxPin, new : 0..MaxEnvs]
NoClaim == [pc |-> "idle", env |-> 0, row |-> Unread, pin |-> 0, tag |-> 0,
            new |-> 0]
StopType == [pc : StopSteps, env : 0..MaxEnvs, row : Row, halt : BOOLEAN,
             held : BOOLEAN]
NoStop == [pc |-> "idle", env |-> 0, row |-> Unread, halt |-> FALSE, held |-> FALSE]

TypeOK ==
  /\ rows \in Seq(Row) /\ Len(rows) \in Envs /\ sess \in DOMAIN rows
  /\ replaced \subseteq Envs \X Envs /\ archived \in BOOLEAN
  /\ turn \in [queued : BOOLEAN, lease : 0..MaxClaims, pin : Pins]
  /\ grants \subseteq Envs /\ busy \subseteq Envs
  /\ guest \in [Names -> {"none", "up", "down"}]
  /\ harness \in [Claims -> Names \cup {NoName}]
  /\ claim \in [Claims -> ClaimType]
  /\ sleeper \in Process(SleepSteps)
  /\ waker \in Process(WakeSteps \cup {"idle"})
  /\ stopper \in StopType
  /\ claims \in 0..MaxClaims /\ disturbed \in 0..MaxDisturbances
  /\ lost \subseteq Envs /\ torn \subseteq Envs /\ leaked \subseteq Names

\* A session with a fresh row, or with the guest of an earlier turn, which counts as
\* one disturbance.
Init ==
  /\ \E pin \in {0, 1} :
       /\ rows = <<NewRow(<<0, 0>>, pin)>>
       /\ guest = [n \in Names |-> IF n = <<0, 0>> /\ pin = 1 THEN "up" ELSE "none"]
       /\ disturbed = pin
  /\ sess = 1 /\ replaced = {} /\ archived = FALSE
  /\ turn = [queued |-> TRUE, lease |-> 0, pin |-> 1]
  /\ grants = {} /\ busy = {}
  /\ harness = [g \in Claims |-> NoName]
  /\ claim = [g \in Claims |-> NoClaim]
  /\ sleeper = Idle /\ waker = Idle /\ stopper = NoStop
  /\ claims = 0
  /\ lost = {} /\ torn = {} /\ leaked = {}

-----------------------------------------------------------------------------
(* The store and the runtime.                                              *)

\* UpdateEnvironment writes the whole row and asks nothing of the one there.
UpdateEnvironment(e, read, row) ==
  /\ rows' = [rows EXCEPT ![e] = row]
  /\ lost' = IF rows[e] = read THEN lost ELSE lost \cup {e}

Begin(e) == e \notin busy /\ busy' = busy \cup {e}
Release(e) == busy' = busy \ {e}

\* Destroy, its error dropped by every caller: the guest may survive it.
Destroy(n) ==
  \/ guest' = [guest EXCEPT ![n] = "none"] /\ leaked' = leaked \ {n}
  \/ guest[n] # "none" /\ leaked' = leaked \cup {n} /\ UNCHANGED guest

\* The handlers beside the claim start from a common budget.
Disturb(kind) == /\ kind \in Disturbances
                 /\ disturbed < MaxDisturbances
                 /\ disturbed' = disturbed + 1

EndLease(queued) == turn' = [turn EXCEPT !.lease = 0, !.queued = queued]

-----------------------------------------------------------------------------
(* The turn.                                                               *)

Prompt == /\ ~archived /\ turn.lease = 0 /\ ~turn.queued
          /\ turn' = [turn EXCEPT !.queued = TRUE]
          /\ UNCHANGED <<rows, sess, replaced, archived, grants, guest, harness, busy, procs,
                         counts, history>>

\* The source moves on; the next claim's snapshot pins the new commit.
Push == /\ turn.pin < MaxPin
        /\ turn' = [turn EXCEPT !.pin = @ + 1]
        /\ UNCHANGED <<rows, sess, replaced, archived, grants, guest, harness, busy, procs,
                       counts, history>>

\* Mutant: Claim does not ask whether the environment is under an operation.
Claim_Unchecked ==
  /\ claims < MaxClaims /\ turn.queued /\ ~archived
  /\ claims' = claims + 1
  /\ turn' = [turn EXCEPT !.queued = FALSE, !.lease = claims']
  /\ claim' = [claim EXCEPT ![claims'] = [NoClaim EXCEPT !.pc = "ensure",
                                                         !.pin = turn.pin]]
  /\ UNCHANGED <<rows, sess, replaced, archived, grants, guest, harness, busy, sleeper, waker,
                 stopper, disturbed, history>>

\* Claim leases the queued turn unless its environment is under an operation.
Claim ==
  /\ claims < MaxClaims /\ turn.queued /\ ~archived /\ sess \notin busy
  /\ claims' = claims + 1
  /\ turn' = [turn EXCEPT !.queued = FALSE, !.lease = claims']
  /\ claim' = [claim EXCEPT ![claims'] = [NoClaim EXCEPT !.pc = "ensure",
                                                         !.pin = turn.pin]]
  /\ UNCHANGED <<rows, sess, replaced, archived, grants, guest, harness, busy, sleeper, waker,
                 stopper, disturbed, history>>

\* Expiry, completion or failure of the lease, whatever its claim is doing.
LeaseEnds ==
  /\ turn.lease # 0
  /\ \E queued \in BOOLEAN : EndLease(queued)
  /\ UNCHANGED <<rows, sess, replaced, archived, grants, guest, harness, busy, procs, counts,
                 history>>

-----------------------------------------------------------------------------
(* EnsureSessionEnvironment, run by the claim after its transaction.       *)

Goto(g, pc) == claim' = [claim EXCEPT ![g].pc = pc]
Return(g, pc) == claim' = [claim EXCEPT ![g] = [NoClaim EXCEPT !.pc = pc]]

\* The read of session and row, and the branch taken on them.
Ensure(g) ==
  /\ claim[g].pc = "ensure"
  /\ LET r == rows[sess]
         usable == r.handle /\ r.hash = claim[g].pin
         next == CASE archived -> "fail"
                   [] ~archived /\ usable /\ r.state = "sleeping" -> "wake"
                   [] ~archived /\ usable /\ r.state = "ready" -> "touch"
                   [] ~archived /\ usable /\ r.state = "expired" -> "fail"
                   [] ~archived /\ r.handle /\ ~usable -> "destroy"
                   [] ~archived /\ ~r.handle /\ r.state = "expired" -> "provision"
                   [] OTHER -> "create"
         kept == IF next \in {"touch", "destroy", "create"} THEN r ELSE Unread
     IN claim' = [claim EXCEPT ![g].pc = next, ![g].env = sess, ![g].row = kept]
  /\ UNCHANGED <<store, guest, harness, busy, sleeper, waker, stopper, counts, history>>

\* A ready environment of the right source: inject secrets, extend its expiry.
Touch(g) ==
  /\ claim[g].pc = "touch"
  /\ \/ /\ UpdateEnvironment(claim[g].env, claim[g].row, claim[g].row)
        /\ Return(g, "granted")
     \/ Return(g, "fail") /\ UNCHANGED <<rows, lost>>
  /\ UNCHANGED <<sess, replaced, archived, turn, grants, guest, harness, busy, sleeper, waker,
                 stopper, counts, torn, leaked>>

\* The source changed: the old guest goes, its row expires, a new one is made.
DestroyOld(g) ==
  /\ claim[g].pc = "destroy"
  /\ Destroy(claim[g].row.name)
  /\ Goto(g, "expire")
  /\ UNCHANGED <<store, harness, busy, sleeper, waker, stopper, counts, lost, torn>>

ExpireOld(g) ==
  /\ claim[g].pc = "expire"
  /\ UpdateEnvironment(claim[g].env, claim[g].row, Expired(claim[g].row))
  /\ claim' = [claim EXCEPT ![g].pc = "provision", ![g].tag = claim[g].pin,
                             ![g].row = Unread]
  /\ UNCHANGED <<sess, replaced, archived, turn, grants, guest, harness, busy, sleeper, waker,
                 stopper, counts, torn, leaked>>

Replacement(g) == <<claim[g].env, claim[g].tag>>

\* CreateSpec: the runtime refuses a name in use.  A start that fails half way leaves
\* a guest no caller learns of: created and not started, its id not in the output,
\* or without a workspace and not removed (CreateAndStart).
CreateGuest(g, name, next) ==
  \/ /\ guest[name] = "none"
     /\ guest' = [guest EXCEPT ![name] = "up"]
     /\ Goto(g, next) /\ UNCHANGED leaked
  \/ /\ guest[name] = "none"
     /\ \E s \in {"up", "down"} : guest' = [guest EXCEPT ![name] = s]
     /\ leaked' = leaked \cup {name}
     /\ Return(g, "fail")
  \/ Return(g, "fail") /\ UNCHANGED <<guest, leaked>>

Provision(g) ==
  /\ claim[g].pc = "provision"
  /\ CreateGuest(g, Replacement(g), "insert")
  /\ UNCHANGED <<store, harness, busy, sleeper, waker, stopper, counts, lost, torn>>

\* Workspace, services and the new row; a failure, or a row with this name,
\* destroys the guest again.
InsertEnvironment(g) ==
  /\ claim[g].pc = "insert"
  /\ \/ /\ Len(rows) < MaxEnvs
        /\ \A e \in DOMAIN rows : rows[e].name # Replacement(g)
        /\ rows' = Append(rows, NewRow(Replacement(g), claim[g].pin))
        /\ claim' = [claim EXCEPT ![g].pc = "replace", ![g].new = Len(rows) + 1]
        /\ UNCHANGED <<guest, leaked>>
     \/ Destroy(Replacement(g)) /\ Return(g, "fail") /\ UNCHANGED rows
  /\ UNCHANGED <<sess, replaced, archived, turn, grants, harness, busy, sleeper, waker, stopper,
                 counts, lost, torn>>

\* Mutant: the guest of the losing replacement is left running.
ReplaceSessionEnvironment_Kept(g) ==
  /\ claim[g].pc = "replace"
  /\ \/ /\ sess = claim[g].env
        /\ sess' = claim[g].new
        /\ replaced' = replaced \cup {<<sess, sess'>>}
        /\ \E next \in {"granted", "fail"} : Return(g, next)
     \/ /\ sess # claim[g].env
        /\ Goto(g, "undo")
        /\ UNCHANGED <<sess, replaced>>
  /\ UNCHANGED <<rows, archived, turn, grants, guest, harness, busy, sleeper, waker,
                 stopper, counts, history>>

\* The session moves if it still names the old environment; otherwise another
\* replacement won and this guest is destroyed.
ReplaceSessionEnvironment(g) ==
  /\ claim[g].pc = "replace"
  /\ \/ /\ sess = claim[g].env
        /\ sess' = claim[g].new
        /\ replaced' = replaced \cup {<<sess, sess'>>}
        /\ \E next \in {"granted", "fail"} : Return(g, next)
        /\ UNCHANGED <<guest, leaked>>
     \/ /\ sess # claim[g].env
        /\ Destroy(Replacement(g))
        /\ Goto(g, "undo")
        /\ UNCHANGED <<sess, replaced>>
  /\ UNCHANGED <<rows, archived, turn, grants, harness, busy, sleeper, waker, stopper,
                 counts, lost, torn>>

ExpireLoser(g) ==
  /\ claim[g].pc = "undo"
  /\ LET made == NewRow(Replacement(g), claim[g].pin)
     IN UpdateEnvironment(claim[g].new, made, Expired(made))
  /\ Return(g, "fail")
  /\ UNCHANGED <<sess, replaced, archived, turn, grants, guest, harness, busy, sleeper, waker,
                 stopper, counts, torn, leaked>>

\* The first guest of a fresh row.
Create(g) ==
  /\ claim[g].pc = "create"
  /\ CreateGuest(g, claim[g].row.name, "prepare")
  /\ UNCHANGED <<store, harness, busy, sleeper, waker, stopper, counts, lost, torn>>

Prepare(g) ==
  /\ claim[g].pc = "prepare"
  /\ \/ /\ UpdateEnvironment(claim[g].env, claim[g].row,
                             NewRow(claim[g].row.name, claim[g].pin))
        /\ Return(g, "granted")
        /\ UNCHANGED <<guest, leaked>>
     \/ Destroy(claim[g].row.name) /\ Return(g, "fail") /\ UNCHANGED <<rows, lost>>
  /\ UNCHANGED <<sess, replaced, archived, turn, grants, harness, busy, sleeper, waker, stopper,
                 counts, torn>>

\* A busy environment puts the claim's turn back, any other error fails it; both
\* only while the claim still holds the lease.
GiveUp(g) ==
  /\ claim[g].pc \in {"busy", "fail"}
  /\ IF turn.lease = g
     THEN \E queued \in BOOLEAN : /\ claim[g].pc = "busy" => queued
                                  /\ EndLease(queued)
     ELSE UNCHANGED turn
  /\ Return(g, "idle")
  /\ UNCHANGED <<rows, sess, replaced, archived, grants, guest, harness, busy, sleeper, waker,
                 stopper, counts, history>>

-----------------------------------------------------------------------------
(* The runner: the claim's response names the handle the harness execs in. *)

Respond(g) ==
  /\ claim[g].pc = "granted"
  /\ claim' = [claim EXCEPT ![g].pc = "sent", ![g].row = rows[sess]]
  /\ UNCHANGED <<store, guest, harness, busy, sleeper, waker, stopper, counts, history>>

StartHarness(g) ==
  /\ claim[g].pc = "sent"
  /\ LET r == claim[g].row
     IN harness' = [harness EXCEPT ![g] =
                      IF r.handle /\ guest[r.name] = "up" THEN r.name ELSE NoName]
  /\ Return(g, "idle")
  /\ UNCHANGED <<store, guest, busy, sleeper, waker, stopper, counts, history>>

EndHarness(g) ==
  /\ harness[g] # NoName
  /\ harness' = [harness EXCEPT ![g] = NoName]
  /\ UNCHANGED <<store, guest, busy, procs, counts, history>>

-----------------------------------------------------------------------------
(* wakeEnvironment, called by a claim and by an operator's action.  It ends  *)
(* with the operation released: go on to the next step, or stop.             *)

WakeRead(e, go, stop) ==
  \/ rows[e].state = "sleeping" /\ go /\ UNCHANGED busy
  \/ rows[e].state # "sleeping" /\ stop /\ Release(e)

\* Wake, the resume script and the services.  A failure is rolled back by
\* stopping the guest, and that may fail too.
WakeGuest(e, n, go, stop) ==
  \/ /\ guest[n] # "none"
     /\ guest' = [guest EXCEPT ![n] = "up"]
     /\ go /\ UNCHANGED busy
  \/ /\ \E s \in {"up", "down"} :
          guest' = [guest EXCEPT ![n] = IF @ = "none" THEN @ ELSE s]
     /\ stop /\ Release(e)

ClaimWakeBegins(g) ==
  /\ claim[g].pc = "wake"
  /\ \/ Begin(claim[g].env) /\ Goto(g, "wakeRead")
     \/ claim[g].env \in busy /\ Return(g, "busy") /\ UNCHANGED busy
  /\ UNCHANGED <<store, guest, harness, sleeper, waker, stopper, counts, history>>

ClaimWakeReads(g) ==
  /\ claim[g].pc = "wakeRead"
  /\ WakeRead(claim[g].env,
              claim' = [claim EXCEPT ![g].pc = "wakeGuest",
                                     ![g].row = rows[claim[g].env]],
              Return(g, "fail"))
  /\ UNCHANGED <<store, guest, harness, sleeper, waker, stopper, counts, history>>

ClaimWakesGuest(g) ==
  /\ claim[g].pc = "wakeGuest"
  /\ WakeGuest(claim[g].env, claim[g].row.name, Goto(g, "wakeSave"), Return(g, "fail"))
  /\ UNCHANGED <<store, harness, sleeper, waker, stopper, counts, history>>

ClaimWakeSaves(g) ==
  /\ claim[g].pc = "wakeSave"
  /\ UpdateEnvironment(claim[g].env, claim[g].row, Ready(claim[g].row))
  /\ Return(g, "granted") /\ Release(claim[g].env)
  /\ UNCHANGED <<sess, replaced, archived, turn, grants, guest, harness, sleeper, waker, stopper,
                 counts, torn, leaked>>

\* WakeSessionEnvironment: only a sleeping environment, and only once it is free.
WakeBegins ==
  /\ waker = Idle
  /\ Disturb("wake")
  /\ ~archived /\ rows[sess].state = "sleeping" /\ rows[sess].handle
  /\ Begin(sess)
  /\ waker' = At("wakeRead", sess, Unread)
  /\ UNCHANGED <<store, guest, harness, claim, sleeper, stopper, claims, history>>

WakeReads ==
  /\ waker.pc = "wakeRead"
  /\ WakeRead(waker.env, waker' = At("wakeGuest", waker.env, rows[waker.env]),
              waker' = Idle)
  /\ UNCHANGED <<store, guest, harness, claim, sleeper, stopper, counts, history>>

WakesGuest ==
  /\ waker.pc = "wakeGuest"
  /\ WakeGuest(waker.env, waker.row.name, waker' = [waker EXCEPT !.pc = "wakeSave"],
               waker' = Idle)
  /\ UNCHANGED <<store, harness, claim, sleeper, stopper, counts, history>>

WakeSaves ==
  /\ waker.pc = "wakeSave"
  /\ UpdateEnvironment(waker.env, waker.row, Ready(waker.row))
  /\ waker' = Idle /\ Release(waker.env)
  /\ UNCHANGED <<sess, replaced, archived, turn, grants, guest, harness, claim, sleeper, stopper,
                 counts, torn, leaked>>

\* consoleTermLease and the preview mint, after their wake: the guest answers, and
\* the row is ready in the statement that stores the lease or the grant.
Grant ==
  /\ Disturb("grant")
  /\ ~archived /\ rows[sess].state = "ready" /\ rows[sess].handle
  /\ guest[rows[sess].name] = "up"
  /\ grants' = grants \cup {sess}
  /\ UNCHANGED <<rows, sess, replaced, archived, turn, guest, harness, busy, procs, claims,
                 history>>

GrantEnds(e) ==
  /\ e \in grants
  /\ grants' = grants \ {e}
  /\ UNCHANGED <<rows, sess, replaced, archived, turn, guest, harness, busy, procs, counts,
                 history>>

-----------------------------------------------------------------------------
(* Sleep: the idle sweep, and ArchiveSession, which ends in one.           *)

\* Rows are idle EnvIdleSleep (minutes) after their last use, so not yet in the few
\* statements between a row's insertion and its session's move to it.
IdleLong(e) == \A g \in Claims : claim[g].new = e => claim[g].pc # "replace"

SleepIdleEnvironment(e) ==
  /\ sleeper = Idle
  /\ Disturb("sleep")
  /\ rows[e].state = "ready" /\ rows[e].handle /\ IdleLong(e)
  /\ Begin(e)
  /\ sleeper' = At("reserve", e, Unread)
  /\ UNCHANGED <<store, guest, harness, claim, waker, stopper, claims, history>>

\* ArchiveSession: the flag, the turns, the leases and grants, then the sleep.
ArchiveSession ==
  /\ sleeper = Idle
  /\ Disturb("archive")
  /\ archived' = TRUE
  /\ sleeper' = At("failTurns", sess, Unread)
  /\ UNCHANGED <<rows, sess, replaced, turn, grants, guest, harness, busy, claim, waker, stopper,
                 claims, history>>

FailArchivedTurns ==
  /\ sleeper.pc = "failTurns"
  /\ EndLease(FALSE)
  /\ sleeper' = [sleeper EXCEPT !.pc = "revoke"]
  /\ UNCHANGED <<rows, sess, replaced, archived, grants, guest, harness, busy, claim, waker,
                 stopper, counts, history>>

ArchiveRevokes ==
  /\ sleeper.pc = "revoke"
  /\ LET r == rows[sleeper.env]
     IN IF r.handle /\ r.state = "ready"
        THEN /\ grants' = grants \ {sleeper.env}
             /\ sleeper' = [sleeper EXCEPT !.pc = "begin"]
        ELSE sleeper' = Idle /\ UNCHANGED grants
  /\ UNCHANGED <<rows, sess, replaced, archived, turn, guest, harness, busy, claim, waker,
                 stopper, counts, history>>

SleepEnvironment ==
  /\ sleeper.pc = "begin"
  /\ \/ /\ rows[sleeper.env].state = "ready"
        /\ Begin(sleeper.env)
        /\ sleeper' = [sleeper EXCEPT !.pc = "reserve"]
     \/ /\ rows[sleeper.env].state # "ready" \/ sleeper.env \in busy
        /\ sleeper' = Idle /\ UNCHANGED busy
  /\ UNCHANGED <<store, guest, harness, claim, waker, stopper, counts, history>>

UnarchiveSession ==
  /\ archived /\ archived' = FALSE
  /\ UNCHANGED <<rows, sess, replaced, turn, grants, guest, harness, busy, procs, counts, history>>

\* Work or access that keeps environment e awake.
InUse(e) == (sess = e /\ (turn.queued \/ turn.lease # 0)) \/ e \in grants

ReserveSleep ==
  /\ sleeper.pc = "reserve"
  /\ LET e == sleeper.env
     IN IF rows[e].state = "ready" /\ ~InUse(e)
        THEN /\ rows' = [rows EXCEPT ![e].state = "sleeping"]
             /\ sleeper' = [sleeper EXCEPT !.pc = "reread"]
             /\ UNCHANGED busy
        ELSE sleeper' = Idle /\ Release(e) /\ UNCHANGED rows
  /\ UNCHANGED <<sess, replaced, archived, turn, grants, guest, harness, claim, waker, stopper,
                 counts, history>>

RereadSleep ==
  /\ sleeper.pc = "reread"
  /\ IF rows[sleeper.env].state = "sleeping"
     THEN sleeper' = At("stop", sleeper.env, rows[sleeper.env]) /\ UNCHANGED busy
     ELSE sleeper' = Idle /\ Release(sleeper.env)
  /\ UNCHANGED <<store, guest, harness, claim, waker, stopper, counts, history>>

\* Mutant: a failed sleep is taken back although its recovery failed too.
StopGuest_Restored ==
  /\ sleeper.pc = "stop"
  /\ LET n == sleeper.row.name
         left(s) == guest' = [guest EXCEPT ![n] = IF @ = "none" THEN @ ELSE s]
     IN \/ /\ guest[n] # "none" /\ left("down")
           /\ sleeper' = [sleeper EXCEPT !.pc = "save"]
        \/ /\ \E s \in {"up", "down"} : left(s)
           /\ sleeper' = [sleeper EXCEPT !.pc = "restore"]
  /\ UNCHANGED <<store, harness, busy, claim, waker, stopper, counts, history>>

\* Services, secrets and the guest are stopped in turn.  After a failure the guest
\* is brought back; when that fails too the row stays as reserved.
StopGuest ==
  /\ sleeper.pc = "stop"
  /\ LET n == sleeper.row.name
         left(s) == guest' = [guest EXCEPT ![n] = IF @ = "none" THEN @ ELSE s]
     IN \/ /\ guest[n] # "none" /\ left("down")
           /\ sleeper' = [sleeper EXCEPT !.pc = "save"] /\ UNCHANGED busy
        \/ /\ UNCHANGED guest \/ left("up")
           /\ sleeper' = [sleeper EXCEPT !.pc = "restore"] /\ UNCHANGED busy
        \/ /\ \E s \in {"up", "down"} : left(s)
           /\ sleeper' = Idle /\ Release(sleeper.env)
  /\ UNCHANGED <<store, harness, claim, waker, stopper, counts, history>>

SaveSleep ==
  /\ sleeper.pc = "save"
  /\ UpdateEnvironment(sleeper.env, sleeper.row, sleeper.row)
  /\ sleeper' = Idle /\ Release(sleeper.env)
  /\ UNCHANGED <<sess, replaced, archived, turn, grants, guest, harness, claim, waker, stopper,
                 counts, torn, leaked>>

RestoreEnvironmentReady ==
  /\ sleeper.pc = "restore"
  /\ rows' = [rows EXCEPT ![sleeper.env].state = IF @ = "sleeping" THEN "ready" ELSE @]
  /\ sleeper' = Idle /\ Release(sleeper.env)
  /\ UNCHANGED <<sess, replaced, archived, turn, grants, guest, harness, claim, waker, stopper,
                 counts, history>>

-----------------------------------------------------------------------------
(* cancelOneSession and applyHalt hold the operation across the commit and   *)
(* the kill.                                                                 *)

\* A halt passes over an archived session, here and at its commit
\* (ListOpenSessionIDsForHaltTx).
StopBegins(halt) ==
  /\ stopper = NoStop
  /\ Disturb(IF halt THEN "halt" ELSE "cancel")
  /\ stopper' = [pc |-> IF rows[sess].handle /\ ~(halt /\ archived) THEN "wait"
                        ELSE "commit",
                 env |-> sess, row |-> Unread, halt |-> halt, held |-> FALSE]
  /\ UNCHANGED <<store, guest, harness, busy, claim, sleeper, waker, claims, history>>

\* waitEnvironmentOperation: taken, or given up after the wait.
StopWaits ==
  /\ stopper.pc = "wait"
  /\ \/ /\ Begin(stopper.env)
        /\ stopper' = [stopper EXCEPT !.held = TRUE,
                                      !.pc = IF stopper.halt THEN "commit" ELSE "reread"]
     \/ /\ stopper.env \in busy
        /\ stopper' = [stopper EXCEPT !.pc = "commit"] /\ UNCHANGED busy
  /\ UNCHANGED <<store, guest, harness, claim, sleeper, waker, counts, history>>

\* What a cancel kills is read before its commit, since the wait may have been long.
StopRereads ==
  /\ stopper.pc = "reread"
  /\ stopper' = [stopper EXCEPT !.row = rows[stopper.env], !.pc = "commit"]
  /\ UNCHANGED <<store, guest, harness, busy, claim, sleeper, waker, counts, history>>

\* The turn a halt fences.
Fenced == turn.lease # 0 /\ ~archived

\* A cancel ends the lease or drops the queued turn, unless a follow-up is owed; a
\* halt puts a leased turn back in the queue.
StopCommits ==
  /\ stopper.pc = "commit"
  /\ \/ /\ ~stopper.halt /\ (turn.lease # 0 \/ turn.queued)
        /\ \E queued \in BOOLEAN : EndLease(queued)
     \/ ~stopper.halt /\ turn.lease = 0 /\ ~turn.queued /\ UNCHANGED turn
     \/ stopper.halt /\ Fenced /\ EndLease(TRUE)
     \/ stopper.halt /\ ~Fenced /\ UNCHANGED turn
  /\ stopper' = CASE ~stopper.held -> NoStop
                  [] stopper.held /\ ~stopper.halt -> [stopper EXCEPT !.pc = "kill"]
                  [] stopper.held /\ stopper.halt ->
                       [stopper EXCEPT !.pc = IF Fenced THEN "check" ELSE "release"]
  /\ UNCHANGED <<rows, sess, replaced, archived, grants, guest, harness, busy, claim, sleeper,
                 waker, counts, history>>

\* What a halt kills is read after its commit, the session twice: once to see that
\* its environment is held, and once more by haltGuest.
HaltChecks ==
  /\ stopper.pc = "check"
  /\ stopper' = [stopper EXCEPT !.pc = IF sess = stopper.env THEN "guest" ELSE "release"]
  /\ UNCHANGED <<store, guest, harness, busy, claim, sleeper, waker, counts, history>>

HaltGuest ==
  /\ stopper.pc = "guest"
  /\ stopper' = [stopper EXCEPT !.row = rows[sess], !.pc = "kill"]
  /\ UNCHANGED <<store, guest, harness, busy, claim, sleeper, waker, counts, history>>

\* KillGuest ends every process in the guest, if the row says one can run there and
\* the call does not fail.
KillGuest ==
  /\ stopper.pc = "kill"
  /\ \/ /\ stopper.row.handle /\ stopper.row.state = "ready"
        /\ harness' = [g \in Claims |-> IF harness[g] = stopper.row.name THEN NoName
                                        ELSE harness[g]]
     \/ UNCHANGED harness
  /\ stopper' = [stopper EXCEPT !.pc = "release", !.row = Unread]
  /\ UNCHANGED <<store, guest, busy, claim, sleeper, waker, counts, history>>

StopEnds ==
  /\ stopper.pc = "release"
  /\ Release(stopper.env) /\ stopper' = NoStop
  /\ UNCHANGED <<store, guest, harness, claim, sleeper, waker, counts, history>>

-----------------------------------------------------------------------------
(* A restart forgets every handler and envOperations; the store, the guests  *)
(* and what a runner was already sent stay.                                  *)

At_(pc) == {g \in Claims : claim[g].pc = pc}

Restart ==
  /\ Disturb("restart")
  /\ busy' = {}
  /\ claim' = [g \in Claims |-> IF claim[g].pc = "sent" THEN claim[g] ELSE NoClaim]
  /\ sleeper' = Idle /\ waker' = Idle /\ stopper' = NoStop
  /\ torn' = torn \cup {claim[g].env : g \in At_("expire")}
                  \cup {claim[g].new : g \in At_("undo")}
  /\ leaked' = leaked \cup {Replacement(g) : g \in At_("insert")}
                      \cup {claim[g].row.name : g \in At_("prepare")}
  /\ UNCHANGED <<store, guest, harness, claims, lost>>

Next ==
  \/ Prompt \/ Push \/ Claim \/ LeaseEnds
  \/ \E g \in Claims : \/ Ensure(g) \/ Touch(g) \/ DestroyOld(g) \/ ExpireOld(g)
                       \/ Provision(g) \/ InsertEnvironment(g)
                       \/ ReplaceSessionEnvironment(g) \/ ExpireLoser(g)
                       \/ Create(g) \/ Prepare(g) \/ GiveUp(g)
                       \/ ClaimWakeBegins(g) \/ ClaimWakeReads(g)
                       \/ ClaimWakesGuest(g) \/ ClaimWakeSaves(g)
                       \/ Respond(g) \/ StartHarness(g) \/ EndHarness(g)
  \/ WakeBegins \/ WakeReads \/ WakesGuest \/ WakeSaves
  \/ Grant \/ \E e \in grants : GrantEnds(e)
  \/ \E e \in DOMAIN rows : SleepIdleEnvironment(e)
  \/ ArchiveSession \/ FailArchivedTurns \/ ArchiveRevokes \/ SleepEnvironment
  \/ UnarchiveSession
  \/ ReserveSleep \/ RereadSleep \/ StopGuest \/ SaveSleep \/ RestoreEnvironmentReady
  \/ \E halt \in BOOLEAN : StopBegins(halt)
  \/ StopWaits \/ StopRereads \/ StopCommits \/ HaltChecks \/ HaltGuest \/ KillGuest \/ StopEnds
  \/ Restart

Spec == Init /\ [][Next]_vars

-----------------------------------------------------------------------------
(* Properties.                                                             *)

\* Claims past the destruction of a row's guest and short of its expiry.
Destroying(e) == \/ \E g \in At_("expire") : claim[g].env = e
                 \/ \E g \in At_("undo") : claim[g].new = e

\* A row that says ready names a guest that runs, through failed sleeps, failed
\* wakes and restarts, unless a stale save (lost) or a restart in the middle of a
\* replacement (torn) got in between.  Claims and grants go by the row alone.
RowTellsGuest ==
  \A e \in DOMAIN rows :
    rows[e].state = "ready" /\ rows[e].handle /\ e \notin lost \cup torn
      => guest[rows[e].name] = "up" \/ Destroying(e)

\* No guest is left running unowned: a row names it or a claim is about to save or
\* destroy it, whichever of two replacements wins.  Exempt (leaked) are guests whose
\* destroy failed, guests whose start failed half way, and guests a restart caught
\* before their row was written.
GuestsOwned ==
  \A n \in Names : guest[n] # "none" =>
    \/ \E e \in DOMAIN rows : rows[e].name = n /\ (rows[e].handle \/ e \in lost)
    \/ \E g \in At_("insert") : Replacement(g) = n
    \/ \E g \in At_("prepare") : claim[g].row.name = n
    \/ n \in leaked

\* Neither the kill of a cancel or a halt nor a sleep ever hits the guest in which
\* the harness of the live lease runs: the turn a cancel requeues cannot be claimed
\* before the kill, nor a prompt that arrives during a sleep before its end.  Exempt
\* are a sleep from a stale row, and a halt whose session moved to an environment it
\* does not hold between its two reads.
HarnessIn(n) == turn.lease # 0 /\ harness[turn.lease] = n
StopSparesLease ==
  /\ stopper.pc = "kill" /\ stopper.row.name = rows[stopper.env].name
       => ~HarnessIn(stopper.row.name)
  /\ sleeper.pc = "stop" /\ sleeper.env \notin lost => ~HarnessIn(sleeper.row.name)

\* Every environment marked as under an operation has one handler that will release
\* it: a marker left behind would keep the session from being claimed until restart.
Holders(e) ==
  {<<"claim", g>> : g \in {h \in Claims : claim[h].pc \in WakeSteps /\ claim[h].env = e}}
  \cup {<<"sleep", 0>> : x \in {s \in {sleeper} :
          s.pc \in {"reserve", "reread", "stop", "save", "restore"} /\ s.env = e}}
  \cup {<<"wake", 0>> : x \in {w \in {waker} : w.pc # "idle" /\ w.env = e}}
  \cup {<<"stop", 0>> : x \in {s \in {stopper} : s.held /\ s.env = e}}

OneHolder == \A e \in Envs : Cardinality(Holders(e)) = IF e \in busy THEN 1 ELSE 0

\* Every environment a session used stays attributable: each is replaced once, and
\* the receipts lead from the first to the one the session names now.
ReplacementsChain ==
  /\ \A p, q \in replaced : p[1] = q[1] => p = q
  /\ {p[1] : p \in replaced} \cup {sess} = {p[2] : p \in replaced} \cup {1}

\* "The old environment keeps its id and stays expired." It fails: a claim whose
\* lease ended saves the row it read before the next claim replaced it.
ReplacedStaysExpired == \A p \in replaced : rows[p[1]].state = "expired"
=============================================================================
