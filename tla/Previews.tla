------------------------------ MODULE Previews ------------------------------
(***************************************************************************)
(* Preview grants of one session: minting one, a request or a comment that *)
(* presents one, and the environment's life beside them (idle sleep, wake, *)
(* archive, and a claim that expires and replaces the environment).        *)
(*                                                                         *)
(* A handle is a container's id, so it is named by its environment until   *)
(* expiry clears it.  Handlers are split where they read the store again   *)
(* and around driver calls.  Sleeps and wakes take the environment's       *)
(* operation marker; the claim's expiry does not, so the row an operation  *)
(* read may be written back over it.                                       *)
(***************************************************************************)
EXTENDS Naturals, FiniteSets

CONSTANTS MaxRows,     \* environments the session has had
          MaxMints,    \* grants
          Visits       \* operator and preview requests in flight

ASSUME PreviewBounds == MaxRows \in Nat \ {0} /\ MaxMints \in Nat \ {0}

VARIABLES envId,     \* sessions.environment_id
          env,       \* environments: state, whether the handle is set, guest
          busy,      \* envOperations: environments under a sleep or a wake
          claim,     \* EnsureSessionEnvironment: where it is, its row, its turn
          put,       \* sessions.archived, and where ArchiveSession is
          grant,     \* preview_grants: environment and state
          visit,     \* each request: where it is, its grant, the row it read
          asked      \* a comment became a follow-up

previewVars == <<envId, env, busy, claim, put, grant, visit, asked>>
lifeVars == <<envId, env, busy, claim, put>>

EnvIds == 1 .. MaxRows
GrantIds == 1 .. MaxMints
NoEnvRow == [state |-> "none", handle |-> FALSE, guest |-> "gone"]
ReadyRow == [state |-> "ready", handle |-> TRUE, guest |-> "up"]
NoClaim == [at |-> "idle", e |-> 0, turn |-> FALSE]
NoVisit == [at |-> "idle", kind |-> "none", g |-> 0, e |-> 0, state |-> "none"]

PreviewInit ==
  /\ envId = 1 /\ env = [e \in EnvIds |-> IF e = 1 THEN ReadyRow ELSE NoEnvRow]
  /\ busy = {} /\ claim = NoClaim /\ put = [archived |-> FALSE, at |-> "idle", e |-> 0]
  /\ grant = [g \in GrantIds |-> [e |-> 0, state |-> "none"]]
  /\ visit = [v \in Visits |-> NoVisit] /\ asked = FALSE

LiveGrants(e) == {g \in GrantIds : grant[g].e = e /\ grant[g].state = "live"}
FreeGrants == {g \in GrantIds : grant[g].state = "none"}

-----------------------------------------------------------------------------
(* Sleep *)

\* reserveEnvironmentSleep, one transaction: ready, no turn queued or leased
\* on the environment, no live grant.
Reservable(e) == /\ env[e].state = "ready" /\ ~(claim.turn /\ e = envId)
                 /\ LiveGrants(e) = {}

ReserveSleep(e) == /\ Reservable(e) /\ e \notin busy
                   /\ env' = [env EXCEPT ![e].state = "sleeping"] /\ busy' = busy \union {e}

\* The idle sweep: a refused reservation is left for a later sweep.
SleepIdle ==
  /\ ReserveSleep(envId)
  /\ UNCHANGED <<envId, claim, put, grant, visit, asked>>

GuestAfter(e, to) == IF env[e].guest = "gone" THEN "gone" ELSE to

\* sleepReservedEnvironment: it writes the row it read back as sleeping; or
\* it fails and the row, if still sleeping, is ready again; or the
\* reservation was lost or the recovery failed and nothing is written.
SleepReserved(e) ==
  /\ e \in busy /\ ~(\E v \in Visits : visit[v].at = "waking" /\ visit[v].e = e)
  /\ busy' = busy \ {e}
  /\ \/ env' = [env EXCEPT ![e] = [state |-> "sleeping", handle |-> TRUE, guest |-> GuestAfter(e, "down")]]
     \/ env[e].state = "sleeping" /\ env' = [env EXCEPT ![e].state = "ready"]
     \/ UNCHANGED env
  /\ UNCHANGED <<envId, claim, put, grant, visit, asked>>

-----------------------------------------------------------------------------
(* A claim *)

\* EnsureSessionEnvironment of a claimed turn: refused when archived.
EnsureReads ==
  /\ claim.at = "idle" /\ ~put.archived
  /\ claim' = [at |-> IF env[envId].state = "expired" THEN "replace" ELSE "expire", e |-> envId, turn |-> TRUE]
  /\ UNCHANGED <<envId, env, busy, put, grant, visit, asked>>

\* The source changed: the guest is destroyed and the row expires.
ExpireSource ==
  /\ claim.at = "expire" /\ claim' = [claim EXCEPT !.at = "replace"]
  /\ env' = [env EXCEPT ![claim.e] = [state |-> "expired", handle |-> FALSE, guest |-> "gone"]]
  /\ UNCHANGED <<envId, busy, put, grant, visit, asked>>

\* replaceSessionEnvironment: a new row that the session moves to, or the
\* provision fails and the session keeps the expired one.
ReplaceSession ==
  /\ claim.at = "replace" /\ claim' = NoClaim
  /\ \/ /\ envId < MaxRows /\ envId' = envId + 1
        /\ env' = [env EXCEPT ![envId + 1] = ReadyRow]
     \/ UNCHANGED <<envId, env>>
  /\ UNCHANGED <<busy, put, grant, visit, asked>>

-----------------------------------------------------------------------------
(* ArchiveSession *)

\* The session is read, its flag set and its turns failed.
ArchiveFlag ==
  /\ put.at = "idle" /\ put' = [archived |-> TRUE, at |-> "look", e |-> envId]
  /\ claim' = [claim EXCEPT !.turn = FALSE]
  /\ UNCHANGED <<envId, env, busy, grant, visit, asked>>

\* Only a ready environment with a handle has anything to revoke or sleep.
ArchiveLooks ==
  /\ put.at = "look"
  /\ put' = [put EXCEPT !.at = IF env[put.e].state = "ready" /\ env[put.e].handle THEN "revoke" ELSE "idle"]
  /\ UNCHANGED <<envId, env, busy, claim, grant, visit, asked>>

RevokePreviewGrants ==
  /\ put.at = "revoke" /\ put' = [put EXCEPT !.at = "sleep"]
  /\ grant' = [g \in GrantIds |-> IF g \in LiveGrants(put.e) THEN [grant[g] EXCEPT !.state = "revoked"]
                                  ELSE grant[g]]
  /\ UNCHANGED <<envId, env, busy, claim, visit, asked>>

\* A busy environment is left awake.
ArchiveSleep ==
  /\ put.at = "sleep" /\ put' = [put EXCEPT !.at = "idle"]
  /\ \/ ReserveSleep(put.e)
     \/ (~Reservable(put.e) \/ put.e \in busy) /\ UNCHANGED <<env, busy>>
  /\ UNCHANGED <<envId, claim, grant, visit, asked>>

Unarchive ==
  /\ put.archived /\ put' = [put EXCEPT !.archived = FALSE]
  /\ UNCHANGED <<envId, env, busy, claim, grant, visit, asked>>

-----------------------------------------------------------------------------
(* Waking for an operator or a preview *)

\* previewProxy checks the binding again on the row the wake returns.
StillBound(g, e, state) == grant[g].e = e /\ state # "expired"

\* What the caller does with the row it gets: a mint needs it ready.
Returned(v, e, state) ==
  IF visit[v].kind = "mint"
  THEN IF state = "ready" THEN [visit[v] EXCEPT !.at = "put"] ELSE NoVisit
  ELSE IF StillBound(visit[v].g, e, state) THEN [visit[v] EXCEPT !.at = "woken", !.state = state]
                                           ELSE NoVisit

\* WakeSessionEnvironment reads the session once and refuses an archived one.
StartMint(v) ==
  /\ visit[v].at = "idle" /\ FreeGrants # {} /\ ~put.archived
  /\ visit' = [visit EXCEPT ![v] = [NoVisit EXCEPT !.at = "wake", !.kind = "mint", !.e = envId]]
  /\ UNCHANGED <<lifeVars, grant, asked>>

WakeForPreview(v) ==
  /\ visit[v].at = "resolved" /\ visit[v].kind = "proxy" /\ visit[v].state = "sleeping"
  /\ visit' = [visit EXCEPT ![v] = IF put.archived THEN NoVisit ELSE [@ EXCEPT !.at = "wake", !.e = envId]]
  /\ UNCHANGED <<lifeVars, grant, asked>>

\* Its loop: a row that is not sleeping is returned as it is, a sleeping one
\* is woken once no operation runs on it, or the wait times out.
WakeLoop(v) ==
  /\ visit[v].at = "wake"
  /\ LET e == visit[v].e  asleep == env[e].state = "sleeping" /\ env[e].handle
     IN  \/ /\ ~asleep /\ UNCHANGED busy
            /\ visit' = [visit EXCEPT ![v] = Returned(v, e, env[e].state)]
         \/ /\ asleep /\ e \notin busy /\ busy' = busy \union {e}
            /\ visit' = [visit EXCEPT ![v].at = "waking"]
         \/ /\ asleep /\ e \in busy /\ UNCHANGED busy
            /\ visit' = [visit EXCEPT ![v] = NoVisit]
  /\ UNCHANGED <<envId, env, claim, put, grant, asked>>

\* wakeEnvironment writes the row it read back as ready.
WakeSucceeds(v) ==
  /\ visit[v].at = "waking" /\ busy' = busy \ {visit[v].e}
  /\ LET e == visit[v].e
     IN  /\ env' = [env EXCEPT ![e] = [state |-> "ready", handle |-> TRUE, guest |-> GuestAfter(e, "up")]]
         /\ visit' = [visit EXCEPT ![v] = Returned(v, e, "ready")]
  /\ UNCHANGED <<envId, claim, put, grant, asked>>

\* A failed wake is an error, unless the row is no longer sleeping.
WakeForPreviewFails(v) ==
  /\ visit[v].at = "waking" /\ busy' = busy \ {visit[v].e}
  /\ visit' = [visit EXCEPT ![v] = IF env[@.e].state = "sleeping" THEN NoVisit ELSE [@ EXCEPT !.at = "wake"]]
  /\ UNCHANGED <<envId, env, claim, put, grant, asked>>

-----------------------------------------------------------------------------
(* Grants and the requests that present them *)

PutAllowed(e) == env[e].state = "ready"

\* consoleMintPreview's end; the port and the origin may be refused first.
PutPreviewGrant(v) ==
  /\ visit[v].at = "put" /\ visit' = [visit EXCEPT ![v] = NoVisit]
  /\ \/ \E g \in FreeGrants : /\ \A k \in FreeGrants : g <= k
                              /\ PutAllowed(visit[v].e)
                              /\ grant' = [grant EXCEPT ![g] = [e |-> visit[v].e, state |-> "live"]]
     \/ UNCHANGED grant
  /\ UNCHANGED <<lifeVars, asked>>

GrantExpires(g) ==
  /\ grant[g].state = "live" /\ grant' = [grant EXCEPT ![g].state = "expired"]
  /\ UNCHANGED <<lifeVars, visit, asked>>

\* previewGrant's first read: unknown, revoked and expired are refused.
ReadGrant(v, kind, g) ==
  /\ visit[v].at = "idle" /\ grant[g].state = "live"
  /\ visit' = [visit EXCEPT ![v] = [NoVisit EXCEPT !.at = "granted", !.kind = kind, !.g = g]]
  /\ UNCHANGED <<lifeVars, grant, asked>>

\* The session's environment has the id and handle of the grant.
Bound(g, e) == grant[g].e = e /\ env[e].handle

\* previewGrant's later reads, of the session and its environment.
ResolveGrant(v) ==
  /\ visit[v].at = "granted"
  /\ visit' = [visit EXCEPT ![v] =
       IF Bound(@.g, envId) THEN [@ EXCEPT !.at = "resolved", !.e = envId, !.state = env[envId].state]
                            ELSE NoVisit]
  /\ UNCHANGED <<lifeVars, grant, asked>>

\* previewComment: a follow-up, which an archived session refuses.
PreviewComment(v) ==
  /\ visit[v].at = "resolved" /\ visit[v].kind = "comment"
  /\ asked' = (asked \/ (visit[v].state \in {"ready", "sleeping"} /\ ~put.archived))
  /\ visit' = [visit EXCEPT ![v] = NoVisit]
  /\ UNCHANGED <<lifeVars, grant>>

\* previewDial and the proxied request, answered if the guest is there.
PreviewDial(v) ==
  /\ visit[v].kind = "proxy"
  /\ visit[v].at = "woken" \/ (visit[v].at = "resolved" /\ visit[v].state # "sleeping")
  /\ visit' = [visit EXCEPT ![v] =
       IF @.state = "ready" /\ env[@.e].guest = "up" THEN [@ EXCEPT !.at = "served"] ELSE NoVisit]
  /\ UNCHANGED <<lifeVars, grant, asked>>

ProxyEnds(v) ==
  /\ visit[v].at = "served" /\ visit' = [visit EXCEPT ![v] = NoVisit]
  /\ UNCHANGED <<lifeVars, grant, asked>>

PreviewNext ==
  \/ SleepIdle \/ EnsureReads \/ ExpireSource \/ ReplaceSession
  \/ ArchiveFlag \/ ArchiveLooks \/ RevokePreviewGrants \/ ArchiveSleep \/ Unarchive
  \/ \E e \in EnvIds : SleepReserved(e)
  \/ \E g \in GrantIds : GrantExpires(g)
  \/ \E v \in Visits :
       \/ StartMint(v) \/ WakeForPreview(v) \/ WakeLoop(v) \/ WakeSucceeds(v) \/ WakeForPreviewFails(v)
       \/ PutPreviewGrant(v) \/ ResolveGrant(v) \/ PreviewComment(v) \/ PreviewDial(v) \/ ProxyEnds(v)
       \/ \E g \in GrantIds, kind \in {"proxy", "comment"} : ReadGrant(v, kind, g)

-----------------------------------------------------------------------------
(* Properties *)

\* A grant and a request past its first read name an environment the session
\* has had, and an operation marker belongs to one.
PreviewTypeOK ==
  /\ \A g \in GrantIds : /\ grant[g].state \in {"none", "live", "expired", "revoked"}
                         /\ grant[g].state # "none" => grant[g].e \in 1 .. envId
  /\ \A v \in Visits : visit[v].at \notin {"idle", "granted"} => visit[v].e \in 1 .. envId
  /\ \A e \in EnvIds : env[e].state \in (IF e > envId THEN {"none"} ELSE {"ready", "sleeping", "expired"})
  /\ busy \subseteq 1 .. envId /\ envId \in EnvIds /\ asked \in BOOLEAN


\* A request reaches the guest its grant was minted for and no other,
\* although the environment may sleep, wake, expire or be replaced between
\* any two reads of the handler (preview.go:211: "a grant acts only while its
\* session still holds the environment id and handle it was minted for").
ServedItsOwnGuest == \A v \in Visits : visit[v].at = "served" => visit[v].e = grant[visit[v].g].e

\* Once ArchiveSession has finished, the environment it slept for is not
\* ready with a live grant.  It fails: a mint that passed the archived check
\* wakes the environment or stores its grant after the archive looked at the
\* row or revoked the grants, and a live grant keeps the archive's sleep from
\* reserving the environment.
ArchivedHasNoGrant ==
  (put.archived /\ put.at = "idle") => ~(env[envId].state = "ready" /\ LiveGrants(envId) # {})
=============================================================================
