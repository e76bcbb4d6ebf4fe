---------------------------- MODULE LocalRuntime ----------------------------
(***************************************************************************)
(* Local sessions: a session whose process is run by the Sumika daemon on  *)
(* the operator's machine.  The plane starts, cancels and reconciles it    *)
(* through the daemon's socket under one mutex; `rusui attach` opens the   *)
(* same database in a process of its own, may reconcile too, and attaches  *)
(* to the PTY.  Rows carry a generation and a revision; every observation  *)
(* is fenced by both (here: an operation's reading of a row is stale once  *)
(* another one wrote it).  Sumika is external: processes exit and the      *)
(* daemon restarts by themselves, and an answer may be lost after the call *)
(* took effect.  The statuses running, idle and blocked are one here.      *)
(***************************************************************************)
EXTENDS Integers, Sequences, FiniteSets

CONSTANTS
    Clis,           \* `rusui attach` processes
    CliReconciles,  \* whether attach reconciles an unknown process first
    MaxGen,         \* bound on process generations
    MaxAttach,      \* bound on attaches
    MaxGlitches     \* bound on lost answers, daemon events, crashes, switches

Plane == "plane"

ASSUME LocalAssumption ==
    /\ Plane \notin Clis /\ "none" \notin Clis /\ CliReconciles \in BOOLEAN
    /\ MaxGen \in Nat /\ MaxAttach \in Nat /\ MaxGlitches \in Nat

Actors == {Plane} \cup Clis

VARIABLES
    local,        \* the session's state: "open" or "cancelled"
    procs,        \* session_processes: generation -> [state, cancel, ident]
    daemon,       \* Sumika's entry for the session's name: [there, alive, ident, owner]
    attaches,     \* process_attaches: sequence of [gen, state, by]
    focus,        \* the attach process whose connection Sumika has focused
    ident,        \* argv and cwd of the current policy, as an identity hash
    barred,       \* "no", "paused" or "halted": the project's switch
    ops,          \* actor -> the operation it is in
    flock,        \* holder of the attach lock file
    overdue,      \* the grace period of a requested cancel is over
    slain,        \* history: generations killed by the plane without a cancel
    glitches

localVars == <<local, procs, daemon, attaches, focus, ident, barred, ops, flock, overdue, slain, glitches>>

NoEntry == [there |-> FALSE, alive |-> FALSE, ident |-> 0, owner |-> 0]
NoOp == [at |-> "idle", kind |-> "none", gen |-> 0, row |-> 0, stale |-> FALSE, seen |-> NoEntry, obs |-> "none", kill |-> FALSE, ident |-> 0]

\* Process states; "running" stands for running, idle and blocked.
Active == {"starting", "running", "unknown"}
Ended == {"dead", "lost"}

LocalTypeOK ==
    /\ local \in {"open", "cancelled"}
    /\ \A g \in 1 .. Len(procs) : /\ procs[g].state \in Active \cup Ended
                                  /\ procs[g].cancel \in BOOLEAN
    /\ Len(procs) <= MaxGen /\ Len(attaches) <= MaxAttach
    /\ \A i \in 1 .. Len(attaches) :
          attaches[i].state \in {"attached", "unknown", "stolen", "detached", "exited"}
    /\ focus \in Clis \cup {"none"} /\ flock \in Clis \cup {"none"}
    /\ (daemon.alive => daemon.there)

LocalInit ==
    /\ local = "open" /\ procs = <<>> /\ daemon = NoEntry
    /\ attaches = <<>> /\ focus = "none" /\ flock = "none"
    /\ ident = 1 /\ barred = "no"
    /\ ops = [a \in Actors |-> NoOp]
    /\ overdue = FALSE /\ slain = {} /\ glitches = 0

Latest == Len(procs)
Glitch == glitches < MaxGlitches /\ glitches' = glitches + 1
\* Writing generation g's row moves its revision: o as every other
\* operation that read the row now stands.
Wrote(a, g, o) == [b \in Actors |-> IF b # a /\ o[b].gen = g THEN [o[b] EXCEPT !.stale = TRUE] ELSE o[b]]
Stage(a, stage) == ops' = [ops EXCEPT ![a].at = stage]
Done(a) == ops' = [ops EXCEPT ![a] = NoOp]

localRows == <<local, procs, attaches>>
world == <<daemon, focus, ident, barred, overdue, slain>>

-----------------------------------------------------------------------------
(* The store's transactions. *)

\* StartSumikaProcess: a generation is reserved only when none is active.
StartSumikaProcess ==
    /\ ops[Plane].at = "idle"
    /\ Latest < MaxGen
    /\ local = "open" /\ barred = "no"
    /\ \A g \in 1 .. Latest : procs[g].state \notin Active
    /\ procs' = Append(procs, [state |-> "starting", cancel |-> FALSE, ident |-> ident])
    /\ ops' = [ops EXCEPT ![Plane] = [NoOp EXCEPT !.at = "start", !.kind = "start", !.gen = Latest + 1,
                                                  !.ident = ident]]
    /\ overdue' = FALSE
    /\ UNCHANGED <<local, attaches, daemon, focus, ident, barred, flock, slain, glitches>>

\* A new session with its first generation; an operator's restart of an open
\* one.
StartLocalSession == Latest = 0 /\ StartSumikaProcess
RestartLocalProcess == local = "open" /\ StartSumikaProcess

\* Attaches of a generation that ended.
ExitAttaches(g) ==
    [i \in 1 .. Len(attaches) |->
        IF attaches[i].gen = g /\ attaches[i].state \in {"attached", "unknown"}
        THEN [attaches[i] EXCEPT !.state = "exited"] ELSE attaches[i]]

\* ObserveSumikaProcess: applied only at the generation and revision the
\* observer read; dead and lost are final; a death with a requested cancel
\* cancels the session.  A kill follows when a cancel is pending.
ObserveSumikaProcess(a) ==
    /\ ops[a].at = "observe"
    /\ LET op == ops[a]
           p == procs[op.gen]
           fresh == ~op.stale /\ (p.state \in Ended => p.state = op.obs)
       IN  IF ~fresh THEN Done(a) /\ UNCHANGED localRows
           ELSE /\ procs' = [procs EXCEPT ![op.gen].state = op.obs]
                /\ attaches' = IF op.obs \in Ended THEN ExitAttaches(op.gen) ELSE attaches
                /\ local' = IF op.obs = "dead" /\ p.cancel THEN "cancelled" ELSE local
                /\ ops' = Wrote(a, op.gen,
                                IF op.kill /\ p.cancel THEN [ops EXCEPT ![a].at = "kill", ![a].kill = FALSE]
                                ELSE [ops EXCEPT ![a] = NoOp])
    /\ UNCHANGED <<world, flock, glitches>>

\* The next observation of a's operation.
Observes(a, state, kill) ==
    ops' = [ops EXCEPT ![a].at = "observe", ![a].obs = state, ![a].kill = kill]

-----------------------------------------------------------------------------
(* Starting. *)

\* The daemon's answer as startLocalProcess reads it.
Matches(entry, g) == entry.ident = procs[g].ident
StartedAs(entry, g) == IF ~Matches(entry, g) THEN "lost" ELSE IF entry.alive THEN "running" ELSE "dead"

\* client.Start, after the halt is checked again.  An existing live entry
\* is answered as it is, or refused; a lost answer proves nothing.
StartCall ==
    /\ ops[Plane].at = "start"
    /\ LET g == ops[Plane].gen
           started == [there |-> TRUE, alive |-> TRUE, ident |-> ops[Plane].ident, owner |-> g]
       IN  \/ /\ barred = "halted"
              /\ Observes(Plane, "unknown", FALSE) /\ UNCHANGED <<daemon, glitches>>
           \/ /\ barred # "halted" /\ ~daemon.alive
              /\ daemon' = started /\ Observes(Plane, StartedAs(started, g), FALSE) /\ UNCHANGED glitches
           \/ /\ barred # "halted" /\ daemon.alive
              /\ \/ Observes(Plane, StartedAs(daemon, g), FALSE)
                 \/ Observes(Plane, "unknown", FALSE)
              /\ UNCHANGED <<daemon, glitches>>
           \/ /\ barred # "halted" /\ Glitch
              /\ daemon' \in {daemon, IF daemon.alive THEN daemon ELSE started}
              /\ Observes(Plane, "unknown", FALSE)
    /\ UNCHANGED <<localRows, focus, ident, barred, overdue, slain, flock>>

-----------------------------------------------------------------------------
(* Cancelling. *)


Gone == IF Latest = 0 THEN TRUE ELSE procs[Latest].state = "dead"

\* CancelLocalSession up to its first call of the daemon: without a process
\* or with a dead one the session is cancelled at once; otherwise the intent
\* is recorded (RequestSumikaCancel).  A lost process stays unconfirmed.
CancelLocalSession ==
    /\ ops[Plane].at = "idle" /\ local = "open"
    /\ \/ /\ Gone
          /\ local' = "cancelled" /\ UNCHANGED <<procs, ops>>
       \/ /\ ~Gone
          /\ LET p == procs[Latest]
                 o == IF p.state = "lost" THEN ops
                      ELSE [ops EXCEPT ![Plane] = [NoOp EXCEPT !.at = "list", !.kind = "cancel", !.gen = Latest]]
             IN  /\ procs' = [procs EXCEPT ![Latest].cancel = TRUE]
                 /\ ops' = IF p.cancel THEN o ELSE Wrote(Plane, Latest, o)
          /\ UNCHANGED local
    /\ UNCHANGED <<attaches, world, flock, glitches>>

\* What an entry of the daemon's list says of generation g.
Observed(entry, g) ==
    IF ~entry.there \/ ~Matches(entry, g) THEN "lost" ELSE IF entry.alive THEN "running" ELSE "dead"

\* client.List of a cancel.
ListForCancel ==
    /\ ops[Plane].at = "list" /\ ops[Plane].kind = "cancel"
    /\ \/ LET obs == Observed(daemon, ops[Plane].gen) IN
          Observes(Plane, obs, obs = "running") /\ UNCHANGED glitches
       \/ Glitch /\ Observes(Plane, "unknown", FALSE)
    /\ UNCHANGED <<localRows, world, flock>>

\* client.Kill names the process; forced once the grace period is over,
\* otherwise the process may ignore it.  The answer is what the name is now.
KillCall(a) ==
    /\ ops[a].at = "kill"
    /\ LET g == ops[a].gen IN
       \E dies \in IF overdue THEN {TRUE} ELSE BOOLEAN :
           /\ daemon' = [daemon EXCEPT !.alive = @ /\ ~dies]
           /\ slain' = IF a = Plane /\ daemon.alive /\ dies /\ daemon.owner # 0
                          /\ ~procs[daemon.owner].cancel
                       THEN slain \cup {daemon.owner} ELSE slain
           /\ \/ /\ daemon.there
                 /\ Observes(a, Observed(daemon', g), FALSE) /\ UNCHANGED glitches
              \/ /\ ~daemon.there \/ glitches < MaxGlitches
                 /\ glitches' = IF daemon.there THEN glitches + 1 ELSE glitches
                 /\ Observes(a, "unknown", FALSE)
    /\ UNCHANGED <<localRows, focus, ident, barred, overdue, flock>>

-----------------------------------------------------------------------------
(* ReconcileSumika: the daemon is listed first, the rows are read after. *)

ReconcileSumika(a) ==
    /\ ops[a].at = "idle"
    /\ a # Plane => CliReconciles /\ Latest > 0 /\ procs[Latest].state = "unknown"
    /\ ops' = [ops EXCEPT ![a] = [NoOp EXCEPT !.at = "read", !.kind = "reconcile", !.seen = daemon]]
    /\ UNCHANGED <<localRows, world, flock, glitches>>

\* LatestSumikaProcess; ended generations and cancelled sessions are left
\* alone, everything else is observed as the list has it.
ReconcileRead(a) ==
    /\ ops[a].at = "read"
    /\ IF local # "open" \/ Latest = 0 THEN Done(a)
       ELSE IF procs[Latest].state \in Ended THEN Done(a)
       ELSE LET obs == Observed(ops[a].seen, Latest) IN
            ops' = [ops EXCEPT ![a].at = "observe", ![a].gen = Latest, ![a].seen = NoEntry, ![a].obs = obs,
                               ![a].kill = obs = "running"]
    /\ UNCHANGED <<localRows, world, flock, glitches>>

\* MarkRuntimeObservationsUnknown
Unknown(a) ==
    /\ ops' = [b \in Actors |-> IF b = a THEN NoOp ELSE
                                  IF ops[b].gen = 0 THEN ops[b] ELSE
                                  [ops[b] EXCEPT !.stale = @ \/ procs[ops[b].gen].state \in Active]]
    /\ procs' = [g \in 1 .. Latest |->
                    IF procs[g].state \in Active
                    THEN [procs[g] EXCEPT !.state = "unknown"] ELSE procs[g]]
    /\ attaches' = [i \in 1 .. Len(attaches) |->
                       IF attaches[i].state = "attached"
                       THEN [attaches[i] EXCEPT !.state = "unknown"] ELSE attaches[i]]
    /\ UNCHANGED local

\* The plane stops and starts: Recover invalidates what was observed.  So
\* does a reconcile whose list fails.
PlaneRestart ==
    /\ Glitch
    /\ Unknown(Plane)
    /\ UNCHANGED <<world, flock>>

ListFails(a) ==
    /\ ops[a].at = "read" /\ ops[a].kind = "reconcile"
    /\ Glitch
    /\ Unknown(a)
    /\ UNCHANGED <<world, flock>>

-----------------------------------------------------------------------------
(* Attaching (AttachLocalSessionWithIdentity). *)

\* Under the lock file, what was read before is checked again.
AttachLocked(a) ==
    /\ a \in Clis /\ ops[a].at = "idle" /\ flock = "none"
    /\ Len(attaches) < MaxAttach
    /\ Latest > 0 /\ local = "open"
    /\ procs[Latest].state = "running" /\ ~procs[Latest].cancel
    /\ daemon.there /\ Matches(daemon, Latest)
    /\ flock' = a
    /\ ops' = [ops EXCEPT ![a] = [NoOp EXCEPT !.at = "attach", !.kind = "attach", !.gen = Latest]]
    /\ UNCHANGED <<localRows, world, glitches>>

\* client.Attach focuses this connection.
AttachCall(a) ==
    /\ ops[a].at = "attach"
    /\ IF daemon.alive /\ Matches(daemon, ops[a].gen)
       THEN focus' = a /\ Stage(a, "begin") /\ UNCHANGED flock
       ELSE Done(a) /\ flock' = "none" /\ UNCHANGED focus
    /\ UNCHANGED <<localRows, daemon, ident, barred, overdue, slain, glitches>>

\* BeginSumikaAttach: the previous writer is stolen from.
BeginSumikaAttach(a) ==
    /\ ops[a].at = "begin"
    /\ flock' = "none"
    /\ IF procs[ops[a].gen].state # "running" \/ Len(attaches) = MaxAttach
       THEN Done(a) /\ focus' = (IF focus = a THEN "none" ELSE focus) /\ UNCHANGED localRows
       ELSE /\ attaches' = Append([i \in 1 .. Len(attaches) |->
                                      IF attaches[i].gen = ops[a].gen /\ attaches[i].state \in {"attached", "unknown"}
                                      THEN [attaches[i] EXCEPT !.state = "stolen"] ELSE attaches[i]],
                                  [gen |-> ops[a].gen, state |-> "attached", by |-> a])
            /\ ops' = [ops EXCEPT ![a].at = "attached", ![a].row = Len(attaches')]
            /\ UNCHANGED <<local, procs, focus>>
    /\ UNCHANGED <<daemon, ident, barred, overdue, slain, glitches>>

\* The connection ends; EndSumikaAttach then records it for this attach only.
Disconnect(a) ==
    /\ ops[a].at = "attached"
    /\ focus' = IF focus = a THEN "none" ELSE focus
    /\ Stage(a, "end")
    /\ UNCHANGED <<localRows, daemon, ident, barred, overdue, slain, flock, glitches>>

EndSumikaAttach(a) ==
    /\ ops[a].at = "end"
    /\ LET i == ops[a].row IN
       attaches' = IF attaches[i].state = "attached"
                   THEN [attaches EXCEPT ![i].state = "detached"] ELSE attaches
    /\ Done(a)
    /\ UNCHANGED <<local, procs, world, flock, glitches>>

-----------------------------------------------------------------------------
(* The world. *)

ProcessExits ==
    /\ daemon.alive
    /\ daemon' = [daemon EXCEPT !.alive = FALSE]
    /\ UNCHANGED <<localRows, focus, ident, barred, ops, overdue, slain, flock, glitches>>

\* The daemon restarts and knows nothing, or an entry of the same name but
\* another identity appears.
DaemonTrouble ==
    /\ Glitch
    /\ daemon' \in {NoEntry, [there |-> TRUE, alive |-> TRUE, ident |-> 9, owner |-> 0]}
    /\ daemon' # daemon
    /\ UNCHANGED <<localRows, focus, ident, barred, ops, overdue, slain, flock>>

LocalSwitch ==
    /\ Glitch
    /\ \/ barred' \in {"no", "paused", "halted"} \ {barred} /\ UNCHANGED ident
       \/ ident' = 3 - ident /\ UNCHANGED barred
    /\ UNCHANGED <<localRows, daemon, focus, ops, overdue, slain, flock>>

GraceEnds ==
    /\ Latest > 0 /\ ~overdue
    /\ procs[Latest].cancel /\ overdue' = TRUE
    /\ UNCHANGED <<localRows, daemon, focus, ident, barred, ops, slain, flock, glitches>>

ActorStep(a) ==
    \/ ObserveSumikaProcess(a) \/ KillCall(a) \/ ReconcileRead(a)
    \/ a = Plane /\ (StartCall \/ ListForCancel)

LocalNext ==
    \/ StartLocalSession \/ RestartLocalProcess \/ CancelLocalSession \/ PlaneRestart
    \/ \E a \in Actors : ActorStep(a) \/ ReconcileSumika(a) \/ ListFails(a)
    \/ \E a \in Clis : \/ AttachLocked(a) \/ AttachCall(a) \/ BeginSumikaAttach(a)
                       \/ Disconnect(a) \/ EndSumikaAttach(a)
    \/ ProcessExits \/ DaemonTrouble \/ LocalSwitch \/ GraceEnds

\* The scheduler reconciles on a ticker; operations run to their end; time
\* passes.
LocalFairness ==
    /\ WF_localVars(ReconcileSumika(Plane)) /\ WF_localVars(ActorStep(Plane))
    /\ WF_localVars(GraceEnds)

-----------------------------------------------------------------------------
(* Properties. *)


\* A dead row is true: the process of that generation does not run.  Stated
\* of ReconcileSumika: it "accepts only current observations from the local
\* daemon."
DeadIsDead ==
    \A g \in 1 .. Latest : procs[g].state = "dead" => ~(daemon.alive /\ daemon.owner = g)

\* The plane kills only what an operator asked to cancel.
KillsOnlyCancelled == slain = {}

\* No other attach holds Sumika's focus while this one is recorded as the
\* writer: handshakes of two attach processes do not interleave.  (A
\* handshake refused after client.Attach may leave nobody focused.)
WriterIsFocused ==
    \A i \in 1 .. Len(attaches) :
        LET b == attaches[i].by IN
        /\ attaches[i].state = "attached" /\ ops[b].at = "attached" /\ ops[b].row = i
        /\ \A a \in Clis : ops[a].at # "begin"
        => focus \in {b, "none"}

\* A requested cancel of the current process comes to an end: the process
\* is seen dead or lost, also when it ignores the first kill.
CancelLands ==
    \A g \in 1 .. MaxGen :
        (IF Latest >= g THEN procs[g].cancel ELSE FALSE)
            ~> (IF Latest >= g THEN procs[g].state \in Ended ELSE FALSE)
=============================================================================
