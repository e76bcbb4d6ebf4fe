------------------------------- MODULE Setup -------------------------------
(***************************************************************************)
(* `rusui setup`: TLS files, the environment file, the guest image and the *)
(* user service (launchd, or systemd with a second environment file beside *)
(* the unit), made step by step.  A step may fail or the command be        *)
(* interrupted, and it is run again.  Between runs the operator edits the  *)
(* environment file, installs a new binary, or puts files of their own in  *)
(* the way.  Files are known by what they were made from.                  *)
(***************************************************************************)
EXTENDS Naturals

CONSTANTS Platforms,       \* {"launchd", "systemd"}
          MaxRuns, MaxHandEdits

ASSUME SetupBounds == Platforms \subseteq {"launchd", "systemd"} /\ {MaxRuns, MaxHandEdits} \subseteq Nat

VARIABLES platform,
          tls,      \* generation of ca.pem, ca-key.pem, plane.pem, plane-key.pem; 0: missing
          envFile,      \* rusui.env: its secret, the operator's values, the image, whether normalized
          tag,      \* the content tag of the built image; 0: not built
          binary,
          unit,     \* the service definition: whose it is and the digest of its inputs
          side,     \* systemd's environment file
          service,  \* the running service: what it was started from
          loaded,   \* the service manager knows a definition
          phase, rotate, rebuild, changed,  \* the run under way
          invocations, edits, generated,    \* bounds; secrets generated so far
          halfRotated,      \* a rotation was interrupted, and none completed since
          torn,     \* a rewrite of rusui.env was interrupted
          settled   \* the last run completed and nothing was touched since

setupVars == <<platform, tls, envFile, tag, binary, unit, side, service, loaded, phase, rotate, rebuild, changed, invocations,
               edits, generated, halfRotated, torn, settled>>

files == <<tls, envFile, tag, unit, side>>

NoFile == [by |-> "none", of |-> <<>>]
Down == <<>>
NoEnv == [secret |-> 0, values |-> 0, image |-> 0, norm |-> TRUE]
TlsFiles == 1..4
OwnImage == 9

SetupInit ==
  /\ platform \in Platforms
  /\ tls = [f \in TlsFiles |-> 0] /\ envFile = NoEnv /\ tag = 0 /\ binary = 1
  /\ unit = NoFile /\ side = NoFile /\ service = Down /\ loaded = FALSE
  /\ phase = "idle" /\ rotate = FALSE /\ rebuild = FALSE /\ changed = FALSE /\ invocations = 0 /\ edits = 0 /\ generated = 0
  /\ halfRotated = FALSE /\ torn = FALSE /\ settled = FALSE

-----------------------------------------------------------------------------
(* The operator, between runs. *)

SetupStarts(rot, reb) ==
  /\ phase = "idle" /\ invocations < MaxRuns /\ invocations' = invocations + 1
  /\ phase' = "tls" /\ rotate' = rot /\ rebuild' = reb
  /\ UNCHANGED <<platform, tls, envFile, tag, binary, unit, side, service, loaded, changed, edits,
                 generated, halfRotated,
                 torn, settled>>

EditsBetween ==
  /\ phase = "idle" /\ edits < MaxHandEdits /\ edits' = edits + 1 /\ settled' = FALSE
  /\ \/ /\ envFile.secret # 0
        /\ envFile' \in {[envFile EXCEPT !.values = edits', !.norm = FALSE],
                    [envFile EXCEPT !.image = OwnImage, !.norm = FALSE]}
        /\ UNCHANGED <<binary, unit, side>>
     \/ binary' = binary + 1 /\ UNCHANGED <<envFile, unit, side>>
     \/ unit.by = "none" /\ unit' = [by |-> "operator", of |-> <<>>] /\ UNCHANGED <<envFile, binary, side>>
     \/ /\ side.by = "none" /\ platform = "systemd"
        /\ side' = [by |-> "operator", of |-> <<>>] /\ UNCHANGED <<envFile, binary, unit>>
  /\ UNCHANGED <<platform, tls, tag, service, loaded, phase, rotate, rebuild, changed, invocations, generated,
                 halfRotated, torn>>

-----------------------------------------------------------------------------
(* run *)

Complete(t) == \A f \in TlsFiles : t[f] # 0
Newest == CHOOSE g \in {tls[f] : f \in TlsFiles} : \A f \in TlsFiles : tls[f] <= g

\* All four files exist and no rotation is asked for.
KeepsTls == Complete(tls) /\ ~rotate

\* writeTLS writes the files one after another from one new pair of keys; a
\* run that is cut short leaves the rest as they were.
SetupTls ==
  /\ phase = "tls"
  /\ IF KeepsTls THEN phase' = "env" /\ UNCHANGED <<tls, halfRotated, settled>>
     ELSE \E n \in TlsFiles :
            /\ tls' = [f \in TlsFiles |-> IF f <= n THEN Newest + 1 ELSE tls[f]]
            /\ phase' = IF n = 4 THEN "env" ELSE "idle"
            /\ halfRotated' = IF n = 4 THEN FALSE ELSE halfRotated \/ Complete(tls)
            /\ settled' = FALSE
  /\ UNCHANGED <<platform, envFile, tag, binary, unit, side, service, loaded, rotate, rebuild, changed,
                 invocations, edits,
                 generated, torn>>

\* Only keys the file lacks are appended.
MissingSecret == envFile.secret = 0

EnsureEnv ==
  /\ phase = "env" /\ phase' = "image"
  /\ IF MissingSecret
     THEN /\ generated' = generated + 1 /\ envFile' = [envFile EXCEPT !.secret = generated', !.norm = FALSE]
     ELSE UNCHANGED <<envFile, generated>>
  /\ settled' = (settled /\ envFile' = envFile)
  /\ UNCHANGED <<platform, tls, tag, binary, unit, side, service, loaded, rotate, rebuild, changed,
                 invocations, edits, halfRotated,
                 torn>>

\* ensureGuestImage builds the image unless it exists and records its tag,
\* unless the operator chose another.  setEnvValues rewrites rusui.env in
\* place: a run cut short in the middle of that leaves it empty.
EnsureGuestImage ==
  LET t == IF tag = 0 \/ rebuild THEN tag + 1 ELSE tag IN
  /\ phase = "image" /\ tag' = t
  /\ IF envFile.image \in {t, OwnImage} THEN phase' = "plan" /\ UNCHANGED <<envFile, torn>>
     ELSE \/ phase' = "plan" /\ envFile' = [envFile EXCEPT !.image = t, !.norm = FALSE] /\ UNCHANGED torn
          \/ phase' = "idle" /\ envFile' = NoEnv /\ torn' = TRUE
  /\ settled' = (settled /\ envFile' = envFile)
  /\ UNCHANGED <<platform, tls, binary, unit, side, service, loaded, rotate, rebuild, changed, invocations, edits,
                 generated, halfRotated>>

-----------------------------------------------------------------------------
(* The user service. *)

Values == <<envFile.secret, envFile.values, envFile.image>>

Served == <<tls[1], tls[3], tls[4]>>

\* Mutant: the digest leaves out the certificates.
Inputs_NoTls == <<<<>>, binary, Values>>

\* serviceInputsDigest; the CA's key is no input of the service.
Inputs == <<Served, binary, Values>>

\* desired: the definition as it would be written now.
Desired == [by |-> "setup", of |-> Inputs]

\* systemdEnvironmentFile: the values, for the unit's EnvironmentFile.
SideDesired == [by |-> "setup", of |-> Values]

\* managed, managedSystemdEnvironment
Foreign(f) == f.by = "operator"

\* What Plan finds to be different.
Differs ==
  \/ unit # Desired
  \/ rotate
  \/ platform = "systemd" /\ (~envFile.norm \/ side # SideDesired)

\* Apply: plan, refuse files of others, stop a service that has to change.
ServicePlan ==
  /\ phase = "plan" /\ changed' = Differs
  /\ IF Foreign(unit) \/ Foreign(side) THEN phase' = "idle" /\ UNCHANGED <<service, settled>>
     ELSE /\ service' = IF Differs THEN Down ELSE service
          /\ phase' = "side" /\ settled' = (settled /\ service' = service)
  /\ UNCHANGED <<platform, tls, envFile, tag, binary, unit, side, loaded, rotate, rebuild, invocations, edits,
                 generated, halfRotated, torn>>

WritesSide == platform = "systemd"

\* writeSystemdEnvironmentFile
ServiceSide ==
  /\ phase = "side" /\ phase' = "normalize"
  /\ side' = IF WritesSide THEN SideDesired ELSE side
  /\ UNCHANGED <<platform, tls, envFile, tag, binary, unit, service, loaded, rotate, rebuild, changed,
                 invocations, edits, generated,
                 halfRotated, torn, settled>>

Normalize(e) == IF platform = "systemd" /\ changed THEN [e EXCEPT !.norm = TRUE] ELSE e

\* normalizeSystemdEnvFile replaces the file in one rename.
ServiceNormalize ==
  /\ phase = "normalize" /\ phase' = "unit" /\ envFile' = Normalize(envFile)
  /\ UNCHANGED <<platform, tls, tag, binary, unit, side, service, loaded, rotate, rebuild, changed,
                 invocations, edits, generated,
                 halfRotated, torn, settled>>

\* writeServiceFile
ServiceUnit ==
  /\ phase = "unit" /\ phase' = "activate"
  /\ unit' = IF changed THEN Desired ELSE unit
  /\ UNCHANGED <<platform, tls, envFile, tag, binary, side, service, loaded, rotate, rebuild, changed,
                 invocations, edits, generated,
                 halfRotated, torn, settled>>

\* What a service started now runs with.
StartedNow == <<Served, binary, IF platform = "systemd" THEN side.of ELSE unit.of[3]>>

\* activate starts a service that is not running.
Activates == service = Down

ServiceActivate ==
  /\ phase = "activate" /\ phase' = "idle" /\ settled' = TRUE
  /\ service' = (IF Activates THEN StartedNow ELSE service) /\ loaded' = TRUE
  /\ UNCHANGED <<platform, tls, envFile, tag, binary, unit, side, rotate, rebuild, changed, invocations,
                 edits, generated, halfRotated, torn>>

\* A step fails or the command is interrupted.
SetupStops ==
  /\ phase # "idle" /\ phase' = "idle"
  /\ UNCHANGED <<platform, tls, envFile, tag, binary, unit, side, service, loaded, rotate, rebuild,
                 changed, invocations,
                 edits, generated, halfRotated, torn, settled>>

\* Restart=on-failure, KeepAlive: the manager restarts a service that exits.
ServiceRestarts ==
  /\ service # Down /\ service' = StartedNow /\ service' # service
  /\ UNCHANGED <<platform, tls, envFile, tag, binary, unit, side, loaded, phase, rotate, rebuild, changed, invocations,
                 edits, generated, halfRotated, torn, settled>>

\* current: the service manager knows no such service.
Forgotten == ~loaded

\* Remove, which may stop after any of its steps: the service is stopped, the
\* definition removed, systemd's environment file removed, systemd reloaded.
\* Without a definition only the environment file is removed, and only when
\* the manager has forgotten the service.
ServiceRemove(n) ==
  /\ phase = "idle" /\ invocations < MaxRuns /\ invocations' = invocations + 1 /\ settled' = FALSE
  /\ ~Foreign(unit) /\ ~Foreign(side)
  /\ unit.by = "none" => Forgotten /\ n = 4
  /\ service' = Down
  /\ unit' = IF n >= 2 THEN NoFile ELSE unit
  /\ side' = IF n >= 3 THEN NoFile ELSE side
  /\ loaded' = (loaded /\ platform = "systemd" /\ n < 4)
  /\ UNCHANGED <<platform, tls, envFile, tag, binary, phase, rotate, rebuild, changed, edits, generated,
                 halfRotated, torn>>

SetupNext ==
  \/ \E b, c \in BOOLEAN : SetupStarts(b, c)
  \/ \E n \in 1..4 : ServiceRemove(n)
  \/ EditsBetween \/ SetupTls \/ EnsureEnv \/ EnsureGuestImage
  \/ ServicePlan \/ ServiceSide \/ ServiceNormalize \/ ServiceUnit \/ ServiceActivate \/ ServiceRestarts \/ SetupStops

-----------------------------------------------------------------------------
\* Variables keep their shape, and the environment file is systemd's alone.
SetupTypeOK ==
  /\ tls \in [TlsFiles -> 0..MaxRuns] /\ envFile.secret \in 0..MaxRuns /\ envFile.norm \in BOOLEAN
  /\ unit.by \in {"none", "operator", "setup"} /\ side.by \in {"none", "operator", "setup"}
  /\ side.by # "none" => platform = "systemd"

\* A run that completed leaves the service running from the environment,
\* the certificates and the binary that are on disk, whatever earlier runs
\* left half done.
RunsCurrent == settled => service = <<Served, binary, Values>>

\* Completed runs leave certificates and keys that belong together, unless a
\* rotation was cut short before (it is not taken up again: see README).
TlsFilesMatch == settled /\ ~halfRotated => \A f \in TlsFiles : tls[f] = tls[1]

\* The secrets setup generated are generated once, over any number of runs.
SecretsStay == [][~torn' /\ envFile.secret # 0 => envFile'.secret = envFile.secret]_setupVars

\* Files the operator put in the way are neither replaced nor removed.
ForeignFilesStay ==
  [][/\ unit.by = "operator" => unit' = unit
     /\ side.by = "operator" => side' = side]_setupVars

\* Running setup again after a run that completed changes no file and does
\* not restart the service.
SecondRunChangesNothing ==
  [][settled /\ phase # "idle" /\ ~rotate /\ ~rebuild => files' = files /\ service' = service]_setupVars
=============================================================================
