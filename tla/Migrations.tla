----------------------------- MODULE Migrations -----------------------------
(***************************************************************************)
(* Opening the store: the schema is created or migrated, statement by      *)
(* statement.  Outside an explicit transaction every statement commits by  *)
(* itself, so a process that dies leaves a prefix of them.  Two processes  *)
(* may open the file (the plane, and a local attach beside it).  An        *)
(* operator who cannot start puts back the copy made before the upgrade.   *)
(*                                                                         *)
(* The schema is the set of tables, columns and backfills present.         *)
(***************************************************************************)
EXTENDS Naturals, Sequences, FiniteSets

CONSTANTS Openers, StartVersions, MaxDeaths, MaxRestores

CurrentSchema == 54

ASSUME MigrationBounds ==
  /\ StartVersions \subseteq 0..CurrentSchema + 1 /\ {MaxDeaths, MaxRestores} \subseteq Nat

-----------------------------------------------------------------------------
(* Statements. *)

Create(t) == [op |-> "create", of |-> t, to |-> t]          \* CREATE TABLE
Ensure(t) == [op |-> "ensure", of |-> t, to |-> t]          \* CREATE TABLE IF NOT EXISTS
Add(t, c) == [op |-> "add", of |-> t, to |-> c]             \* ALTER TABLE t ADD COLUMN c
AddMissing(t, c) == [op |-> "addMissing", of |-> t, to |-> c] \* the same, after pragma_table_info
Rebuild(t) == [op |-> "rebuild", of |-> t, to |-> t]        \* new CHECK: copy, drop, rename
Fill(t, d) == [op |-> "fill", of |-> t, to |-> d]           \* repeatable INSERT or UPDATE
Index(t) == [op |-> "index", of |-> t, to |-> t]

V1SchemaSQL == <<"deliveries", "refresh_requests", "snapshots", "jobs", "receipts", "review_revisions",
  "apply_attempts", "intended_actions", "evidence_invalidations", "policy_revisions", "overlay",
  "daily_review_counts", "retry_audit", "reconcile_checkpoints", "failed_deliveries">>

\* One transaction: the tables, the rows of jobs, deliveries and
\* intended_actions copied into them, and views in place of the old names.
migrateV2 == << <<Create("environments"), Create("runners"), Create("sessions"), Create("turns"),
                  Create("events"), Create("actions"), Fill("jobs", "turns of jobs"),
                  Fill("deliveries", "events of deliveries"),
                  Fill("intended_actions", "actions of intended_actions")>> >>
migrateV3 == << <<Create("turn_credentials")>> >>
migrateV4 == << <<Add("environments", "handle")>>, <<Add("environments", "source_hash")>>,
                <<Add("environments", "expires_at")>>, <<Add("environments", "slept_at")>>,
                <<Add("environments", "cpu_millis")>>, <<Add("environments", "memory_bytes")>> >>
migrateV5 == << <<Add("sessions", "project")>>, <<Add("sessions", "prompt")>>,
                <<Ensure("session_idempotency")>> >>
migrateV6 == << <<Add("sessions", "schedule_id")>>, <<Ensure("schedules")>> >>
migrateV7 == << <<Ensure("approval_decisions")>> >>
migrateV8 == << <<Add("sessions", "guest_session_id")>>, <<Ensure("followup_queue")>> >>
migrateV9 == << <<Ensure("credential_grants")>> >>
migrateV10 == << <<Ensure("tasks")>> >>
migrateV11 == << <<Ensure("proofs")>> >>
migrateV12 == << <<Ensure("independent_reviews")>> >>
migrateV13 == << <<Ensure("terminal_leases")>>, <<Ensure("terminal_access")>> >>
migrateV14 == << <<Ensure("preview_grants")>> >>
migrateV15 == << <<Ensure("publication_attempts")>> >>
migrateV16 == << <<Ensure("effort_feedback")>> >>
migrateV17 == << <<Ensure("session_processes")>>, <<Ensure("process_attaches")>> >>
migrateV18 == << <<Add("session_processes", "cancel_requested_at")>> >>
migrateV19 == << <<Add("session_processes", "identity_hash")>> >>
migrateV20 == << <<Ensure("environment_receipts")>> >>
migrateV21 == << <<Ensure("turn_steers")>> >>
migrateV22 == << <<AddMissing("turn_steers", "offered")>>, <<AddMissing("turn_steers", "received")>> >>
migrateV23 == << <<AddMissing("turn_steers", "followup_seq"), Fill("followup_queue", "steer order")>> >>
migrateV24 == << <<Ensure("turn_measurements")>> >>
migrateV25 == << <<Index("turns")>> >>
migrateV26 == << <<Ensure("environment_captures")>> >>
migrateV27 == << <<Ensure("result_dispositions")>> >>
migrateV28 == << <<Ensure("plane_identity")>>, <<Fill("plane_identity", "a plane id")>> >>
migrateV29 == << <<Ensure("process_receipts")>> >>
migrateV30 == << <<Rebuild("environment_receipts")>> >>
migrateV31 == << <<Index("actions")>> >>
migrateV32 == << <<AddMissing("turns", "claim_token_hash")>> >>

\* Mutant: one of the two columns.
migrateV33_OneColumn == << <<AddMissing("followup_queue", "queued")>> >>

migrateV33 == << <<AddMissing("followup_queue", "queued")>>, <<AddMissing("followup_queue", "dropped")>> >>
migrateV34 == << <<AddMissing("sessions", "archived")>>, <<AddMissing("sessions", "archived_at")>> >>
migrateV35 == << <<AddMissing("sessions", "size")>> >>

migrateV36 == << <<Rebuild("environment_receipts")>> >>
migrateV37 == << <<Rebuild("environment_captures")>> >>
migrateV38 == << <<AddMissing("schedules", "session_id")>> >>
migrateV39 == << <<Ensure("session_webhooks")>>, <<Ensure("session_webhook_deliveries")>> >>
migrateV40 == << <<Ensure("prompt_attachments")>> >>
migrateV41 == << <<AddMissing("sessions", "parent_session_id")>> >>
migrateV42 == << <<AddMissing("sessions", "mode")>> >>
migrateV43 == << <<AddMissing("prompt_attachments", "path")>>, <<Fill("prompt_attachments", "files")>> >>
migrateV44 == << <<AddMissing("sessions", "guest_name"), AddMissing("sessions", "guest_pin"),
                   AddMissing("sessions", "guest_config")>> >>
migrateV45 == << <<Index("actions")>> >>
migrateV46 == << <<AddMissing("sessions", "tenant_id")>> >>
migrateV47 == << <<AddMissing("sessions", "created_by")>>, <<Fill("tenant_id", "creators")>>,
                 <<Ensure("session_access_grants")>> >>
migrateV48 == << <<AddMissing("sessions", "execution_mode")>>, <<AddMissing("sessions", "act")>>,
                 <<Fill("created_by", "actors")>> >>
migrateV49 == << <<Ensure("session_tool_grants")>>, <<Fill("tasks", "write grants of tasks")>> >>
migrateV50 == << <<Ensure("session_retention")>>, <<Fill("sessions", "retention of sessions")>> >>
migrateV51 == << <<Ensure("halt_events")>> >>
migrateV52 == << <<Ensure("flight_records")>> >>
migrateV53 == << <<AddMissing("apply_attempts", "github_comment_id")>> >>
migrateV54 == << <<Ensure("repair_decisions")>> >>

\* Step n of migrate; a group is one commit.
Migration == << <<>>, migrateV2, migrateV3, migrateV4, migrateV5, migrateV6, migrateV7, migrateV8,
  migrateV9, migrateV10, migrateV11, migrateV12, migrateV13, migrateV14, migrateV15, migrateV16,
  migrateV17, migrateV18, migrateV19, migrateV20, migrateV21, migrateV22, migrateV23, migrateV24,
  migrateV25, migrateV26, migrateV27, migrateV28, migrateV29, migrateV30, migrateV31, migrateV32,
  migrateV33, migrateV34, migrateV35, migrateV36, migrateV37, migrateV38, migrateV39, migrateV40,
  migrateV41, migrateV42, migrateV43, migrateV44, migrateV45, migrateV46, migrateV47, migrateV48,
  migrateV49, migrateV50, migrateV51, migrateV52, migrateV53, migrateV54>>

Name(st) == IF st.op \in {"add", "addMissing"} THEN <<st.of, st.to>> ELSE <<st.to>>

Makes(n) == {Name(st) : st \in UNION {{g[i] : i \in DOMAIN g} : g \in {Migration[n][k] : k \in DOMAIN Migration[n]}}}

\* SQLite refuses a table or column that exists, and one of a missing table.
Refused(st, names) ==
  CASE st.op = "create" -> Name(st) \in names
    [] st.op = "add" -> Name(st) \in names \/ <<st.of>> \notin names
    [] st.op = "ensure" -> FALSE
    [] OTHER -> st.op # "fill" /\ <<st.of>> \notin names

-----------------------------------------------------------------------------
VARIABLES names,   \* what the schema holds
          checks,  \* the migration that wrote each rebuilt table's CHECK
          stamps,  \* schema_migrations
          lock,    \* schema_upgrade_lock
          opener,  \* each process in migrate
          deaths, restores,
          cut,     \* a half-created database was taken for version 1
          met      \* two processes were in migrate at once

migVars == <<names, checks, stamps, lock, opener, deaths, restores, cut, met>>

Closed == [at |-> "closed", n |-> 0, k |-> 0]
Inside(p) == opener[p].at \notin {"closed", "open"}
MaxOf(S) == IF S = {} THEN 0 ELSE CHOOSE v \in S : \A w \in S : w <= v

NamesAt(v) == IF v = 0 THEN {} ELSE {<<V1SchemaSQL[i]>> : i \in DOMAIN V1SchemaSQL} \cup
                                    UNION {Makes(n) : n \in 2..(IF v > CurrentSchema THEN CurrentSchema ELSE v)}
ChecksAt(v) == [t \in {"environment_receipts", "environment_captures"} |->
  IF t = "environment_receipts" THEN IF v >= 36 THEN 36 ELSE IF v >= 30 THEN 30 ELSE 20
                                ELSE IF v >= 37 THEN 37 ELSE 26]

\* A database of version v as an earlier binary left it; version 1 is not stamped.
DatabaseAt(v) ==
  /\ names = NamesAt(v) /\ checks = ChecksAt(v)
  /\ stamps = IF v = 1 THEN {} ELSE 1..v
  /\ lock = FALSE

MigInit ==
  /\ \E v \in StartVersions : DatabaseAt(v)
  /\ opener = [p \in Openers |-> Closed]
  /\ deaths = 0 /\ restores = 0 /\ cut = FALSE /\ met = FALSE

Reach(p, at, n, k) ==
  /\ opener' = [opener EXCEPT ![p] = [at |-> at, n |-> n, k |-> k]]
  /\ met' = (met \/ (at \notin {"closed", "open"} /\ \E q \in Openers \ {p} : Inside(q)))

currentVersion == MaxOf(stamps)

\* The version is read; a database that has jobs and no stamp is version 1,
\* one without jobs is created.
ReadVersion(p) ==
  /\ opener[p].at = "closed"
  /\ IF currentVersion = 0 /\ <<"jobs">> \notin names
     THEN Reach(p, "create", 0, 1) /\ UNCHANGED stamps
     ELSE /\ stamps' = IF currentVersion = 0 THEN {1} ELSE stamps
          /\ Reach(p, "check", MaxOf(stamps'), 0)
  /\ cut' = (cut \/ (stamps' # stamps /\ ~NamesAt(1) \subseteq names))
  /\ UNCHANGED <<names, checks, lock, deaths, restores>>

\* V1SchemaSQL, a table at a time, then its stamp.
CreateV1(p) ==
  /\ opener[p].at = "create"
  /\ IF opener[p].k <= Len(V1SchemaSQL)
     THEN names' = names \cup {<<V1SchemaSQL[opener[p].k]>>} /\ Reach(p, "create", 0, opener[p].k + 1) /\ UNCHANGED stamps
     ELSE stamps' = stamps \cup {1} /\ Reach(p, "check", 1, 0) /\ UNCHANGED names
  /\ UNCHANGED <<checks, lock, deaths, restores, cut>>

\* recoverUpgradeLock: a lock is an interrupted upgrade unless the last step
\* is stamped.
RecoverUpgradeLock(v) == lock => v >= CurrentSchema

\* A newer schema and an interrupted upgrade are refused.
CheckVersion(p) ==
  LET v == opener[p].n IN
  /\ opener[p].at = "check"
  /\ IF v > CurrentSchema \/ ~RecoverUpgradeLock(v) THEN Reach(p, "closed", 0, 0) /\ UNCHANGED lock
     ELSE IF v < CurrentSchema THEN Reach(p, "lock", v, 0) /\ UNCHANGED lock
     ELSE Reach(p, "open", 0, 0) /\ lock' = FALSE
  /\ UNCHANGED <<names, checks, stamps, deaths, restores, cut>>

SetUpgradeLock(p) ==
  /\ opener[p].at = "lock" /\ lock' = TRUE /\ Reach(p, "migrate", opener[p].n + 1, 1)
  /\ UNCHANGED <<names, checks, stamps, deaths, restores, cut>>

\* The statements of one commit; a refused one rolls it back.
Applied(g, n) ==
  /\ names' = names \cup {Name(g[i]) : i \in DOMAIN g}
  /\ checks' = [t \in DOMAIN checks |-> IF \E i \in DOMAIN g : g[i].op = "rebuild" /\ g[i].of = t THEN n
                                        ELSE checks[t]]

\* A failed statement ends the start with the lock in place.
RunStatement(p) ==
  LET n == opener[p].n  k == opener[p].k IN
  /\ opener[p].at = "migrate" /\ k <= Len(Migration[n])
  /\ LET g == Migration[n][k] IN
     IF \E i \in DOMAIN g : Refused(g[i], names)
     THEN Reach(p, "closed", 0, 0) /\ UNCHANGED <<names, checks, stamps>>
     ELSE /\ Applied(g, n) /\ Reach(p, "migrate", n, k + 1)
          /\ stamps' = IF n = 30 THEN stamps \cup {30} ELSE stamps  \* in its transaction
  /\ UNCHANGED <<lock, deaths, restores, cut>>

StepDone(n, k) == k > Len(Migration[n])

LastStep(n) == n = CurrentSchema

Stamp(p) ==
  LET n == opener[p].n IN
  /\ opener[p].at = "migrate" /\ StepDone(n, opener[p].k)
  /\ stamps' = stamps \cup {n}
  /\ IF LastStep(n) THEN Reach(p, "unlock", 0, 0) ELSE Reach(p, "migrate", n + 1, 1)
  /\ UNCHANGED <<names, checks, lock, deaths, restores, cut>>

ClearUpgradeLock(p) ==
  /\ opener[p].at = "unlock" /\ lock' = FALSE /\ Reach(p, "open", 0, 0)
  /\ UNCHANGED <<names, checks, stamps, deaths, restores, cut>>

Dies(p) ==
  /\ opener[p].at # "closed" /\ deaths < MaxDeaths /\ deaths' = deaths + 1
  /\ Reach(p, "closed", 0, 0)
  /\ UNCHANGED <<names, checks, stamps, lock, restores, cut>>

\* The operator puts the copy of version v back.
PutBack(v) ==
  /\ restores < MaxRestores /\ restores' = restores + 1
  /\ \A p \in Openers : opener[p].at = "closed"
  /\ lock /\ v \in 1..currentVersion
  /\ names' = NamesAt(v) /\ checks' = ChecksAt(v) /\ stamps' = 1..v /\ lock' = FALSE
  /\ UNCHANGED <<opener, deaths, cut, met>>

MigNext ==
  \/ \E p \in Openers : \/ ReadVersion(p) \/ CreateV1(p) \/ CheckVersion(p) \/ SetUpgradeLock(p)
                        \/ RunStatement(p) \/ Stamp(p) \/ ClearUpgradeLock(p) \/ Dies(p)
  \/ \E v \in StartVersions : PutBack(v)

-----------------------------------------------------------------------------
\* Variables keep their shape, and a process migrates only steps there are.
MigTypeOK ==
  /\ stamps \subseteq 1..CurrentSchema + 1 /\ lock \in BOOLEAN
  /\ \A p \in Openers : opener[p].at = "migrate" => opener[p].n \in 2..CurrentSchema
  /\ \A p \in Openers : opener[p].n \in 0..CurrentSchema + 1 /\ opener[p].k \in 0..Len(V1SchemaSQL) + 1

\* What the queries of a current binary name, of what the migrations brought.
QueriedNames ==
  {<<t>> : t \in {"overlay", "failed_deliveries", "reconcile_checkpoints", "retry_audit", "policy_revisions",
     "receipts", "review_revisions", "snapshots", "turns", "events", "actions", "turn_credentials",
     "approval_decisions", "credential_grants", "terminal_leases", "preview_grants", "publication_attempts",
     "session_webhook_deliveries", "session_tool_grants", "session_retention", "halt_events", "flight_records",
     "repair_decisions", "process_receipts", "a plane id"}} \cup
  {<<"environments", c>> : c \in {"handle", "source_hash", "expires_at", "slept_at", "cpu_millis", "memory_bytes"}} \cup
  {<<"sessions", c>> : c \in {"project", "prompt", "schedule_id", "guest_session_id", "archived", "archived_at",
     "size", "parent_session_id", "mode", "guest_name", "guest_pin", "guest_config", "tenant_id", "created_by",
     "execution_mode", "act"}} \cup
  {<<"turn_steers", c>> : c \in {"offered", "received", "followup_seq"}} \cup
  {<<"followup_queue", c>> : c \in {"queued", "dropped"}} \cup
  {<<"session_processes", "identity_hash">>, <<"session_processes", "cancel_requested_at">>,
   <<"turns", "claim_token_hash">>, <<"schedules", "session_id">>, <<"prompt_attachments", "path">>,
   <<"apply_attempts", "github_comment_id">>}

\* A store that opened has every table and column the queries name, from
\* whatever version it came and however starts died or met on the way, unless
\* a database still being created was taken for a finished one.
OpenIsComplete == ~cut /\ (\E p \in Openers : opener[p].at = "open") => QueriedNames \subseteq names

\* A database without stamps that has jobs holds all of V1SchemaSQL.  It
\* fails: the first start dies after it created jobs, and the next opens
\* without the rest.
LegacyIsComplete == 1 \in stamps => NamesAt(1) \subseteq names

\* A stamped step is complete: all it creates, adds and fills is there.
StampedIsMade == \A n \in stamps \cap (2..CurrentSchema) : Makes(n) \subseteq names

\* A store that opened has the CHECKs of the current schema, unless two
\* processes migrated at once (a slow one repeats an old rebuild: README).
OpenChecksCurrent ==
  (\E p \in Openers : opener[p].at = "open") /\ ~met =>
     checks["environment_receipts"] = 36 /\ checks["environment_captures"] = 37

\* A half-upgraded file is left as it is: with a lock behind and nobody at
\* work no later start gets to a migration, until the copy is put back.
HalfUpgradedStays ==
  [][lock /\ currentVersion < CurrentSchema /\ (\A p \in Openers : opener[p].at \in {"closed", "check"})
       => \/ names' = names /\ \A p \in Openers : opener'[p].at \in {"closed", "check"}
          \/ restores' # restores]_migVars
=============================================================================
