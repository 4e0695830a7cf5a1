----------------------------- MODULE Migrations -----------------------------
(***************************************************************************)
(* The Alembic migrations, statement by statement: what each revision      *)
(* creates and drops (tables with their keys and foreign keys, trigger     *)
(* functions, triggers; indexes are left out), run by containers that      *)
(* migrate before they serve, while older ones still append score events.  *)
(* A run is one transaction from the revision it found to its target.      *)
(***************************************************************************)
EXTENDS Naturals, Sequences, TLC

CONSTANTS Migrator,
          Targets,     \* the revisions migrated to, 0 for base
          MaxLedger    \* bound: score events appended

ORM == INSTANCE SchemaModels

FK(cols, to, key) == [cols |-> cols, to |-> to, key |-> key]
Ref(col, to) == FK({col}, to, {"id"})
Table(keys, fks, opt) == [keys |-> keys, fks |-> fks, opt |-> opt]

-----------------------------------------------------------------------------
(* The tables, as the revisions create them *)

T_competitions == Table(
    {{"id"}, {"slug"}},
    {},
    {"scoring_start_at", "freeze_time", "archived_at"})
T_users == Table({{"id"}, {"lower(email)"}}, {}, {"archived_at"})
T_teams == Table(
    {{"id"}, {"competition_id", "name"}, {"id", "competition_id"}},
    {Ref("competition_id", "competitions")},
    {"archived_at"})
T_memberships == Table(
    {{"id"}, {"user_id", "competition_id"}},
    {Ref("user_id", "users"), Ref("competition_id", "competitions"),
     FK({"team_id", "competition_id"}, "teams", {"id", "competition_id"})},
    {"team_id", "archived_at"})
T_challenge_definitions == Table({{"id"}, {"slug"}}, {}, {"archived_at"})
T_challenge_versions == Table(
    {{"id"}, {"definition_id", "version_no"}, {"definition_id", "spec_sha256"}},
    {Ref("definition_id", "challenge_definitions")},
    {"cve_refs", "cve_content_hash", "published_at", "archived_at"})
T_challenge_builds == Table(
    {{"build_sha256"}, {"challenge_version_id", "family_version", "generator_version", "seed"}},
    {Ref("challenge_version_id", "challenge_versions")},
    {"family_version", "storage_uri"})
T_competition_challenges == Table(
    {{"id"}, {"competition_id", "challenge_version_id"}},
    {Ref("competition_id", "competitions"), Ref("challenge_version_id", "challenge_versions")},
    {"archived_at"})
T_submissions == Table(
    {{"id"}, {"id", "competition_id", "team_id", "challenge_version_id"}},
    {FK({"team_id", "competition_id"}, "teams", {"id", "competition_id"}),
     Ref("competition_id", "competitions"), Ref("challenge_version_id", "challenge_versions"),
     Ref("user_id", "users")},
    {"user_id", "instance_seed"})
T_solves == Table(
    {{"id"}, {"competition_id", "team_id", "challenge_version_id"}, {"submission_id"}},
    {FK({"submission_id", "competition_id", "team_id", "challenge_version_id"}, "submissions", {"id", "competition_id", "team_id", "challenge_version_id"}),
     Ref("competition_id", "competitions"), Ref("team_id", "teams"),
     Ref("challenge_version_id", "challenge_versions")},
    {"instance_seed"})
T_score_events == Table(
    {{"seq"}},
    {Ref("competition_id", "competitions"), Ref("team_id", "teams"),
     Ref("challenge_version_id", "challenge_versions"), Ref("submission_id", "submissions"),
     Ref("solve_id", "solves")},
    {"submission_id", "solve_id"})
T_jobs == Table(
    {{"id"}, {"idempotency_key"}},
    {Ref("competition_id", "competitions"), Ref("challenge_version_id", "challenge_versions")},
    {"claimed_by", "lease_token", "lease_expires_at", "heartbeat_at", "cancel_requested_at",
     "started_at", "finished_at", "error_class", "error_detail", "result_json", "result_ref",
     "log_ref", "competition_id", "challenge_version_id"})
T_job_transitions == Table(
    {{"id"}},
    {Ref("job_id", "jobs")},
    {"from_status", "worker_id", "error_class", "error_detail"})
T_workers == Table(
    {{"id"}, {"name"}},
    {},
    {"revoked_at", "drain_requested_at", "quarantined_at", "quarantine_reason",
     "last_heartbeat_at"})
T_worker_credentials == Table(
    {{"id"}, {"token_hash"}, {"worker_id"}},
    {Ref("worker_id", "workers")},
    {"revoked_at"})
T_score_projection_outbox == Table(
    {{"seq"}},
    {FK({"seq"}, "score_events", {"seq"}), Ref("competition_id", "competitions")},
    {"last_error"})
T_scoreboard_projections == Table(
    {{"competition_id"}},
    {Ref("competition_id", "competitions")},
    {})
T_resource_quotas == Table({{"id"}, {"scope_type", "scope_key", "dimension"}}, {}, {})
T_quota_reservations == Table(
    {{"reservation_id"}},
    {},
    {"competition_key", "team_key", "challenge_key", "released_at"})
T_quota_reservation_items == Table(
    {{"id"}, {"reservation_id", "scope_type", "scope_key", "dimension"}},
    {FK({"reservation_id"}, "quota_reservations", {"reservation_id"}),
     FK({"scope_type", "scope_key", "dimension"}, "resource_quotas", {"scope_type", "scope_key", "dimension"})},
    {})
T_worker_image_cache == Table(
    {{"id"}, {"worker_id", "image_ref"}},
    {Ref("worker_id", "workers")},
    {"last_used_at"})
T_instances == Table(
    {{"id"}},
    {Ref("competition_id", "competitions"),
     FK({"team_id", "competition_id"}, "teams", {"id", "competition_id"}),
     Ref("challenge_version_id", "challenge_versions"), Ref("assigned_worker_id", "workers")},
    {"assigned_worker_id", "image_ref", "expires_at", "instance_seed"})
T_instance_endpoints == Table(
    {{"id"}, {"instance_id", "name"}},
    {Ref("instance_id", "instances")},
    {})
T_runtime_resources == Table(
    {{"id"}, {"instance_id", "kind", "external_ref"}},
    {Ref("instance_id", "instances"), Ref("worker_id", "workers")},
    {})
T_instance_credentials == Table(
    {{"id"}, {"instance_id", "name"}},
    {Ref("instance_id", "instances")},
    {"expires_at"})
T_health_observations == Table(
    {{"id"}},
    {Ref("instance_id", "instances"), Ref("worker_id", "workers")},
    {})
T_instance_events == Table({{"id"}}, {Ref("instance_id", "instances")}, {"from_state"})
T_auth_credentials == Table({{"id"}, {"user_id"}}, {Ref("user_id", "users")}, {})
T_sessions == Table(
    {{"id"}, {"token_hash"}},
    {Ref("user_id", "users"), Ref("rotated_from", "sessions")},
    {"rotated_from", "revoked_at"})
T_user_system_roles == Table({{"user_id", "role"}}, {Ref("user_id", "users")}, {})
T_oidc_login_transactions == Table({{"id"}, {"state_hash"}}, {}, {})
T_eval_runs == Table(
    {{"id"}, {"challenge_version_id", "profile", "adversarial"}},
    {Ref("challenge_version_id", "challenge_versions")},
    {"completed_at", "solved", "steps", "success_dropped", "step_delta", "blended_score", "notes",
     "error"})
T_audit_events == Table({{"id"}}, {}, {"reason"})
T_challenge_build_images == Table(
    {{"id"}, {"challenge_version_id", "image_ref"}},
    {Ref("challenge_version_id", "challenge_versions")},
    {})
T_challenge_build_stack_images == Table(
    {{"id"}, {"challenge_version_id", "service_name", "image_ref"}},
    {Ref("challenge_version_id", "challenge_versions")},
    {})
T_report_snapshots == Table({{"id"}}, {}, {"definition_slug", "version_no", "competition_id"})

TableDef ==
       "competitions" :> T_competitions @@ "users" :> T_users @@ "teams" :> T_teams
    @@ "memberships" :> T_memberships @@ "challenge_definitions" :> T_challenge_definitions
    @@ "challenge_versions" :> T_challenge_versions @@ "challenge_builds" :> T_challenge_builds
    @@ "competition_challenges" :> T_competition_challenges @@ "submissions" :> T_submissions
    @@ "solves" :> T_solves @@ "score_events" :> T_score_events @@ "jobs" :> T_jobs
    @@ "job_transitions" :> T_job_transitions @@ "workers" :> T_workers
    @@ "worker_credentials" :> T_worker_credentials
    @@ "score_projection_outbox" :> T_score_projection_outbox
    @@ "scoreboard_projections" :> T_scoreboard_projections
    @@ "resource_quotas" :> T_resource_quotas @@ "quota_reservations" :> T_quota_reservations
    @@ "quota_reservation_items" :> T_quota_reservation_items
    @@ "worker_image_cache" :> T_worker_image_cache @@ "instances" :> T_instances
    @@ "instance_endpoints" :> T_instance_endpoints @@ "runtime_resources" :> T_runtime_resources
    @@ "instance_credentials" :> T_instance_credentials
    @@ "health_observations" :> T_health_observations @@ "instance_events" :> T_instance_events
    @@ "auth_credentials" :> T_auth_credentials @@ "sessions" :> T_sessions
    @@ "user_system_roles" :> T_user_system_roles
    @@ "oidc_login_transactions" :> T_oidc_login_transactions @@ "eval_runs" :> T_eval_runs
    @@ "audit_events" :> T_audit_events @@ "challenge_build_images" :> T_challenge_build_images
    @@ "challenge_build_stack_images" :> T_challenge_build_stack_images
    @@ "report_snapshots" :> T_report_snapshots

-----------------------------------------------------------------------------
(* The statements of upgrade() and downgrade() *)

Stmt(kind, on, what, fn, ev) == [kind |-> kind, on |-> on, what |-> what, fn |-> fn, ev |-> ev]
Create(t) == Stmt("create", t, "", "", {})
DropTable(t) == Stmt("drop", t, "", "", {})
Function(f) == Stmt("function", "", "", f, {})
DropFunction(f) == Stmt("dropfunction", "", "", f, {})
Trigger(t, what, f, ev) == Stmt("trigger", t, what, f, ev)
DropTrigger(t, what) == Stmt("droptrigger", t, what, "", {})
Backfill == Stmt("backfill", "score_projection_outbox", "", "", {})

\* The two triggers of an insert-only table.
Guards(t) == <<Trigger(t, "immutable", "reject_mutation", {"UPDATE", "DELETE"}),
               Trigger(t, "no_truncate", "reject_mutation", {"TRUNCATE"})>>
DropGuards(t) == <<DropTrigger(t, "no_truncate"), DropTrigger(t, "immutable")>>

U0001 == <<>>
D0001 == <<>>

U0002 == <<Create("competitions")>>
D0002 == <<DropTable("competitions")>>

U0003 == <<Create("users"), Create("teams"), Create("memberships")>>
D0003 == <<DropTable("memberships"), DropTable("teams"), DropTable("users")>>

U0004 ==
    <<Create("challenge_definitions"), Create("challenge_versions"), Create("challenge_builds"),
      Create("competition_challenges"), Function("reject_mutation"),
      Function("freeze_published_version"),
      Trigger("challenge_versions", "freeze_published", "freeze_published_version", {"UPDATE"})>>
    \o Guards("challenge_builds")
D0004 ==
    DropGuards("challenge_builds")
    \o <<DropTrigger("challenge_versions", "freeze_published"), DropFunction("reject_mutation"),
         DropFunction("freeze_published_version"), DropTable("competition_challenges"),
         DropTable("challenge_builds"), DropTable("challenge_versions"),
         DropTable("challenge_definitions")>>

U0005 ==
    <<Create("submissions"), Create("solves"), Create("score_events"),
      Function("solve_requires_correct_submission")>>
    \o Guards("submissions") \o Guards("solves") \o Guards("score_events")
    \o <<Trigger("solves", "require_correct_submission", "solve_requires_correct_submission", {"INSERT"})>>
D0005 ==
    <<DropTrigger("solves", "require_correct_submission")>>
    \o DropGuards("submissions") \o DropGuards("solves") \o DropGuards("score_events")
    \o <<DropFunction("solve_requires_correct_submission"), DropTable("score_events"),
         DropTable("solves"), DropTable("submissions")>>

U0006 ==
    <<Create("jobs"), Create("job_transitions"), Function("job_transition_guard"),
      Trigger("jobs", "transition_guard", "job_transition_guard", {"UPDATE"})>>
    \o Guards("job_transitions")
D0006 ==
    DropGuards("job_transitions")
    \o <<DropTrigger("jobs", "transition_guard"), DropFunction("job_transition_guard"),
         DropTable("job_transitions"), DropTable("jobs")>>

U0007 ==
    <<Create("workers"), Create("worker_credentials"), Function("worker_credentials_freeze"),
      Trigger("worker_credentials", "freeze_update", "worker_credentials_freeze", {"UPDATE"}),
      Trigger("worker_credentials", "no_delete", "reject_mutation", {"DELETE"}),
      Trigger("worker_credentials", "no_truncate", "reject_mutation", {"TRUNCATE"}),
      Function("workers_revoked_terminal"),
      Trigger("workers", "revoked_terminal", "workers_revoked_terminal", {"UPDATE"})>>
D0007 ==
    <<DropTrigger("workers", "revoked_terminal"), DropFunction("workers_revoked_terminal"),
      DropTrigger("worker_credentials", "no_truncate"),
      DropTrigger("worker_credentials", "no_delete"),
      DropTrigger("worker_credentials", "freeze_update"),
      DropFunction("worker_credentials_freeze"), DropTable("worker_credentials"),
      DropTable("workers")>>

U0008 ==
    <<Create("score_projection_outbox"), Create("scoreboard_projections"),
      Function("score_events_enqueue_projection"),
      Trigger("score_events", "enqueue_projection", "score_events_enqueue_projection", {"INSERT"}),
      Backfill>>
D0008 ==
    <<DropTrigger("score_events", "enqueue_projection"),
      DropFunction("score_events_enqueue_projection"), DropTable("scoreboard_projections"),
      DropTable("score_projection_outbox")>>

U0009 ==
    <<Create("resource_quotas"), Create("quota_reservations"), Create("quota_reservation_items"),
      Create("worker_image_cache")>>
    \o Guards("quota_reservation_items")
    \o <<Function("resource_quotas_guard"),
         Trigger("resource_quotas", "guard_delete", "resource_quotas_guard", {"DELETE"}),
         Function("resource_quotas_within_limit"),
         Trigger("resource_quotas", "within_limit_update", "resource_quotas_within_limit", {"UPDATE"})>>
\* Mutant: one of the two functions stays.
D0009KeepsFunction ==
    <<DropTrigger("resource_quotas", "within_limit_update"),
      DropFunction("resource_quotas_within_limit"), DropTrigger("resource_quotas", "guard_delete")>>
    \o DropGuards("quota_reservation_items")
    \o <<DropTable("worker_image_cache"), DropTable("quota_reservation_items"),
         DropTable("quota_reservations"), DropTable("resource_quotas")>>
D0009 ==
    <<DropTrigger("resource_quotas", "within_limit_update"),
      DropFunction("resource_quotas_within_limit"),
      DropTrigger("resource_quotas", "guard_delete"), DropFunction("resource_quotas_guard")>>
    \o DropGuards("quota_reservation_items")
    \o <<DropTable("worker_image_cache"), DropTable("quota_reservation_items"),
         DropTable("quota_reservations"), DropTable("resource_quotas")>>

U0010 ==
    <<Create("instances"), Create("instance_endpoints"), Create("runtime_resources"),
      Create("instance_credentials"), Create("health_observations"), Create("instance_events"),
      Function("instance_transition_guard"),
      Trigger("instances", "transition_guard", "instance_transition_guard", {"UPDATE"})>>
    \o Guards("health_observations") \o Guards("instance_events")
D0010 ==
    DropGuards("instance_events") \o DropGuards("health_observations")
    \o <<DropTrigger("instances", "transition_guard"), DropFunction("instance_transition_guard"),
         DropTable("instance_events"), DropTable("health_observations"),
         DropTable("instance_credentials"), DropTable("runtime_resources"),
         DropTable("instance_endpoints"), DropTable("instances")>>

U0011 ==
    <<Create("auth_credentials"), Create("sessions"), Create("user_system_roles"),
      Function("auth_sessions_freeze"),
      Trigger("sessions", "freeze_update", "auth_sessions_freeze", {"UPDATE"}),
      Trigger("sessions", "no_delete", "reject_mutation", {"DELETE"}),
      Trigger("sessions", "no_truncate", "reject_mutation", {"TRUNCATE"})>>
D0011 ==
    <<DropTrigger("sessions", "no_truncate"), DropTrigger("sessions", "no_delete"),
      DropTrigger("sessions", "freeze_update"), DropFunction("auth_sessions_freeze"),
      DropTable("user_system_roles"), DropTable("sessions"), DropTable("auth_credentials")>>

U0012 == <<Create("oidc_login_transactions")>>
D0012 == <<DropTable("oidc_login_transactions")>>

U0013 ==
    <<Create("eval_runs"), Function("eval_run_transition_guard"),
      Trigger("eval_runs", "transition_guard", "eval_run_transition_guard", {"UPDATE"})>>
D0013 ==
    <<DropTrigger("eval_runs", "transition_guard"), DropFunction("eval_run_transition_guard"),
      DropTable("eval_runs")>>

U0014 == <<Create("audit_events")>> \o Guards("audit_events")
D0014 == DropGuards("audit_events") \o <<DropTable("audit_events")>>

U0015 == <<Create("challenge_build_images")>> \o Guards("challenge_build_images")
D0015 == DropGuards("challenge_build_images") \o <<DropTable("challenge_build_images")>>

U0016 == <<Create("challenge_build_stack_images")>> \o Guards("challenge_build_stack_images")
D0016 ==
    DropGuards("challenge_build_stack_images")
    \o <<DropTable("challenge_build_stack_images")>>

U0017 == <<Create("report_snapshots")>> \o Guards("report_snapshots")
D0017 == DropGuards("report_snapshots") \o <<DropTable("report_snapshots")>>

Upgrade == <<U0001, U0002, U0003, U0004, U0005, U0006, U0007, U0008, U0009, U0010, U0011, U0012,
    U0013, U0014, U0015, U0016, U0017>>
Downgrade == <<D0001, D0002, D0003, D0004, D0005, D0006, D0007, D0008, D0009, D0010, D0011, D0012,
    D0013, D0014, D0015, D0016, D0017>>
HeadRev == Len(Upgrade)

-----------------------------------------------------------------------------
(* What the database does with a statement *)

Empty == [tables |-> {}, fns |-> {}, trigs |-> {}]

\* A foreign key needs a unique key at its target, a trigger its function; a
\* table that is referenced and a function that is used are not dropped.
Applies(s, x) ==
    CASE s.kind = "create" ->
           /\ s.on \notin x.tables
           /\ \A k \in TableDef[s.on].fks :
                k.to \in x.tables \cup {s.on} /\ k.key \in TableDef[k.to].keys
      [] s.kind = "drop" ->
           s.on \in x.tables /\ \A t \in x.tables \ {s.on} : \A k \in TableDef[t].fks : k.to # s.on
      [] s.kind = "trigger" ->
           s.on \in x.tables /\ s.fn \in x.fns /\ \A g \in x.trigs : <<g.on, g.what>> # <<s.on, s.what>>
      [] s.kind = "dropfunction" -> \A g \in x.trigs : g.fn # s.fn
      [] s.kind = "backfill" -> {"score_events", s.on} \subseteq x.tables
      [] OTHER -> TRUE

Applied(s, x) ==
    CASE s.kind = "create" -> [x EXCEPT !.tables = @ \cup {s.on}]
      [] s.kind = "drop" -> [x EXCEPT !.tables = @ \ {s.on}, !.trigs = {g \in @ : g.on # s.on}]
      [] s.kind = "function" -> [x EXCEPT !.fns = @ \cup {s.fn}]
      [] s.kind = "dropfunction" -> [x EXCEPT !.fns = @ \ {s.fn}]
      [] s.kind = "trigger" -> [x EXCEPT !.trigs = @ \cup {s}]
      [] s.kind = "droptrigger" -> [x EXCEPT !.trigs = {g \in @ : <<g.on, g.what>> # <<s.on, s.what>>}]
      [] OTHER -> x

\* The tables whose inserts wait for the transaction that ran statement s.
LocksOf(s) ==
    CASE s.kind = "create" -> {k.to : k \in TableDef[s.on].fks}
      [] s.kind = "drop" -> {s.on} \cup {k.to : k \in TableDef[s.on].fks}
      [] s.kind \in {"trigger", "droptrigger"} -> {s.on}
      [] OTHER -> {}

-----------------------------------------------------------------------------
VARIABLES db,      \* the committed schema and its revision
          mg,      \* mg[m]: the run migrator m is in
          ledger,  \* score events, by sequence number
          outbox,  \* their projection tasks
          refused  \* a statement failed although its plan was not stale

mgVars == <<db, mg, ledger, outbox, refused>>

NoRun == [on |-> FALSE, from |-> 0, rev |-> 0, target |-> 0, pos |-> 1, schema |-> Empty, locks |-> {},
          filled |-> FALSE, rows |-> {}]

MgInit ==
    /\ db = [rev |-> 0, schema |-> Empty]
    /\ mg = [m \in Migrator |-> NoRun]
    /\ ledger = {} /\ outbox = {} /\ refused = FALSE

MgBegin(m, target) ==
    /\ ~mg[m].on
    /\ mg' = [mg EXCEPT ![m] = [NoRun EXCEPT !.on = TRUE, !.from = db.rev, !.rev = db.rev,
                                            !.target = target, !.schema = db.schema]]
    /\ UNCHANGED <<db, ledger, outbox, refused>>

Up(m) == mg[m].rev < mg[m].target
Script(m) == IF Up(m) THEN Upgrade[mg[m].rev + 1] ELSE Downgrade[mg[m].rev]
Working(m) == mg[m].on /\ mg[m].rev # mg[m].target
Stale(m) == db.rev # mg[m].from
Started(m) == mg[m].on /\ (mg[m].rev # mg[m].from \/ mg[m].pos > 1)
Abandon(m) == mg' = [mg EXCEPT ![m] = NoRun]

\* A second run starts with the object the first one is changing, and waits
\* for its transaction; afterwards it finds it changed, and fails.
Statement(m) ==
    LET s == Script(m)[mg[m].pos] IN
    /\ Working(m) /\ mg[m].pos <= Len(Script(m))
    /\ \A n \in Migrator \ {m} : ~Started(n)
    /\ IF ~Stale(m) /\ Applies(s, mg[m].schema)
       THEN /\ mg' = [mg EXCEPT ![m].pos = @ + 1, ![m].schema = Applied(s, @),
                                ![m].locks = @ \cup LocksOf(s),
                                ![m].filled = @ \/ s.on = "score_projection_outbox",
                                ![m].rows = IF s.kind = "backfill" THEN ledger
                                            ELSE IF s = Create("score_projection_outbox") THEN {} ELSE @]
            /\ UNCHANGED refused
       ELSE Abandon(m) /\ refused' = (refused \/ ~Stale(m))
    /\ UNCHANGED <<db, ledger, outbox>>

\* The script of a revision is done: alembic_version is updated.
Stamp(m) ==
    /\ Working(m) /\ mg[m].pos > Len(Script(m))
    /\ mg' = [mg EXCEPT ![m].pos = 1, ![m].rev = IF Up(m) THEN @ + 1 ELSE @ - 1]
    /\ UNCHANGED <<db, ledger, outbox, refused>>

\* begin_transaction() closes around the whole run.
MgCommit(m) ==
    /\ mg[m].on /\ mg[m].rev = mg[m].target /\ Abandon(m)
    /\ IF Stale(m) \/ ~Started(m) THEN UNCHANGED <<db, ledger, outbox>>
       ELSE /\ db' = [rev |-> mg[m].rev, schema |-> mg[m].schema]
            /\ ledger' = IF "score_events" \in mg[m].schema.tables THEN ledger ELSE {}
            /\ outbox' = IF mg[m].filled THEN mg[m].rows ELSE outbox
    /\ UNCHANGED refused

\* The container dies; the database rolls its transaction back.
MgDies(m) == mg[m].on /\ Abandon(m) /\ UNCHANGED <<db, ledger, outbox, refused>>

\* An instance of the application that still serves appends a score event; the
\* trigger of the committed schema enqueues its projection.
AppEvent ==
    /\ "score_events" \in db.schema.tables
    /\ \A m \in Migrator : "score_events" \notin mg[m].locks
    /\ \E e \in (1..MaxLedger) \ ledger :
         /\ ledger' = ledger \cup {e}
         /\ outbox' = IF \E g \in db.schema.trigs : g.fn = "score_events_enqueue_projection"
                      THEN outbox \cup {e} ELSE outbox
    /\ UNCHANGED <<db, mg, refused>>

MgNext ==
    \/ \E m \in Migrator :
         \/ \E t \in Targets : MgBegin(m, t)
         \/ Statement(m) \/ Stamp(m) \/ MgCommit(m) \/ MgDies(m)
    \/ AppEvent

-----------------------------------------------------------------------------
(* Properties *)

\* Every statement of every upgrade and downgrade finds what it needs: the
\* tables and keys its foreign keys name, its trigger function, and nothing
\* left that depends on what it drops.
ScriptsApply == ~refused

RECURSIVE After(_)
After(r) == IF r = 0 THEN Empty ELSE
    LET RECURSIVE RunAll(_, _)
        RunAll(ss, x) == IF ss = <<>> THEN x ELSE RunAll(Tail(ss), Applied(Head(ss), x))
    IN  RunAll(Upgrade[r], After(r - 1))

\* A revision is one schema, on whatever way up and down it was reached: a
\* downgrade leaves nothing behind and takes nothing away that is older.
SchemaAt == [r \in 0..HeadRev |-> After(r)]
SameSchema == db.schema = SchemaAt[db.rev]

History == {"challenge_builds", "submissions", "solves", "score_events", "job_transitions",
    "worker_credentials", "quota_reservation_items", "health_observations", "instance_events",
    "sessions", "audit_events", "challenge_build_images", "challenge_build_stack_images",
    "report_snapshots"}

\* At every committed revision the tables that record history have a trigger
\* against each way to rewrite them; TRUNCATE, which fires no row trigger, too.
HistoryGuarded == \A t \in History \cap db.schema.tables : \A e \in {"UPDATE", "DELETE", "TRUNCATE"} :
    \E g \in db.schema.trigs : g.on = t /\ e \in g.ev

\* At the last revision the tables, their keys, foreign keys and nullable
\* columns are those the ORM maps.
HeadMatchesModels == db.rev = HeadRev => [t \in db.schema.tables |-> TableDef[t]] = ORM!Metadata

\* Every score event has its projection task, also one that was appended
\* before the outbox existed or while it was being created.
OutboxComplete == "score_projection_outbox" \in db.schema.tables => ledger \subseteq outbox

\* Whoever migrates, dies or serves meanwhile: the schema is the one of its
\* revision and of the models, and the tables of record keep what they hold.
MigrationsSafe ==
    /\ ScriptsApply
    /\ SameSchema
    /\ HistoryGuarded
    /\ HeadMatchesModels
    /\ OutboxComplete
=============================================================================
