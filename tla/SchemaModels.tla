---------------------------- MODULE SchemaModels ----------------------------
(***************************************************************************)
(* The database as the ORM declares it: for every mapped class its unique  *)
(* keys (the primary key first), its foreign keys (columns, table, target  *)
(* columns) and its nullable columns.                                      *)
(***************************************************************************)
EXTENDS TLC

FK(cols, to, key) == [cols |-> cols, to |-> to, key |-> key]
Ref(col, to) == FK({col}, to, {"id"})
Table(keys, fks, opt) == [keys |-> keys, fks |-> fks, opt |-> opt]

Competition == Table({{"id"}, {"slug"}}, {}, {"scoring_start_at", "freeze_time", "archived_at"})
User == Table({{"id"}, {"lower(email)"}}, {}, {"archived_at"})
Team == Table(
    {{"id"}, {"competition_id", "name"}, {"id", "competition_id"}},
    {Ref("competition_id", "competitions")},
    {"archived_at"})
Membership == Table(
    {{"id"}, {"user_id", "competition_id"}},
    {Ref("user_id", "users"), Ref("competition_id", "competitions"),
     FK({"team_id", "competition_id"}, "teams", {"id", "competition_id"})},
    {"team_id", "archived_at"})
ChallengeDefinition == Table({{"id"}, {"slug"}}, {}, {"archived_at"})
ChallengeVersion == Table(
    {{"id"}, {"definition_id", "version_no"}, {"definition_id", "spec_sha256"}},
    {Ref("definition_id", "challenge_definitions")},
    {"cve_refs", "cve_content_hash", "published_at", "archived_at"})
ChallengeBuild == Table(
    {{"build_sha256"}, {"challenge_version_id", "family_version", "generator_version", "seed"}},
    {Ref("challenge_version_id", "challenge_versions")},
    {"family_version", "storage_uri"})
ChallengeBuildImage == Table(
    {{"id"}, {"challenge_version_id", "image_ref"}},
    {Ref("challenge_version_id", "challenge_versions")},
    {})
ChallengeBuildStackImage == Table(
    {{"id"}, {"challenge_version_id", "service_name", "image_ref"}},
    {Ref("challenge_version_id", "challenge_versions")},
    {})
EvalRun == Table(
    {{"id"}, {"challenge_version_id", "profile", "adversarial"}},
    {Ref("challenge_version_id", "challenge_versions")},
    {"completed_at", "solved", "steps", "success_dropped", "step_delta", "blended_score", "notes",
     "error"})
CompetitionChallenge == Table(
    {{"id"}, {"competition_id", "challenge_version_id"}},
    {Ref("competition_id", "competitions"), Ref("challenge_version_id", "challenge_versions")},
    {"archived_at"})
Submission == Table(
    {{"id"}, {"id", "competition_id", "team_id", "challenge_version_id"}},
    {Ref("competition_id", "competitions"), Ref("challenge_version_id", "challenge_versions"),
     Ref("user_id", "users"),
     FK({"team_id", "competition_id"}, "teams", {"id", "competition_id"})},
    {"user_id", "instance_seed"})
Solve == Table(
    {{"id"}, {"competition_id", "team_id", "challenge_version_id"}, {"submission_id"}},
    {Ref("competition_id", "competitions"), Ref("team_id", "teams"),
     Ref("challenge_version_id", "challenge_versions"),
     FK({"submission_id", "competition_id", "team_id", "challenge_version_id"}, "submissions", {"id", "competition_id", "team_id", "challenge_version_id"})},
    {"instance_seed"})
ScoreEvent == Table(
    {{"seq"}},
    {Ref("competition_id", "competitions"), Ref("team_id", "teams"),
     Ref("challenge_version_id", "challenge_versions"), Ref("submission_id", "submissions"),
     Ref("solve_id", "solves")},
    {"submission_id", "solve_id"})
Job == Table(
    {{"id"}, {"idempotency_key"}},
    {Ref("competition_id", "competitions"), Ref("challenge_version_id", "challenge_versions")},
    {"claimed_by", "lease_token", "lease_expires_at", "heartbeat_at", "cancel_requested_at",
     "started_at", "finished_at", "error_class", "error_detail", "result_json", "result_ref",
     "log_ref", "competition_id", "challenge_version_id"})
JobTransition == Table(
    {{"id"}},
    {Ref("job_id", "jobs")},
    {"from_status", "worker_id", "error_class", "error_detail"})
WorkerTable == Table(
    {{"id"}, {"name"}},
    {},
    {"revoked_at", "drain_requested_at", "quarantined_at", "quarantine_reason",
     "last_heartbeat_at"})
WorkerCredential == Table(
    {{"id"}, {"token_hash"}, {"worker_id"}},
    {Ref("worker_id", "workers")},
    {"revoked_at"})
ScoreProjectionOutbox == Table(
    {{"seq"}},
    {FK({"seq"}, "score_events", {"seq"}), Ref("competition_id", "competitions")},
    {"last_error"})
ScoreboardProjection == Table({{"competition_id"}}, {Ref("competition_id", "competitions")}, {})
ResourceQuota == Table({{"id"}, {"scope_type", "scope_key", "dimension"}}, {}, {})
QuotaReservation == Table(
    {{"reservation_id"}},
    {},
    {"competition_key", "team_key", "challenge_key", "released_at"})
QuotaReservationItem == Table(
    {{"id"}, {"reservation_id", "scope_type", "scope_key", "dimension"}},
    {FK({"reservation_id"}, "quota_reservations", {"reservation_id"}),
     FK({"scope_type", "scope_key", "dimension"}, "resource_quotas", {"scope_type", "scope_key", "dimension"})},
    {})
WorkerImageCache == Table(
    {{"id"}, {"worker_id", "image_ref"}},
    {Ref("worker_id", "workers")},
    {"last_used_at"})
Instance == Table(
    {{"id"}},
    {Ref("competition_id", "competitions"), Ref("challenge_version_id", "challenge_versions"),
     Ref("assigned_worker_id", "workers"),
     FK({"team_id", "competition_id"}, "teams", {"id", "competition_id"})},
    {"assigned_worker_id", "image_ref", "expires_at", "instance_seed"})
InstanceEndpoint == Table(
    {{"id"}, {"instance_id", "name"}},
    {Ref("instance_id", "instances")},
    {})
RuntimeResource == Table(
    {{"id"}, {"instance_id", "kind", "external_ref"}},
    {Ref("instance_id", "instances"), Ref("worker_id", "workers")},
    {})
InstanceCredential == Table(
    {{"id"}, {"instance_id", "name"}},
    {Ref("instance_id", "instances")},
    {"expires_at"})
HealthObservation == Table(
    {{"id"}},
    {Ref("instance_id", "instances"), Ref("worker_id", "workers")},
    {})
InstanceEvent == Table({{"id"}}, {Ref("instance_id", "instances")}, {"from_state"})
AuthCredential == Table({{"id"}, {"user_id"}}, {Ref("user_id", "users")}, {})
AuthSession == Table(
    {{"id"}, {"token_hash"}},
    {Ref("user_id", "users"), Ref("rotated_from", "sessions")},
    {"rotated_from", "revoked_at"})
UserSystemRole == Table({{"user_id", "role"}}, {Ref("user_id", "users")}, {})
OidcLoginTransaction == Table({{"id"}, {"state_hash"}}, {}, {})
AuditEvent == Table({{"id"}}, {}, {"reason"})
ReportSnapshot == Table({{"id"}}, {}, {"definition_slug", "version_no", "competition_id"})

\* Base.metadata
Metadata ==
       "competitions" :> Competition @@ "users" :> User @@ "teams" :> Team
    @@ "memberships" :> Membership @@ "challenge_definitions" :> ChallengeDefinition
    @@ "challenge_versions" :> ChallengeVersion @@ "challenge_builds" :> ChallengeBuild
    @@ "challenge_build_images" :> ChallengeBuildImage
    @@ "challenge_build_stack_images" :> ChallengeBuildStackImage @@ "eval_runs" :> EvalRun
    @@ "competition_challenges" :> CompetitionChallenge @@ "submissions" :> Submission
    @@ "solves" :> Solve @@ "score_events" :> ScoreEvent @@ "jobs" :> Job
    @@ "job_transitions" :> JobTransition @@ "workers" :> WorkerTable
    @@ "worker_credentials" :> WorkerCredential
    @@ "score_projection_outbox" :> ScoreProjectionOutbox
    @@ "scoreboard_projections" :> ScoreboardProjection @@ "resource_quotas" :> ResourceQuota
    @@ "quota_reservations" :> QuotaReservation
    @@ "quota_reservation_items" :> QuotaReservationItem
    @@ "worker_image_cache" :> WorkerImageCache @@ "instances" :> Instance
    @@ "instance_endpoints" :> InstanceEndpoint @@ "runtime_resources" :> RuntimeResource
    @@ "instance_credentials" :> InstanceCredential @@ "health_observations" :> HealthObservation
    @@ "instance_events" :> InstanceEvent @@ "auth_credentials" :> AuthCredential
    @@ "sessions" :> AuthSession @@ "user_system_roles" :> UserSystemRole
    @@ "oidc_login_transactions" :> OidcLoginTransaction @@ "audit_events" :> AuditEvent
    @@ "report_snapshots" :> ReportSnapshot
=============================================================================
