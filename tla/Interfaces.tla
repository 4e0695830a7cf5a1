----------------------------- MODULE Interfaces ------------------------------
(***************************************************************************)
(* The permissions of interfaces/api/deps.py: what each role may do, and   *)
(* where.  A principal holds system roles, which count everywhere, and at  *)
(* most one membership, a role and a team, per competition.                *)
(*                                                                         *)
(* The routes of the HTTP API, interfaces/api/routers, one definition per  *)
(* handler, and those of the worker gateway.  A route says what it acts on *)
(* and how, which permission it asks for, where it asks for it, and which  *)
(* of the common steps its handler makes.  Module Requests runs them.      *)
(*                                                                         *)
(* gate  public       nobody is asked who they are                        *)
(*       token        the service itself takes the bearer token            *)
(*       session      any live session                                     *)
(*       flat         the permission from any role the principal holds     *)
(*       competition  the permission in the competition; refused with 403  *)
(*       hidden       the same, refused with 404                           *)
(*       any          the permission in some competition, which filters    *)
(*       worker       a live worker credential                             *)
(* does  what the service does with the row the request names              *)
(* steps idem (Idempotency-Key is honoured; path: a key counts for one     *)
(*       target), audit, match (If-Match is required), own (own team       *)
(*       only), team (rows of the own team only), published (the challenge *)
(*       must be attached to the competition)                              *)
(***************************************************************************)
EXTENDS FiniteSets, TLC

CONSTANTS Contest,        \* competitions
          NoMembership    \* the membership of someone who has none

SystemPermission ==
    {"user:read", "user:write", "job:read", "job:operate", "audit:read", "metrics:read"}
AuthoringPermission ==
    {"challenge:read", "challenge:write", "challenge:publish",
     "build:read", "build:create", "eval:read", "eval:run"}
CompetitionPermission ==
    {"competition:read", "competition:write", "team:read", "team:write", "membership:write",
     "submission:create", "submission:read", "scoreboard:read", "scoreboard:lag",
     "publication:read", "publication:write", "instance:read", "instance:operate"}
Permission == SystemPermission \cup AuthoringPermission \cup CompetitionPermission

PERMISSION_SCOPE ==
    [p \in Permission |-> IF p \in SystemPermission THEN "system"
                          ELSE IF p \in AuthoringPermission THEN "authoring" ELSE "competition"]

CATALOG_READ == {"competition:read", "team:read", "challenge:read"}
CONTESTANT == CATALOG_READ \cup {"scoreboard:read", "submission:create", "submission:read"}

ROLE_PERMISSIONS ==
    [admin     |-> Permission,
     organizer |-> CATALOG_READ \cup
                   {"competition:write", "team:write", "membership:write", "user:read", "user:write",
                    "submission:read", "scoreboard:read", "scoreboard:lag", "instance:read",
                    "instance:operate", "build:read", "build:create", "eval:read", "eval:run",
                    "publication:read", "publication:write"},
     author    |-> {"competition:read", "challenge:read", "challenge:write", "challenge:publish",
                    "scoreboard:read", "build:read", "build:create", "eval:read", "eval:run"},
     captain   |-> CONTESTANT,
     player    |-> CONTESTANT,
     judge     |-> CATALOG_READ \cup {"submission:read", "scoreboard:read"},
     observer  |-> CATALOG_READ \cup {"scoreboard:read"},
     support   |-> CATALOG_READ \cup
                   {"scoreboard:read", "scoreboard:lag", "instance:read", "build:read",
                    "job:read", "job:operate", "audit:read", "metrics:read"}]

TENANCY_UNRESTRICTED_ROLES == {"admin", "organizer", "judge", "support", "observer", "author"}

-----------------------------------------------------------------------------
resolve_permissions(roles) == UNION {ROLE_PERMISSIONS[r] : r \in roles}

Joined(p) == {k \in Contest : p.memberships[k] # NoMembership}

\* What the database authenticator makes of a live session: the flat roles are
\* the system roles and the roles of every membership together.
principal_for(subject, system, memberships) ==
    LET p == [subject |-> subject, system_roles |-> system, memberships |-> memberships]
        roles == system \cup {memberships[k].role : k \in Joined(p)}
    IN p @@ [permissions |-> resolve_permissions(roles)]

competition_effective_roles(p, k) ==
    p.system_roles \cup (IF k \in Joined(p) THEN {p.memberships[k].role} ELSE {})

competition_permissions(p, k) == resolve_permissions(competition_effective_roles(p, k))

\* Where a principal holds a permission: everywhere with a system role.
authorized_competitions(p, perm) ==
    IF perm \in resolve_permissions(p.system_roles) THEN Contest
    ELSE {k \in Joined(p) : perm \in ROLE_PERMISSIONS[p.memberships[k].role]}

\* The team a contestant is confined to, "any" or, when unplaced, "none".
submission_team_scope(p, k) ==
    IF competition_effective_roles(p, k) \cap TENANCY_UNRESTRICTED_ROLES # {} THEN "any"
    ELSE IF k \in Joined(p) THEN p.memberships[k].team ELSE "none"

VERSION_REPORT_PERMISSION == [validation |-> "build:read", build |-> "build:read", eval |-> "eval:read"]

-----------------------------------------------------------------------------
(* The routes. *)

Api(res, verb, perm, gate, does, steps) ==
    [face |-> "api", res |-> res, verb |-> verb, perm |-> perm, gate |-> gate,
     does |-> does, steps |-> steps]

login  == Api("session", "login", "none", "public", "issue", {"audit"})
refresh == Api("session", "refresh", "none", "token", "issue", {"audit"})
logout == Api("session", "logout", "none", "token", "end", {})
me     == Api("session", "me", "none", "session", "read", {})
oidc_login == Api("login", "start", "none", "public", "issue", {"audit"})
oidc_callback == Api("login", "finish", "none", "public", "issue", {"audit"})

register_user == Api("user", "create", "user:write", "flat", "insert", {"idem", "audit"})
list_users == Api("user", "list", "user:read", "flat", "read", {})
get_user   == Api("user", "get", "user:read", "flat", "read", {})

create_team == Api("team", "create", "team:write", "competition", "insert", {"idem", "audit"})
list_teams  == Api("team", "list", "team:read", "competition", "read", {})
get_team    == Api("team", "get", "team:read", "competition", "read", {})
assign_member == Api("member", "assign", "membership:write", "competition", "set", {"audit"})

\* There is no competition yet to hold a permission in.
create_competition == Api("competition", "create", "competition:write", "flat", "insert", {"idem", "audit"})
list_competitions == Api("competition", "list", "competition:read", "any", "read", {})
get_competition == Api("competition", "get", "competition:read", "competition", "read", {})
patch_competition == Api("competition", "update", "competition:write", "competition", "merge", {"match", "audit"})

create_definition == Api("definition", "create", "challenge:write", "flat", "insert", {"idem", "audit"})
list_definitions  == Api("definition", "list", "challenge:read", "flat", "read", {})
get_definition    == Api("definition", "get", "challenge:read", "flat", "read", {})
patch_definition  == Api("definition", "update", "challenge:write", "flat", "merge", {"match", "audit"})
create_version  == Api("version", "create", "challenge:write", "flat", "next", {"idem", "audit"})
list_versions   == Api("version", "list", "challenge:read", "flat", "read", {})
get_version     == Api("version", "get", "challenge:read", "flat", "read", {})
publish_version == Api("version", "publish", "challenge:publish", "flat", "step", {"audit"})

submit_answer == Api("submission", "create", "submission:create", "competition", "submit", {"own", "idem", "path", "audit"})
list_submissions == Api("submission", "list", "submission:read", "competition", "read", {"own", "team"})
get_submission == Api("submission", "get", "submission:read", "hidden", "read", {"team"})
get_scoreboard == Api("scoreboard", "get", "scoreboard:read", "competition", "read", {})
get_scoreboard_lag == Api("scoreboard", "lag", "scoreboard:lag", "competition", "read", {"audit"})

list_instances == Api("instance", "list", "instance:read", "any", "read", {})
list_competition_instances == Api("instance", "view", "instance:read", "competition", "read", {})
get_instance == Api("instance", "get", "instance:read", "hidden", "read", {})
request_instance == Api("instance", "request", "instance:operate", "competition", "place", {"idem", "audit"})
stop_instance == Api("instance", "stop", "instance:operate", "hidden", "set", {"idem", "path", "audit"})
reset_instance == Api("instance", "reset", "instance:operate", "hidden", "bump", {"idem", "path", "audit"})
delete_instance == Api("instance", "delete", "instance:operate", "hidden", "set", {"idem", "path", "audit"})

list_builds == Api("build", "list", "build:read", "flat", "read", {})
get_build   == Api("build", "get", "build:read", "flat", "read", {})
trigger_build == Api("build", "trigger", "build:create", "flat", "natural", {"idem", "path", "audit"})
list_evaluations == Api("evaluation", "list", "eval:read", "flat", "read", {})
get_evaluation == Api("evaluation", "get", "eval:read", "flat", "read", {})
request_evaluation == Api("evaluation", "request", "eval:run", "flat", "natural", {"idem", "path", "audit"})

attach_publication == Api("publication", "attach", "publication:write", "competition", "insert", {"idem", "path", "audit"})
list_publications == Api("publication", "list", "publication:read", "competition", "read", {})
detach_publication == Api("publication", "detach", "publication:write", "competition", "remove", {"audit"})

list_dead_letter == Api("job", "list", "job:read", "flat", "read", {})
get_job    == Api("job", "get", "job:read", "flat", "read", {})
cancel_job == Api("job", "cancel", "job:operate", "flat", "step", {"idem", "path", "audit"})
retry_job  == Api("job", "retry", "job:operate", "flat", "step", {"idem", "path", "audit"})
list_audit_events == Api("audit", "list", "audit:read", "flat", "read", {})

\* The permission is the one of the report's type.
snapshot_version_report(perm) == Api("report", "snapshot", perm, "flat", "append", {"audit"})
latest_version_report(perm) == Api("report", "latest", perm, "flat", "read", {})
list_version_reports(perm) == Api("report", "list", perm, "flat", "read", {})
snapshot_competition_run == Api("run", "snapshot", "scoreboard:read", "competition", "append", {"audit"})
latest_competition_run == Api("run", "latest", "scoreboard:read", "competition", "read", {})
list_competition_runs == Api("run", "list", "scoreboard:read", "competition", "read", {})
download_artifact == Api("artifact", "download", "competition:read", "hidden", "read", {"published"})

health  == Api("system", "health", "none", "public", "read", {})
live    == Api("system", "live", "none", "public", "read", {})
ready   == Api("system", "ready", "none", "public", "read", {})
version == Api("system", "version", "none", "public", "read", {})
metrics == Api("system", "metrics", "metrics:read", "flat", "read", {})

-----------------------------------------------------------------------------
(* The worker gateway.  Its services fence every write by lease or by       *)
(* generation (modules JobQueue, InstanceWorker): a repeated one is refused.*)
Worker(res, verb, does, steps) ==
    [face |-> "worker", res |-> res, verb |-> verb, perm |-> "none", gate |-> "worker",
     does |-> does, steps |-> steps]

authenticate_worker == Worker("worker", "authenticate", "read", {})
claim_job     == Worker("lease", "claim", "step", {"audit"})
start_job     == Worker("lease", "start", "step", {"audit"})
heartbeat_job == Worker("lease", "heartbeat", "set", {})
complete_job  == Worker("lease", "complete", "step", {"audit"})
fail_job      == Worker("lease", "fail", "step", {"audit"})
worker_get_instance == Worker("stack", "get", "read", {})
expected_image_digest == Worker("stack", "digest", "read", {})
launch_stack  == Worker("stack", "services", "read", {})
replace_instance == Worker("stack", "replace", "set", {"audit"})
fetch_build_bundle == Worker("bundle", "fetch", "read", {"audit"})
report_health == Worker("stack", "health", "append", {"audit"})
report_resource == Worker("stack", "resource", "set", {"audit"})
report_endpoint == Worker("stack", "endpoint", "set", {"audit"})
transition_instance == Worker("stack", "transition", "step", {"audit"})

ReportPermissions == {"build:read", "eval:read"}

ApiRoutes ==
    {login, refresh, logout, me, oidc_login, oidc_callback, register_user, list_users, get_user,
     create_team, list_teams, get_team, assign_member, create_competition, list_competitions,
     get_competition, patch_competition, create_definition, list_definitions, get_definition,
     patch_definition, create_version, list_versions, get_version, publish_version, submit_answer,
     list_submissions, get_submission, get_scoreboard, get_scoreboard_lag, list_instances,
     list_competition_instances, get_instance, request_instance, stop_instance, reset_instance,
     delete_instance, list_builds, get_build, trigger_build, list_evaluations, get_evaluation,
     request_evaluation, attach_publication, list_publications, detach_publication,
     list_dead_letter, get_job, cancel_job, retry_job, list_audit_events, snapshot_competition_run,
     latest_competition_run, list_competition_runs, download_artifact, health, live, ready,
     version, metrics}
    \cup {snapshot_version_report(p) : p \in ReportPermissions}
    \cup {latest_version_report(p) : p \in ReportPermissions}
    \cup {list_version_reports(p) : p \in ReportPermissions}

WorkerRoutes ==
    {authenticate_worker, claim_job, start_job, heartbeat_job, complete_job, fail_job,
     worker_get_instance, expected_image_digest, launch_stack, replace_instance, fetch_build_bundle,
     report_health, report_resource, report_endpoint, transition_instance}

-----------------------------------------------------------------------------
(* The pages and forms of the web interface, interfaces/web, one           *)
(* definition per handler, in the terms of the routes above.  Every page   *)
(* needs the session cookie and a form also the CSRF token ("csrf"); no    *)
(* handler looks at an Idempotency-Key or writes an audit record of its    *)
(* own.  The gate "filter" refuses nobody and shows what may be seen.      *)
Page(res, verb, perm, gate, steps) ==
    [face |-> "web", res |-> res, verb |-> verb, perm |-> perm, gate |-> gate,
     does |-> "read", steps |-> steps]
Form(res, verb, perm, gate, does, steps) ==
    [face |-> "web", res |-> res, verb |-> verb, perm |-> perm, gate |-> gate,
     does |-> does, steps |-> steps \cup {"csrf"}]

\* The login form carries its own token, in a cookie of its own.
login_form   == Page("session", "form", "none", "public", {})
login_submit == Form("session", "login", "none", "public", "issue", {})
web_logout   == Form("session", "logout", "none", "session", "end", {})

dashboard == Page("competition", "overview", "competition:read", "filter", {})
competitions_list == Page("competition", "overview", "competition:read", "filter", {})
play_landing == Page("competition", "overview", "competition:read", "filter", {})

competition_new_form == Page("competition", "new", "competition:write", "flat", {})
competition_create == Form("competition", "create", "competition:write", "flat", "insert", {})
competition_detail_view == Page("competition", "get", "competition:read", "hidden", {})
competition_edit_form == Page("competition", "edit", "competition:write", "hidden", {})
\* The form carries every field and no version: the last writer wins.
competition_update == Form("competition", "update", "competition:write", "hidden", "overwrite", {})
teams_view  == Page("team", "list", "team:read", "hidden", {})
team_create == Form("team", "create", "team:write", "hidden", "insert", {})
publications_view  == Page("publication", "list", "publication:read", "hidden", {})
publication_attach == Form("publication", "attach", "publication:write", "hidden", "insert", {})
publication_detach == Form("publication", "detach", "publication:write", "hidden", "remove", {})

\* "skip": an archived instance is left alone.
instances_view == Page("instance", "view", "instance:read", "hidden", {})
instance_detail_view == Page("instance", "get", "instance:read", "hidden", {})
instance_stop_by_reader == Form("instance", "stop", "instance:read", "hidden", "set", {"skip"})
instance_stop   == Form("instance", "stop", "instance:operate", "hidden", "set", {"skip"})
instance_reset  == Form("instance", "reset", "instance:operate", "hidden", "bump", {"skip"})
instance_delete == Form("instance", "delete", "instance:operate", "hidden", "set", {})

ops_jobs_view  == Page("job", "list", "job:read", "flat", {})
ops_job_cancel == Form("job", "cancel", "job:operate", "flat", "step", {})
ops_job_retry  == Form("job", "retry", "job:operate", "flat", "step", {})
builds_view    == Page("build", "list", "build:read", "flat", {})
build_trigger  == Form("build", "trigger", "build:create", "flat", "natural", {})
scoreboard_view == Page("scoreboard", "get", "scoreboard:read", "hidden", {})

version_report_view(perm) == Page("report", "list", perm, "flat", {})
version_report_snapshot(perm) == Form("report", "snapshot", perm, "flat", "append", {})
competition_run_report_view == Page("run", "list", "scoreboard:read", "hidden", {})
competition_run_report_snapshot == Form("run", "snapshot", "scoreboard:read", "hidden", "append", {})

-----------------------------------------------------------------------------
(* The contestants' pages.  "placed" goes no further without a team of the  *)
(* caller's own and then uses that team, whatever the request names.        *)
competition_play_view == Page("play", "get", "competition:read", "hidden", {})
challenges_view == Page("play", "challenges", "competition:read", "hidden", {})
roster_view == Page("play", "roster", "competition:read", "hidden", {"team"})
challenge_submit_form == Page("submission", "form", "submission:create", "hidden", {"published"})
challenge_submit == Form("submission", "create", "submission:create", "hidden", "submit", {"published", "placed"})
my_submissions_view == Page("submission", "mine", "submission:read", "hidden", {"placed"})
challenge_download == Page("artifact", "download", "competition:read", "hidden", {"published"})

WebRoutes ==
    {login_form, login_submit, web_logout, dashboard, competitions_list, play_landing,
     competition_new_form, competition_create, competition_detail_view, competition_edit_form,
     competition_update, teams_view, team_create, publications_view, publication_attach,
     publication_detach, instances_view, instance_detail_view, instance_stop, instance_reset,
     instance_delete, ops_jobs_view, ops_job_cancel, ops_job_retry, builds_view, build_trigger,
     scoreboard_view, competition_run_report_view, competition_run_report_snapshot,
     competition_play_view, challenges_view, roster_view, challenge_submit_form, challenge_submit,
     my_submissions_view, challenge_download}
    \cup {version_report_view(p) : p \in {"build:read", "eval:read"}}
    \cup {version_report_snapshot(p) : p \in {"build:read", "eval:read"}}

-----------------------------------------------------------------------------
(* The commands of the platform CLI, interfaces/cli/commands, one          *)
(* definition per handler: the API route it calls and how.  keyed: an      *)
(* Idempotency-Key is sent, the user's or a fresh one, the same on every   *)
(* try.  fetch: the resource is read first and its ETag sent as If-Match.  *)
(* walk: the pages of the list are followed.                               *)
Calls(route, how) == [route |-> route, how |-> how]

competition_create_cmd == Calls(create_competition, {"keyed"})
competition_list_cmd == Calls(list_competitions, {"walk"})
competition_get_cmd == Calls(get_competition, {})
competition_update_cmd == Calls(patch_competition, {"fetch"})
competition_scoreboard_cmd == Calls(get_scoreboard, {"walk"})
team_create_cmd == Calls(create_team, {"keyed"})
team_list_cmd == Calls(list_teams, {"walk"})
team_get_cmd == Calls(get_team, {})
user_create_cmd == Calls(register_user, {"keyed"})
user_list_cmd == Calls(list_users, {"walk"})
user_get_cmd == Calls(get_user, {})
definition_create_cmd == Calls(create_definition, {"keyed"})
definition_list_cmd == Calls(list_definitions, {"walk"})
definition_get_cmd == Calls(get_definition, {})
definition_update_cmd == Calls(patch_definition, {"fetch"})
version_create_cmd == Calls(create_version, {"keyed"})
version_list_cmd == Calls(list_versions, {"walk"})
version_get_cmd == Calls(get_version, {})
version_publish_cmd == Calls(publish_version, {})
publication_attach_cmd == Calls(attach_publication, {"keyed"})
publication_list_cmd == Calls(list_publications, {"walk"})
publication_detach_cmd == Calls(detach_publication, {})
submission_submit_cmd == Calls(submit_answer, {"keyed"})
submission_list_cmd == Calls(list_submissions, {"walk"})
submission_get_cmd == Calls(get_submission, {})
\* Two paths: of one competition, or of all that may be seen.
instance_list_cmds == {Calls(r, {"walk"}) : r \in {list_instances, list_competition_instances}}
instance_get_cmd == Calls(get_instance, {})
instance_request_cmd == Calls(request_instance, {"keyed"})
instance_action_cmds == {Calls(r, {"keyed"}) : r \in {stop_instance, reset_instance, delete_instance}}
job_list_cmd == Calls(list_dead_letter, {"walk"})
job_get_cmd == Calls(get_job, {})
job_action_cmds == {Calls(r, {"keyed"}) : r \in {cancel_job, retry_job}}
build_trigger_cmd == Calls(trigger_build, {"keyed"})
build_list_cmd == Calls(list_builds, {"walk"})
build_get_cmd == Calls(get_build, {})
system_health_cmd == Calls(health, {})
whoami_cmd == Calls(me, {})

Commands ==
    {competition_create_cmd, competition_list_cmd, competition_get_cmd, competition_update_cmd,
     competition_scoreboard_cmd, team_create_cmd, team_list_cmd, team_get_cmd, user_create_cmd,
     user_list_cmd, user_get_cmd, definition_create_cmd, definition_list_cmd, definition_get_cmd,
     definition_update_cmd, version_create_cmd, version_list_cmd, version_get_cmd,
     version_publish_cmd, publication_attach_cmd, publication_list_cmd, publication_detach_cmd,
     submission_submit_cmd, submission_list_cmd, submission_get_cmd, instance_get_cmd,
     instance_request_cmd, job_list_cmd, job_get_cmd, build_trigger_cmd, build_list_cmd,
     build_get_cmd, system_health_cmd, whoami_cmd}
    \cup instance_list_cmds \cup instance_action_cmds \cup job_action_cmds
=============================================================================
