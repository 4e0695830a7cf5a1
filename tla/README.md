# Verification of CTFGenerator

TLA+ models of CTFGenerator, checked with TLC on small instances and, for the
parts where it matters most, proved with TLAPS for every instance.  File names
below are relative to `src/ctf_generator/` unless they say more.

## 1. The system

The control plane is a set of Python services over one PostgreSQL database (READ
COMMITTED, mostly one transaction per service call).  Worker processes pull jobs
from it over HTTP and run challenge containers on Docker hosts.  Nothing inside the
repository schedules the periodic work: an operator runs the lease reaper, the hold
sweep, the reconciler and the projectors
(`docs/operations/backup-recovery-upgrade.md`).  Beside the platform there are local
commands: the generator, a CVE cache, the scenario engine, local evaluation and a
dashboard.

### Inventory

| Component | State | Operations | Hard behaviour | What makes it correct |
|---|---|---|---|---|
| Job queue (`infrastructure/database/job_queue_repository.py`, `application/jobs`) | a row per job: status, attempts, lease, backoff, stamps; audit rows | enqueue, claim, start, heartbeat, complete, fail, request_cancel, reap_expired, retry_dead_letter | concurrent claims, expiring leases, late calls of dead leases, cancel racing everything | one holder can change a job; cancel wins; the attempt budget; terminal rows frozen |
| Worker loop (`workers/worker.py`, `workers/http_client.py`) | the lease in local variables, a drain flag | poll, start, dispatch, renew, report, drain | crash between any two calls, lost replies, a dispatch longer than its lease | uses the queue as it may; jobs settle |
| Worker enrollment and gate (`application/worker_enrollment.py`, `application/execution`, `interfaces/api/worker_gateway`) | trust, credentials, drain flag, liveness stamp | register, approve, rotate, revoke, authenticate; every worker call | rotation racing revocation; state that changes between the checks of one call | one live credential per trusted worker; a held lease is heard |
| Quota ledger and scheduling (`infrastructure/database/quota_repository.py`, `application/scheduling`) | counters, reservations | reserve, reactivate, release, renew, reconcile_counters; select_and_reserve, release_expired | racing placements, row locks in several orders, crash between transactions | counters equal what is held; limits; no deadlock |
| Instances, their worker handlers and the reconciler (`application/instances`, `workers/worker.py`) | desired and observed state, generation, resources, endpoints, jobs | request, launch, stop, reset, delete, expire; reports; reconcile_once | calls of several transactions that die half-way, stale reports, passes side by side | the transition matrix; no unrecorded container; convergence |
| Docker backend (`infrastructure/runtime/docker_backend.py`) | containers, networks, firewall rules | launch, launch_stack, remove, reap_managed | any docker call fails; two workers on one host | all or nothing; peers untouched; no rule left behind |
| Submissions and score projection (`application/submissions`, `application/scoring`) | submissions, solves, ledger, outbox, cached board | process_submission, drain, rebuild | numbers handed out before commit, racing projectors | one award per slot; no event skipped |
| Scoring engines (`scoring_engine.py`, `scoreboard.py`) | none | fold a log | events out of order and repeated | independent of order; bounded, falling values |
| Accounts (`application/auth`, `application/identity`) | users, sessions, roles, login states | login, refresh, revoke, OIDC, memberships | reads that are stale when the write comes, repeated callbacks | single use; one account per e-mail |
| HTTP API, web, CLI (`interfaces`) | remembered answers, a cached token | one handler per route | retries, restarts, edits from stale copies | the same permission through every interface; a retry has no second effect |
| Rate limiter, pagination | buckets, cursors | allow, list | threads with older clocks, rows that come and go | a bound on what is served; a list without gap or repetition |
| Catalog, artifacts, builds, evaluations (`application/catalog`, `application/authoring`, `infrastructure/artifacts`, `application/execution`, `application/evaluation`) | windows, versions, publications, blobs, build rows, image rows, runs | edit, publish, attach; materialize, download; build, launch; request, run, project | editors who validate what nobody stores; deaths between blob and row; builds under lost leases; racing requests | see `CatalogSafe`, `RowHasBlob`, `BuildsSafe`, `EvaluationsSafe` |
| Backup (`scripts/backup.sh`, `scripts/restore.sh`, `application/backup/verify.py`) | dump, tar, manifest | backup, restore, verify | a backup of a running platform, damage | the verdict is right in both directions |
| Schema and migrations (`alembic/`, `infrastructure/database/models.py`) | tables, keys, triggers | 17 revisions, up and down | old containers serve meanwhile | the schema is that of its revision; head equals the models |
| Local commands (`build.py`, `cve_source.py`, `scenario.py`, `agent_eval.py`, `dashboard_server.py`) | directories, cache files, a compose project, sessions and an event file | create_challenge; fetch; tick; legs; POST and poll | racing and dying processes | sections 2 and 3 |

### How the parts interact

* A request for an instance reserves quota and a worker (scheduler), stores the
  instance and enqueues a launch job, in three transactions; the worker that claims
  the job reports through the fenced queue verbs and fenced instance transitions;
  the reconciler repairs what a crash left in between.
* Every worker call passes the gateway, the service's own checks and the queue, in
  different transactions.
* A submission appends to the ledger; a trigger adds an outbox row; projectors fold
  the ledger into the cached board.
* A published version is materialized into the artifact store, built by a worker
  that fetches the bundle under its lease, and launched from the recorded digests.

## 2. Modules

| Module | Models | Uses |
|---|---|---|
| `JobLifecycle` | abstract: the legal-transition matrix of a job | |
| `JobQueue` | every verb of `SqlAlchemyJobQueue` under arbitrary clients | implements `JobLifecycle` |
| `WorkerLoop` | `run_forever`, `run_once`, `_process` | extends `JobQueue` |
| `WorkerEnrollment` | `WorkerEnrollmentService`, statement by statement | |
| `WorkerGate` | a worker's call through either client, the gateway and the service | |
| `QuotaLedger` | each ledger call as one action: the abstract ledger | |
| `QuotaLocks` | the same calls as transactions that take one row lock at a time | implements `QuotaLedger` |
| `Placement` | `select_and_reserve`, `release_expired` | extends `QuotaLedger` |
| `InstanceMatrix` | abstract: the state matrix and the generation of an instance | |
| `Instances`, `InstanceWorker`, `Reconciler` | the row and the service calls; the worker's handlers; `reconcile_once` | each extends the one before; implements `InstanceMatrix` |
| `Docker` | `DockerRuntimeBackend` call by call | |
| `Submissions` | `SubmissionProcessingService` and `ScoreProjector` | |
| `Scoreboard` | `compute_scoreboard` and the engines | |
| `Accounts` | authentication, sessions, OIDC, identity | |
| `Interfaces`, `Requests` | permissions and routes; how a request is served | `Requests` extends `Interfaces` |
| `Edge` | rate limiter, pagination and the client that follows cursors | |
| `Catalog`, `Artifacts`, `Builds`, `Evaluations` | as named | |
| `Backup` | the scripts and the verifier | |
| `SchemaModels`, `Migrations` | the ORM's tables; every Alembic revision | `Migrations` compares with `SchemaModels` |
| `WriteBuild`, `CveCache`, `Dashboard` | `write_build`; `cve_source.py`; `dashboard_server.py` with the event file | |
| `Scenario`, `LocalEval` | the tick loop; the commands that run a challenge locally | `LocalEval` extends `Scenario` |
| `*Proofs` (8 modules) | the theorems (section 5) | |
| `MC*` | the instances TLC checks (section 3) | |

A definition whose comment starts with "Mutant:" is a plausible bug in the
definition below it; no specification uses it.  It shows that the property it breaks
depends on that line of the code.

### Conventions

*Transactions.*  A step is what no other transaction can come between: one verb that
locks its row first is one action; a call that reads without a lock, or waits for a
row, is cut there.  A call of several transactions has a program counter and may
die between any two of them.

*Time* is relative where only a comparison with now matters (`ttl`, `delay` in
`JobQueue`), a bounded clock elsewhere.

*Data.*  Tokens, digests and hashes are values that never collide.  Payloads, texts,
priorities and rankings are left out or left open: `claim` may return any row that
passes its filter, `select_and_reserve` may try candidates in any order.

### Points worth knowing about single modules

* `JobQueue`: `held[w]` is what worker `w` remembers.  A worker never forgets a lease
  unless it says so, so a call with an old token is possible at any time.
* `QuotaLocks`: the counters others see change only at the commit; the variables of
  `QuotaLedger` are the committed rows.
* `Instances`: the hold and the job are reduced to a state; `QuotaLedger` and
  `JobQueue` have them in full.
* `WorkerGate`: `ping` sets the liveness stamp but nothing outside the tests calls it,
  so the stamp moves only with authenticated calls, as in the code.  The two clients
  agree on exceptions (`GateSafe`); they differ in what a network failure looks like,
  which only the HTTP client can meet.
* `Submissions`: a comment in the projector says the `as_of_seq` guard alone is enough
  and the lock per competition saves work.  The model says otherwise: without the lock
  (`MayFoldAlways`) two folds carry the same `as_of_seq` with different events, the
  later write may hold fewer, and `NothingSkipped` is violated.
* `Builds`: the names of the services of one compose file are taken to give distinct
  image tags.
* `Backup`: the verifier reports a scoreboard mismatch for a contest with events that
  no projector has seen (`Unprojected`); the properties except that case.
* `CveCache`: the name of the source is not part of a file's key, and keywords that
  differ only in punctuation share a file, so an answer is only promised to keep the
  category, score, date and limit of the query.
* `LocalEval`: `success_dropped` compares the two legs; a drop with the scripted agent
  has a denied request or a note behind it (`DropExplained`), one with a language
  model need not.
* `Edge`: the middleware calls the limiter on the event loop; the model lets threads
  call it, which the lock in it allows for.

### Output

`write_build` moves an earlier build aside, renames the new one in, and moves the old
one back when the rename fails and the path is free.  An *empty directory* at the path
is moved aside like a build, and `os.replace` may rename a directory over it.  With
three racing calls this matters: A has moved the empty directory aside; B publishes; A's
rename fails; C moves B's build aside; A finds the path free and moves the empty
directory back; C's own rename fails for an I/O error; C finds the path taken and
deletes the build it had set aside.  So the run leaves out instances with three
calls that all get that far and an empty directory, and the theorem `OutputSafeHolds`
is about `OutputSpec`, in which the path is not an empty directory at first.  Two
calls with an empty directory are checked.

## 3. Runs

Components that share no state are checked in one run: the variable `focus` picks what a
behaviour is about, and the other components stay at their initial state.

| Run | Instance | Shows |
|---|---|---|
| `job_queue` | 2 jobs, 2 workers, 3 tokens, leases of 1-2 ticks, attempts 2 and 1 | the fence, the cancel and the budget under arbitrary clients; the queue implements `JobLifecycle` |
| `worker_loop` | 1 build job with 2 attempts, 2 workers, with fairness | the loop uses the queue only as `JobQueue` allows; every enqueued job settles |
| `double_execution` | a job that fetches no bundle | finding: a dispatch longer than its lease runs twice at once |
| `reconciler` | 1 instance, 1 worker, 1 pass, 2 generations, 1 call of 4 kinds, 1 fault | no running container unrecorded; the row moves along the matrix |
| `reconciler_live` | the same without faults, with fairness | a lost launch is enqueued; what nobody wants is drained; leaks are swept |
| `fleet` | 2 callers for 2 reservations on 2 workers and 2 pools, one without a row; 2 enrollment calls, 3 credentials; one worker at the gate through either client | the ledger stays exact; callers hear the worker that is charged; trust and credentials agree; the gate refuses what it should and hears a held lease |
| `renewed_hold_swept` | placement, 1 caller | finding: the sweep releases a renewed hold |
| `hosts` | 2 workers on one Docker host with 1 fault; 2 operators who migrate between revisions 0, 7 and 17; 3 transactions over 2 reservations | Docker objects, migrations, and the implementation of `QuotaLedger` by `QuotaLocks` without a circular wait |
| `access` | 2 callers on 2 e-mails; every route for every kind of principal; pairs of requests with a restart; 3 edits; 2 threads at the limiter; lists of up to 5 rows | accounts, requests, interfaces, edge |
| `scores` | 2 submissions for 2 slots, 2 servers, 2 projectors; every log of up to 3 events under 6 configurations; 2 threads of the dashboard | submissions, projection, fold, dashboard; every pending row is served |
| `content` | 2 editors; 2 makers; 2 builders and every dependency graph of 1 and 3 services; 2 askers and 2 drains; 2 contests with 3 ledger rows; 6 scenarios; 3 writers with 1 fault and 1 death; 3 commands on 3 queries | the content side; about 2.7 million states |
| `lost_audit` | backup | finding: the verifier cannot notice a lost audit row |

Why the bounds are enough.  Two actors are what a race needs, and three are used where
the third can spoil what two left behind (`QuotaLocks`, `WriteBuild`, `CveCache`).  Two attempts
include the first, the retry and the exhaustion of the budget; a lease of one tick passes through
live, at the expiry instant and expired.  Demands and capacities differ so that some pairs of
reservations fit and others do not.  Two generations let a report of the older one
come late; three
credentials let a token be two rotations old.  Two pages and a cap need
five rows.  For the components of section 5 the theorems remove the bounds.

Reductions.  Symmetry is used for tokens, transactions, workers of a host, operators and editors, none of which a
property names.  The commands at the CVE cache are alike and each asks once, so they
ask in order (`AskInOrder`).  In the output focus only the first call may be without
`force` or have a renderer that errs in every way.

Deadlock is checked where the system always has something to do (the queue, the loop,
the fleet); the other runs have bounded instances that end.

Fairness.  *Worker loop*: the clock moves; the reaper is run again and again; a worker
process goes on with its code and is restarted when it is down (`restart:
unless-stopped` in `deploy/docker-compose.worker.yml`); a job that can be claimed again
and again is claimed, for `claim` orders by priority and age.  *Reconciler*: passes,
sweeps and reaper are run again and again, workers and calls go on with their code.
*Submissions*: a projector is run again and again.  *Fleet*: the sweep is run again and
again and does not die in every pass; an enrollment call goes on, and gets a lock it
waits for in turn.  Nothing is assumed about crashes, drains, cancels, failures or new
requests.

## 4. Findings

* `double_execution`: the lease is renewed only after the dispatch, so a dispatch that
  outlasts it runs beside the attempt the reaper allowed.
* `renewed_hold_swept`: `release_expired` does not look at `expires_at` again before it
  releases.
* `lost_audit`: `_load_manifest` drops the counter that the audit check needs.

`PROJECT.json` quotes the comment or document each of them disagrees with.

## 5. Proofs

Every theorem holds for all values of the constants that the assumptions named
`...Assumption` in the modules allow; TLC evaluates them for every instance above.
Each proof has the same plan: an inductive invariant holds initially, each action
preserves it (one lemma or step per action), and it implies the property.

**`QueueProofs`**: the properties of `job_queue`, the lease, stamp and audit invariants, three
action properties, and the implementation of `JobLifecycle`.  `QueueInv` conjoins the type invariant
with `LeaseMatchesStatus`, `FenceExclusive`, `CancelWins`, `AttemptBudget`,
`StampsMatchStatus` and `AuditCurrent`.  They need each other: the fence is
exclusive because an unleased row has no token and a claim mints a token nobody
remembers; a requeue keeps the budget because a leased row has spent at most
`max_attempts`.

For the worker process: `UsesQueue`, so the theorems above hold of the running
workers, and `OneLeasePerWorker`.  `LoopInv` adds that the lease in the local variables
of `_process` is the only one the process remembers, and is there exactly from `claim`
to the end of the job.

**`FleetProofs`**: enrollment, placement and the gate.
* `LiveCredentialMatchesTrust` for any number of calls.  It is not inductive: it
  needs what each call holds and knows.  `RowLock` says where the worker row is locked;
  `StampsExclusive` and `MintsExclusive` that an uncommitted revocation or insertion is the
  only one; `Progress` that a rotation past its check has the live credential locked, and that
  an approval that holds the row does so for a worker that is not revoked.
* `UsesLedgerHolds`, `PlacedWithinLimits`: every step of the scheduling service is a
  step of `QuotaLedger`, so its theorems hold with it.  `CallersAgreeHolds`: the worker in
  a header is never exchanged for another, so what a caller was told stays right.
* `GateSafeHolds`: whatever speaks against a request at the gate has been noted since it was
  sent and is not taken back; a job whose start was granted stays leased until
  the answer is there; an exception keeps its kind over the wire.

**`QuotaLedgerProofs`**: `Conserved` and `NoOvercommit` for any demands.  A counter is the number of pairs
of a held reservation and one of its units, so no recursive sum is needed and the facts
about cardinality carry the argument.  `Conserved` is what makes the clamp at zero in
`release` idle.

**`HostsProofs`**: the ledger's transactions and the Docker host.
* `AtomicHolds`, `NoWaitCycleHolds`: the implementation of `QuotaLedger`, so the committed counters
  are exact while transactions are open, and that no set of transactions waits in a
  circle.  `LocksInv` says what each transaction holds and has written: a counter it has
  written is locked by it and holds what is due at its commit.
  `reconcile_counters` turns out to be a stutter: the counters it recomputes are already right.
  For the circle, each transaction has a level, the position of what it waits
  for in the order worker row at insertion, header, counters as sorted; it holds nothing
  above its level, so a circle would have no highest level, which well-foundedness
  excludes.
* `PeersUntouchedHolds`, `DockerSafeHolds`: for any number of workers, instances and services.
  `UsersKnown`: whoever works on an instance, made its network or is about to reap it is
  one of its users, so a sole user's next call still meets what its last one saw.
  `StackKept` and `RulesKept` say how far a launch or a removal has come, and that no two
  networks share a subnet, so a rule belongs to one network.

**`ReconcilerProofs`**: `TrackedContainer` and `ImplementsMatrix` for any number of workers, passes and
generations.  A pass decides from a copy that may be stale; the invariant does not ask
the copy to be true, but only that every write goes through `MayMove` on the row as it
is, and that a handler that has started a container is at a point from which it records
it or removes it.

**`SubmissionsProofs`**: `SubmissionsSafe` and `NothingSkipped`.  `SubInv` has the submission lock (one
transaction per slot), the unique keys, what an open transaction has inserted, and for
the projection, under the competition lock, that a fold about to be stored has every event whose
row it claimed and every event the cache has, and does not go back behind its position.

* `DashboardSafeHolds`, of the local dashboard.  A token is in the table only until it is
  spent; the line that is being written is the only one that the list does not have,
  and only the last line can be torn.  The log that the list holds is numbered 1, 2, 3,
  so what `since(cursor)` filters out of it is a suffix, and a reader's pages join without
  gap; `Filtered` is a recursive function of the list, unfolded by induction on its length.
* `FoldSafeHolds`, for every log, every number of teams and challenges and every valid
  configuration.  The arithmetic comes first: rounding half to even is monotone and
  exact on whole numbers, so a value stays in its bounds and falls (`ValueFacts`), and
  the bonus follows the value.  The fold is then described without order: by induction
  on the log it has kept for each pair an earliest solve of those seen (`DedupFacts`), and
  an earliest solve is unique, since the order of `_solve_sort_key` is total on the solves
  of one pair.  So one more event changes at most one pair, and makes that one no
  later (`OneMoreEvent`); from this follow what it does to the number of solvers, to the
  first blood and to the points of every team (`PointsStep`), and to the sums over the challenges
  (`SumsMono`).

**`ContentProofs`**:
* `OutputSafeHolds`: `WbInv` says where a whole build is in each state of each call
  and that at most the I/O faults counted have cost one (`TmpWhole`, `KeptOut`, `Held`).
* `RowHasBlobHolds`: a row is preceded by its blob in the same process, and a blob once
  whole stays whole.  The newest row exists because the numbers of a finite set have a
  greatest, proved from well-foundedness of the cardinalities.
* `EvaluationsSafeHolds`: one run per key, and a success is final.
* `CatalogSafeHolds`, `PublishedOnceHolds`: versions are numbered densely because an
  editor that lost the race for a number is refused by the unique key; the window is
  sane because the CHECK constraints look at the stored row.
* `CveSafeHolds`: a file is unreadable while it is written, and what it holds otherwise
  was a whole answer for its key; queries of one key ask for the same category, score,
  date and limit.
* `BackupSafeHolds`: a board is the fold of the ledger up to its position, in the platform,
  in the dump and in the restored copy, so a faithful restore verifies.  A changed event is
  caught because the sum of the points of a set, whatever the order they are added in, is that
  of one of its events and that of the others (`TotalSplits`, by induction), so it moves
  with the event.  This holds when the boards were up to date (`AllCurrent`); a board that
  lags behind the changed event does not show it.
* `BuildsSafeHolds`.  The order of `validate_launch_order` by induction over the sets of services still to
  be placed: each prefix has the dependencies of its members.  It is found exactly when
  no walk along dependencies comes back: where nothing can be placed next, every service
  left waits for another one left, and a walk longer than their number meets one twice.
  Of the builds: the images a worker has were built by it from the services of the
  version, rows come only with a succeeded job, and a service has one digest.
* `LocalEvalSafeHolds`, for any scenario, agent and number of legs.  `LeInv` has a part for
  each command: what the legs have reported and why they differ (`LegInv`), the compose project
  that each exit leaves (`CleanInv`), files that a death has cut (`TornInv`), the plan that
  a replay follows and the defences that hold in a leg.
* `ScenarioSafeHolds`, for any scenarios, offline and live, under `ScenariosAssumption`: triggers have
  distinct ids, the responses of one move plan or one trigger too, and only the defender puts a trigger
  on a response.  What a role decides is a sequence of sequences put end to end; `FlattenIs`,
  by induction over how many there are, says that each entry comes from exactly one of them and keeps
  its place there.  Three parts of `SimInv` carry the argument.
  `TriggerInv`: a response of a trigger that fired is in the report or waits to be applied,
  and in one of the two once, so although its first response already marks a trigger as fired
  the others still come.  `PlanReady`: the attacker decides when nothing of its tick has been applied yet
  (`AppliedBefore`), so a flag that blocks it has a setter in an earlier tick.  `BusInv`: a
  checkpoint that is on the timeline is remembered.

**`AccessProofs`**:
* `AccountsSafeHolds`, for any number of callers, users and sessions.  A login state
  is in one place at a time (`StateInOnePlace`): pending in its row, in the callback that
  deleted the row, or in the session it led to.  Only stamps that end a session change
  its row, so what a rotation retired stays retired.
* `PatchKeepsOthersHolds`, for any people, commands and number of requests.  The handler
  merges into a row that it read before the lock; the version of the request is older than that read, and
  compared with the row again under the lock.  If the two are equal, the row has not
  changed in between, provided that no edit brings an earlier content back: the version
  is a hash of the content.  That is the assumption `~Reuse`.  With `Reuse`, TLC shows the
  edit that goes there and back between the read and the lock, and is then half undone.
* `ReplayFaithfulHolds`: an answer from the idempotency store goes only to a repetition
  of the request that earned it, through restarts.  Whatever is in the store was done by a
  known call, and scope, key and hash determine the request: also where the two
  requests came through routes of which only one names the competition in its path.
* `RequestsSafeHolds`, for any people, any requests in any interleaving and through
  restarts.  The one hypothesis, `TeamsNamed`, is that no team is called "any", which is
  the model's mark for a caller who is confined to no team.  `TableListed` first says of
  every route what the argument needs: where a permission of competition scope is
  asked for, which routes audit, what a route that honours a key does.  The
  invariant is `RequestsInv`.  `ServedInv`: an act was let in by the gate and shows
  what its request may see, and the row that a keyed request wrote is named after the key
  or the target and is there until a request removes it; so a second request under
  the key finds the row and writes nothing, also when the store forgot the first.
  `AuditInv`: whatever is about to be remembered, is in the store or was answered has its
  audit record.
* `InterfacesAgreeHolds`: an operation that the API and the web pages both offer lets
  the same people in, from the part of `TableListed` that gives permission and gate of
  each shared operation (`Agreed`).

* `EdgeSafeHolds`, for any number of threads, peers, rows and pages.  What a bucket has let in and what
  it holds come out of the burst and of the time up to its last check (`Spent`); a check with an
  older clock takes from it what that time had added and no more (`Debt`).  A request costs no more
  than the burst, because the burst is at least one request.  Of the list: what a client has is sorted, ends before the
  cursor, and has every row up to there that stayed, since the next page starts at the first
  row behind the cursor even if the row it names is gone.

### Induction

What an operator computes is proved by induction over a set: `NaturalInduction`,
`LeastNatural`, `GreatestIn` and `SubsetInduction` say that a set which has zero and every
successor, or every set all of whose proper subsets it has, has them all.  They follow from the
well-foundedness of `<` on the naturals.  For this the models use folds and recursive functions whose definition the
provers can unfold (`Deduped`, `Filtered`, `Ranked`, `TotalPoints`), and cycles as walks.
`FlattenSeq` is taken apart the same way (`FlattenIs`).
`SelectSeq`, `SortSeq` and functions of two arguments they cannot.

### Only model-checked

* Liveness is out of the prover's reach: `JobsSettle`, `LaunchNotLost`,
  `DrainConverges`, `LeaksSwept`, `PendingServed`.
* `MigrationsSafe` is about 17 fixed revisions, which TLC goes through entirely.

## 6. Not modelled

* The challenge generator and its templates: text from seeds, no state between calls.
* Report services: snapshots of what other components hold, in one transaction each.
* Answer verifiers: a pure comparison; `Submissions` takes the verdict as a choice.
* The legacy command line and the MCP server: argument parsing over functions that are
  modelled where they keep state.
* Row mappers and repository interfaces: field by field conversions and signatures.
* The Postgres event store: an alternative to the event file of `Dashboard`.
* SDK, test support and observability.
* Parts of modelled components: the runtime work inside a dispatch of `WorkerLoop` (its
  outcome is chosen), the agent harness of an evaluation, reset and restart handlers that
  nothing enqueues, log collection, CHECK constraints and column types in `Migrations`,
  the advisory weights of `AIResistanceWeightedEngine`.

A deleted instance is archived when every resource is released, and nothing in the
repository writes that state; so no property says that a deleted instance is archived.
