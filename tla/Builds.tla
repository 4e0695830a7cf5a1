------------------------------- MODULE Builds -------------------------------
(***************************************************************************)
(* From a published version to running containers: the build job, the      *)
(* bundle a worker fetches under its lease, the images it builds one by    *)
(* one, the completion that records them, and the launch that checks what  *)
(* was recorded.  A worker may lose its lease at any point and go on        *)
(* building; two builds of one service never have the same digest.         *)
(***************************************************************************)
EXTENDS Integers, FiniteSets, Sequences, SequencesExt

CONSTANTS Builder,        \* workers
          NoBuilder,
          SvcName,        \* 1..n: the services a compose file may name, in name order
          ComposeFiles,   \* compose files of the checked instance
          MaxLeases,      \* bound on the leases granted
          MaxDigests,     \* bound on the images built
          MaxDelivery     \* delivery attempts before the job is dead

MAX_STACK_SERVICES == 8
Solo == 1           \* the one image of a bundle without a compose file
NoCompose == [services |-> {}]
NoImage == 0
\* A compose file maps at least one service, and each is at its number by name.
ASSUME BuildsAssumption ==
    /\ SvcName \subseteq Nat /\ Solo \in SvcName
    /\ \A c \in ComposeFiles \ {NoCompose} :
          /\ c.services \subseteq SvcName /\ c.services # {} /\ IsFiniteSet(c.services)
          /\ c.deps \in [c.services -> SUBSET SvcName]
          /\ c.ports \subseteq c.services /\ c.usable \subseteq c.services

VARIABLES compose,    \* what the version's bundle holds
          bjob,       \* the build job: status, holder, fence and attempts
          bw,         \* what each worker is doing
          local,      \* local[w][s]: digest under the tag of service s on w's engine
          rows,       \* challenge_build_images and ..._stack_images
          cache,      \* workers that worker_image_cache names for the image
          runs,       \* what launches started
          digests     \* images built so far

bdVars == <<compose, bjob, bw, local, rows, cache, runs, digests>>

-----------------------------------------------------------------------------
(* The compose file.                                                        *)

\* The services of a set by name.
Ranked(T) == CHOOSE s \in [1..Cardinality(T) -> T] : Range(s) = T /\ \A i, j \in DOMAIN s : i < j => s[i] < s[j]

\* Layer by layer: all services whose dependencies are placed, by name.  With
\* onCycle the rest is appended when nothing is ready; without, it is dropped
\* and the caller sees a sequence that is too short.
Layers(S, deps, onCycle) ==
    LET place[R \in SUBSET S] ==
            LET ready == {n \in R : deps[n] \cap R = {}}
            IN  IF R = {} THEN <<>>
                ELSE IF ready = {} THEN IF onCycle THEN Ranked(R) ELSE <<>>
                ELSE Ranked(ready) \o place[R \ ready]
    IN  place[S]

_topological_order(c) == Layers(c.services, c.deps, FALSE)

\* A build context is missing, absolute or leads out of the bundle.
_safe_build_context(c, s) == s \in c.usable

ComposeManifestError(c) ==
    \/ Cardinality(c.services) > MAX_STACK_SERVICES
    \/ \E s \in c.services : ~_safe_build_context(c, s)
    \/ \E s \in c.services : ~ c.deps[s] \subseteq c.services
    \/ Len(_topological_order(c)) < Cardinality(c.services)

IsPrimary(c) == IF c.ports # {} THEN c.ports
                ELSE {CHOOSE s \in c.services : \A t \in c.services : s <= t}

parse_compose_manifest(c) == [order |-> _topological_order(c), primary |-> IsPrimary(c)]

\* The order in which images are built; a bundle without compose has one.
Plan(c) == IF c = NoCompose THEN <<Solo>> ELSE parse_compose_manifest(c).order
\* The last primary built, else the first image built.
Lead(c) == LET marked == {i \in DOMAIN Plan(c) : c # NoCompose /\ Plan(c)[i] \in IsPrimary(c)}
           IN  IF marked = {} THEN Plan(c)[1]
               ELSE Plan(c)[CHOOSE i \in marked : \A k \in marked : k <= i]

-----------------------------------------------------------------------------
(* The job.  Its key names the version and its spec, so triggering again    *)
(* finds the same job whatever became of it.                                *)
trigger_build ==
    /\ bjob.status = "absent"
    /\ bjob' = [bjob EXCEPT !.status = "queued"]
    /\ UNCHANGED <<compose, bw, local, rows, cache, runs, digests>>

BuildClaim(w) ==
    /\ bw[w].st = "idle"
    /\ bjob.status = "queued"
    /\ bjob.fence < MaxLeases
    /\ bjob' = [status |-> "leased", holder |-> w, fence |-> bjob.fence + 1, attempts |-> bjob.attempts + 1]
    /\ bw' = [bw EXCEPT ![w] = [st |-> "fetch", fence |-> bjob.fence + 1, built |-> <<>>]]
    /\ UNCHANGED <<compose, local, rows, cache, runs, digests>>

\* The lease ran out and was reaped, or the worker reported a failure.
ReapBuild ==
    /\ bjob.status = "leased"
    /\ bjob' = [bjob EXCEPT !.status = IF bjob.attempts >= MaxDelivery THEN "dead_letter" ELSE "queued",
                            !.holder = NoBuilder]
    /\ UNCHANGED <<compose, bw, local, rows, cache, runs, digests>>
RetryBuild ==
    /\ bjob.status = "dead_letter"
    /\ bjob' = [bjob EXCEPT !.status = "queued", !.attempts = 0]
    /\ UNCHANGED <<compose, bw, local, rows, cache, runs, digests>>

\* The lease of worker w is the current one.
BuildLease(w) == bjob.status = "leased" /\ bjob.fence = bw[w].fence

-----------------------------------------------------------------------------
(* The worker. *)
GiveUp(w) == bw' = [bw EXCEPT ![w].st = "failing"]

\* The server renews the lease and checks that it is for this version and
\* held by the caller; then it renders the bundle.  What arrives may be over
\* the ceiling or damaged, which the worker finds by the two hashes.
_verify_build_lease(w) == BuildLease(w) /\ bjob.holder = w
fetch_build_bundle(w) ==
    /\ bw[w].st = "fetch"
    /\ \/ /\ _verify_build_lease(w)
          /\ compose = NoCompose \/ ~ComposeManifestError(compose)
          /\ bw' = [bw EXCEPT ![w].st = "build"]
       \/ GiveUp(w)
    /\ UNCHANGED <<compose, bjob, local, rows, cache, runs, digests>>

\* A row for each image as soon as it is built.
_build_imageRecording(w) ==
    /\ bw[w].st = "build"
    /\ digests < MaxDigests
    /\ LET s == Plan(compose)[Len(bw[w].built) + 1]
           now == Append(bw[w].built, digests + 1)
       IN  /\ local' = [local EXCEPT ![w][s] = digests + 1]
           /\ rows' = [rows EXCEPT !.stack = @ \cup {[service |-> s, digest |-> digests + 1, deps |-> {}, primary |-> FALSE]}]
           /\ bw' = [bw EXCEPT ![w].built = now,
                               ![w].st = IF Len(now) = Len(Plan(compose)) THEN "done" ELSE "build"]
    /\ digests' = digests + 1
    /\ UNCHANGED <<compose, bjob, cache, runs>>
\* One image; the build may fail, or its context hold no Dockerfile.
_build_image(w) ==
    /\ bw[w].st = "build"
    /\ \/ /\ digests < MaxDigests
          /\ LET s == Plan(compose)[Len(bw[w].built) + 1]
                 now == Append(bw[w].built, digests + 1)
             IN  /\ local' = [local EXCEPT ![w][s] = digests + 1]
                 /\ bw' = [bw EXCEPT ![w].built = now,
                                     ![w].st = IF Len(now) = Len(Plan(compose)) THEN "done" ELSE "build"]
          /\ digests' = digests + 1
       \/ GiveUp(w) /\ UNCHANGED <<local, digests>>
    /\ UNCHANGED <<compose, bjob, rows, cache, runs>>

Digest(w, s) == bw[w].built[CHOOSE i \in DOMAIN Plan(compose) : Plan(compose)[i] = s]

\* The entry per service that _build_from_bundle reports and
\* parse_build_completion reads back.
ServiceImage(w, s) == [service |-> s, digest |-> Digest(w, s), deps |-> compose.deps[s],
                       primary |-> s \in parse_compose_manifest(compose).primary]
BuildCompletion(w) ==
    [image |-> {[ref |-> Lead(compose), digest |-> Digest(w, Lead(compose))]},
     stack |-> {ServiceImage(w, s) : s \in compose.services}]

\* on_conflict_do_nothing: a row that exists stays as it is.
AddImages(table, new) == table \cup {r \in new : \A q \in table : q.ref # r.ref}
AddServices(table, new) == table \cup {r \in new : \A q \in table : q.service # r.service}

Recorded(w) == /\ rows' = [image |-> AddImages(rows.image, BuildCompletion(w).image),
                           stack |-> AddServices(rows.stack, BuildCompletion(w).stack)]
               /\ cache' = cache \cup {w}

CompleteBuild(w) ==
    /\ bw[w].st = "done"
    /\ \/ /\ BuildLease(w)
          /\ Recorded(w)
          /\ bjob' = [bjob EXCEPT !.status = "succeeded", !.holder = NoBuilder]
       \/ /\ ~BuildLease(w)
          /\ UNCHANGED <<rows, cache, bjob>>
    /\ bw' = [bw EXCEPT ![w] = [st |-> "idle"]]
    /\ UNCHANGED <<compose, local, runs, digests>>

FailBuild(w) ==
    /\ bw[w].st = "failing"
    /\ bjob' = IF BuildLease(w) THEN [bjob EXCEPT !.status = IF bjob.attempts >= MaxDelivery THEN "dead_letter" ELSE "queued",
                                                  !.holder = NoBuilder]
               ELSE bjob
    /\ bw' = [bw EXCEPT ![w] = [st |-> "idle"]]
    /\ UNCHANGED <<compose, local, rows, cache, runs, digests>>

DieBuilding(w) ==
    /\ bw[w].st # "idle"
    /\ bw' = [bw EXCEPT ![w] = [st |-> "idle"]]
    /\ UNCHANGED <<compose, bjob, local, rows, cache, runs, digests>>

-----------------------------------------------------------------------------
(* The launch of an instance of the version on a worker.                    *)

\* The newest image row names the instance's image; the stack is the rows of
\* the bundle that has a primary row with that image.
latest_image_ref_for_version == (CHOOSE r \in rows.image : TRUE).ref
stack_for_primary_image(ref) ==
    IF \E r \in rows.stack : r.service = ref /\ r.primary THEN rows.stack ELSE {}

\* Dependencies that are not rows of the stack are ignored.
_order_stack(stack) ==
    LET names == {r.service : r \in stack}
        deps == [n \in names |-> (CHOOSE r \in stack : r.service = n).deps \cap names]
    IN  Layers(names, deps, TRUE)

_refuse_on_digest_mismatch(w, s, digest) == local[w][s] # digest

LaunchOn(w) ==
    /\ bw[w].st = "idle"
    /\ rows.image # {}
    /\ LET ref == latest_image_ref_for_version
           stack == stack_for_primary_image(ref)
       IN  \/ /\ stack # {}
              /\ \A r \in stack : ~_refuse_on_digest_mismatch(w, r.service, r.digest)
              /\ LET order == _order_stack(stack)
                 IN  runs' = runs \cup {[i \in DOMAIN order |-> <<order[i], local[w][order[i]]>>]}
           \/ /\ stack = {}
              /\ \A r \in rows.image : ~_refuse_on_digest_mismatch(w, r.ref, r.digest)
              /\ runs' = runs \cup {<< <<ref, local[w][ref]>> >>}
    /\ UNCHANGED <<compose, bjob, bw, local, rows, cache, digests>>

-----------------------------------------------------------------------------
BdInit ==
    /\ compose \in ComposeFiles
    /\ bjob = [status |-> "absent", holder |-> NoBuilder, fence |-> 0, attempts |-> 0]
    /\ bw = [w \in Builder |-> [st |-> "idle"]]
    /\ local = [w \in Builder |-> [s \in SvcName |-> NoImage]]
    /\ rows = [image |-> {}, stack |-> {}]
    /\ cache = {} /\ runs = {} /\ digests = 0

BdNext == \/ trigger_build \/ ReapBuild \/ RetryBuild
          \/ \E w \in Builder : \/ BuildClaim(w) \/ fetch_build_bundle(w) \/ _build_image(w)
                                \/ CompleteBuild(w) \/ FailBuild(w) \/ DieBuilding(w) \/ LaunchOn(w)
BdSpec == BdInit /\ [][BdNext]_bdVars

-----------------------------------------------------------------------------
(* Properties. *)

\* The dependency relation of a compose file, every edge from a service to
\* one it needs.
Needs(c) == {e \in c.services \X c.services : e[2] \in c.deps[e[1]]}
Acyclic(c) == ~\E n \in 1..Cardinality(c.services) : \E walk \in [0..n -> c.services] :
                    walk[0] = walk[n] /\ \A i \in 1..n : <<walk[i - 1], walk[i]>> \in Needs(c)

\* A compose file is accepted exactly when it is small enough, its contexts are
\* usable and its dependencies are known and have no cycle; the build order then
\* puts every service after what it needs, and the order the launching worker
\* computes on its own from the recorded rows is the same one
\* (compose_manifest.py _topological_order, worker.py _order_stack).
OrdersAgree ==
    compose # NoCompose =>
      LET c == compose
          recorded == {[service |-> s, digest |-> s, deps |-> c.deps[s], primary |-> FALSE] : s \in c.services}
          order == _topological_order(c)
      IN  /\ ComposeManifestError(c) <=> \/ Cardinality(c.services) > MAX_STACK_SERVICES
                                         \/ c.usable # c.services
                                         \/ \E s \in c.services : ~ c.deps[s] \subseteq c.services
                                         \/ ~Acyclic(c)
          /\ ~ComposeManifestError(c) =>
               /\ \A i, k \in DOMAIN order : <<order[i], order[k]>> \in Needs(c) => k < i
               /\ Range(order) = c.services
               /\ _order_stack(recorded) = order

\* A job that has succeeded has left its image, and a stack is recorded whole
\* or not at all, whoever died or lost the lease half way (worker_job_service.py
\* complete).
NoHalfBuild ==
    /\ bjob.status = "succeeded" => rows.image # {}
    /\ {r.service : r \in rows.stack} \in {{}, compose.services}
    /\ rows.stack # {} => rows.image # {}

\* A worker that the cache names holds, under the tag of every recorded
\* service, the image that was recorded, so the scheduler's preference for it
\* cannot end in a refused launch (worker_job_service.py complete, worker.py
\* _refuse_on_digest_mismatch).
CacheHonest ==
    \A w \in cache : /\ \A r \in rows.stack : local[w][r.service] = r.digest
                     /\ \A r \in rows.image : local[w][r.ref] = r.digest

\* A launch starts every service of the compose file, what it needs first, and
\* each from the image that was recorded for it (worker.py _do_launch,
\* _launch_stack).
WholeStackRuns ==
    \A run \in runs :
        IF compose = NoCompose THEN run = << <<Solo, (CHOOSE r \in rows.image : TRUE).digest>> >>
        ELSE /\ [i \in DOMAIN run |-> run[i][1]] = _topological_order(compose)
             /\ \A i \in DOMAIN run : \E r \in rows.stack : r.service = run[i][1] /\ r.digest = run[i][2]

\* A stack is launched only from images that were all built and recorded, in
\* the order its builder meant.
BuildsSafe ==
    /\ OrdersAgree
    /\ NoHalfBuild
    /\ CacheHonest
    /\ WholeStackRuns
=============================================================================
