----------------------------- MODULE Instances ------------------------------
(***************************************************************************)
(* One challenge instance: its row, its capacity hold, its corrective jobs *)
(* and its container, under the calls of InstanceLifecycleService and the  *)
(* instance handlers of the workers.  Every service call is several        *)
(* transactions, so each call has a program counter, and may die between   *)
(* two of them.  The hold is what QuotaLedger and Placement model in full: *)
(* here it has a state and a worker.  A job is what JobQueue models: here  *)
(* it waits, runs, has succeeded or is dead.                               *)
(***************************************************************************)
EXTENDS Naturals, FiniteSets

CONSTANTS
    Worker,        \* the enrolled workers
    NoWorker,      \* no assignment
    MaxGen,        \* bound: the generations an instance goes through
    OtherReports   \* states a worker may report beside those of its handlers

ASSUME InstancesAssumption == NoWorker \notin Worker /\ MaxGen \in Nat \ {0}

VARIABLES
    row,       \* the instances row: state, desired, gen, worker
    hold,      \* the reservation keyed by the instance: state and worker
    jobs,      \* jobs[g][a]: the job with key (instance, g, a)
    obs,       \* the newest health observation: gen and what
    live,      \* generations with a runtime resource in state active
    dropping,  \* generations with a runtime resource in state releasing
    exposed,   \* whether an endpoint is recorded
    box,       \* the workers on whose host a container of it exists
    tracked,   \* those whose container has a recorded runtime resource
    lost,      \* history: those that crashed before they could record it
    out,       \* workers that are draining, quarantined or revoked
    quiet,     \* workers whose heartbeat is stale
    call,      \* the service call in progress: op, pc and what it has read
    exec       \* exec[w]: the job handler worker w runs

rowVars  == <<row, hold, jobs>>
factVars == <<obs, live, dropping, exposed>>
hostVars == <<box, tracked, lost>>
instVars == <<rowVars, factVars, hostVars, out, quiet, call, exec>>

Matrix == INSTANCE InstanceMatrix WITH state <- row.state, generation <- row.gen

Gen    == 1..MaxGen
Action == {"launch", "stop", "expire", "delete"}

\* The columns of the instances table that anything here depends on.
InstanceRow == [state : Matrix!InstanceState \cup {"none"}, desired : {"active", "stopped", "deleted"},
                gen : Gen, worker : Worker \cup {NoWorker}]

\* The newest row of health_observations, or none yet (generation 0).
Observation == [gen : Gen \cup {0}, what : {"absent", "sick", "healthy"}]

\* The generations of the runtime_resources rows in one state.
ResourceSet == SUBSET Gen

\* What the row is before it is inserted: its column defaults.
NewRow == [state |-> "none", desired |-> "active", gen |-> 1, worker |-> NoWorker]

\* The reservation, the state of a job, a service call and a handler.
Hold == [state : {"none", "held", "released"}, worker : Worker \cup {NoWorker}]
JobState == {"none", "queued", "running", "succeeded", "dead"}
CallPc == {"idle", "reserve", "place", "enqueue", "rehold", "release"}
CallRecord == [op : {"none", "request", "stop", "reset", "expire"}, pc : CallPc,
               gen : Gen, worker : Worker \cup {NoWorker}]
ExecPc == {"idle", "down", "read", "reserve", "assign", "start", "facts", "health", "starting",
           "starting only", "healthy", "remove", "absent", "stopping", "stopped", "release",
           "complete", "fail"}
ExecRecord == [act : Action \cup {"none"}, gen : Gen, pc : ExecPc, seen : Gen,
               worker : Worker \cup {NoWorker}]

NoCall == [op |-> "none", pc |-> "idle", gen |-> 1, worker |-> NoWorker]
NoExec == [act |-> "none", gen |-> 1, pc |-> "idle", seen |-> 1, worker |-> NoWorker]

InstTypeOK ==
    /\ row \in InstanceRow /\ hold \in Hold /\ jobs \in [Gen -> [Action -> JobState]]
    /\ obs \in Observation /\ {live, dropping} \subseteq ResourceSet /\ exposed \in BOOLEAN
    /\ tracked \subseteq box /\ box \subseteq Worker
    /\ call \in CallRecord /\ exec \in [Worker -> ExecRecord]

InstInit ==
    /\ row = NewRow
    /\ hold = [state |-> "none", worker |-> NoWorker]
    /\ jobs = [g \in Gen |-> [a \in Action |-> "none"]]
    /\ obs = [gen |-> 0, what |-> "absent"]
    /\ live = {} /\ dropping = {} /\ exposed = FALSE
    /\ box = {} /\ tracked = {} /\ lost = {}
    /\ out = {} /\ quiet = {}
    /\ call = NoCall
    /\ exec = [w \in Worker |-> NoExec]

-----------------------------------------------------------------------------
(* The store *)

\* A write to an archived row is refused by the trigger.
Writable(r) == r.state \notin {"none", "archived"}

\* Mutant: the trigger checks no more than that the row is not archived.
MayMoveAnywhere(r, t) == Writable(r)

\* What instance_transition_guard lets through.
MayMove(r, t) == Writable(r) /\ (t = r.state \/ t \in Matrix!LegalNext(r.state))

Moved(r, t) == [r EXCEPT !.state = t]

\* What else the repository writes under the lock of the row.
add == Moved(NewRow, "requested")
set_desired_state(r, d) == [r EXCEPT !.desired = d]
set_assignment(r, w) == [r EXCEPT !.worker = w]
bump_generation(r) == [r EXCEPT !.gen = @ + 1]

\* The facts about a launch, each with the generation it belongs to.
record_runtime_resource(g) == live' = live \cup {g}
record_endpoint == exposed' = TRUE
append_observation(g, what) == obs' = [gen |-> g, what |-> what]

\* What the reconciler takes back of them.
set_resource_state(gens) == live' = live \ gens /\ dropping' = dropping \cup gens
delete_endpoint == exposed' = FALSE

\* What still hangs on an archived instance.
list_leaked_resources == IF row.state = "archived" THEN live ELSE {}
list_orphan_endpoints == row.state = "archived" /\ exposed

\* Entering one of these releases the hold.
ReleaseStates == {"stopped", "expired", "archived"}

Released(h) == IF h.state = "held" THEN [h EXCEPT !.state = "released"] ELSE h

\* enqueue_idempotent: any row with the key is enough, also a finished one.
Enqueued(g, a) == IF jobs[g][a] = "none" THEN [jobs EXCEPT ![g][a] = "queued"] ELSE jobs

\* select_and_reserve: a held reservation is returned, a released one is
\* re-held where it was, and only a new one looks for an eligible worker.
Reserved(h) == CASE h.state = "held"     -> {h}
                 [] h.state = "released" -> {[h EXCEPT !.state = "held"]}
                 [] OTHER -> {[state |-> "held", worker |-> w] : w \in Worker \ (out \cup quiet)}

-----------------------------------------------------------------------------
(* The service: request_instance, request_stop, request_reset,             *)
(* request_delete, expire                                                  *)

Enter(op, pc, g) == call' = [op |-> op, pc |-> pc, gen |-> g, worker |-> NoWorker]
Step(pc) == call' = [call EXCEPT !.pc = pc]
Return == call' = NoCall
Elsewhere == UNCHANGED <<factVars, hostVars, out, quiet, exec>>

\* The row is created, or found still in requested by a retry.
RequestInstance ==
    /\ call = NoCall
    /\ \/ /\ row.state = "none"
          /\ row' = add
       \/ row.state = "requested" /\ UNCHANGED row
    /\ Enter("request", "reserve", row.gen)
    /\ UNCHANGED <<hold, jobs>> /\ Elsewhere

RequestReserve ==
    /\ call.op = "request" /\ call.pc = "reserve"
    /\ \E h \in Reserved(hold) : /\ hold' = h
                                 /\ call' = [call EXCEPT !.pc = "place", !.worker = h.worker]
    /\ UNCHANGED <<row, jobs>> /\ Elsewhere

\* The assignment and the move to queued share a transaction.
RequestPlace ==
    /\ call.op = "request" /\ call.pc = "place"
    /\ IF MayMove(row, "queued")
       THEN /\ row' = Moved(set_assignment(row, call.worker), "queued")
            /\ call' = [call EXCEPT !.pc = "enqueue", !.gen = row.gen]
       ELSE Return /\ UNCHANGED row
    /\ UNCHANGED <<hold, jobs>> /\ Elsewhere

\* The last transaction of request, stop, reset and expire.
CallAction == CASE call.op = "stop"   -> "stop"
                [] call.op = "expire" -> "expire"
                [] OTHER              -> "launch"

CallEnqueue ==
    /\ call.pc = "enqueue"
    /\ jobs' = Enqueued(call.gen, CallAction)
    /\ Return
    /\ UNCHANGED <<row, hold>> /\ Elsewhere

RequestStop ==
    /\ call = NoCall /\ Writable(row)
    /\ row' = set_desired_state(row, "stopped")
    /\ Enter("stop", "enqueue", row.gen)
    /\ UNCHANGED <<hold, jobs>> /\ Elsewhere

\* Bound: MaxGen.  The desired state is left as it is.
RequestReset ==
    /\ call = NoCall /\ Writable(row) /\ row.gen < MaxGen
    /\ row' = bump_generation(row)
    /\ Enter("reset", "rehold", row.gen + 1)
    /\ UNCHANGED <<hold, jobs>> /\ Elsewhere

\* renew keeps a hold, reactivate re-holds a released one; the routes pass no
\* requirements, so an instance that never had a hold gets none.
ResetRehold ==
    /\ call.op = "reset" /\ call.pc = "rehold"
    /\ hold' = IF hold.state = "released" THEN [hold EXCEPT !.state = "held"] ELSE hold
    /\ Step("enqueue")
    /\ UNCHANGED <<row, jobs>> /\ Elsewhere

RequestDelete ==
    /\ call = NoCall /\ Writable(row)
    /\ row' = set_desired_state(row, "deleted")
    /\ UNCHANGED <<hold, jobs, call>> /\ Elsewhere

Expire ==
    /\ call = NoCall
    /\ row.state # "expired" /\ MayMove(row, "expired")
    /\ row' = Moved(row, "expired")
    /\ Enter("expire", "release", row.gen)
    /\ UNCHANGED <<hold, jobs>> /\ Elsewhere

ExpireRelease ==
    /\ call.op = "expire" /\ call.pc = "release"
    /\ hold' = Released(hold)
    /\ Step("enqueue")
    /\ UNCHANGED <<row, jobs>> /\ Elsewhere

\* A quota refuses, or no worker is eligible: the row stays in requested.
RequestRefused ==
    /\ call.op = "request" /\ call.pc = "reserve"
    /\ Return
    /\ UNCHANGED rowVars /\ Elsewhere

\* The process dies: the call ends where it is.
CallEnds ==
    /\ call # NoCall
    /\ Return
    /\ UNCHANGED rowVars /\ Elsewhere

\* release_expired reaches the hold.
SweepHold ==
    /\ hold.state = "held"
    /\ hold' = Released(hold)
    /\ UNCHANGED <<row, jobs, call>> /\ Elsewhere
=============================================================================
