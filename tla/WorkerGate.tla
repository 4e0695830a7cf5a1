----------------------------- MODULE WorkerGate ------------------------------
(***************************************************************************)
(* The gate between a worker and the job queue: WorkerJobService, reached   *)
(* in process (LocalControlPlaneClient) or through the worker gateway       *)
(* (HttpControlPlaneClient, interfaces/api/worker_gateway).  A request is   *)
(* several transactions: the gateway authenticates, the service             *)
(* authenticates again and looks at drain flag and liveness stamp, and only *)
(* then the queue is asked.  Between any two of them the credential, the    *)
(* flag, the stamp and the lease may change.                                *)
(*                                                                          *)
(* A dispatch reports on its instance through WorkerInstanceService, whose  *)
(* gate looks at the assignment instead.                                    *)
(*                                                                          *)
(* One worker and one job; authentication is WorkerEnrollment's, the queue  *)
(* JobQueue's, and both are reduced to what the gate sees of them.          *)
(***************************************************************************)
EXTENDS Naturals

CONSTANTS
    Transports,   \* the clients looked at: "http", "local"
    MaxAge        \* heartbeat_max_age_seconds, in ticks
ASSUME GateAssumption == Transports \subseteq {"http", "local"} /\ MaxAge \in Nat

VARIABLES
    transport,    \* the worker's client
    trusted,      \* what authenticate says of the worker's credential
    scopes,       \* the scopes of the credential
    drain,        \* drain_requested_at is set
    age,          \* the age of last_heartbeat_at; Never without one
    work,         \* the job: "queued", "leased", "running" or "ended"
    grip,         \* the worker's lease token is the job's
    pos,          \* the next call of the worker's loop
    req,          \* its request in progress
    pings         \* the pings that are authorized and not written yet
gateVars == <<transport, trusted, scopes, drain, age, work, grip, pos, req, pings>>

Never == MaxAge + 2
LeaseCalls == {"start", "heartbeat", "complete", "fail"}
Scope == [claim |-> "jobs:claim", start |-> "jobs:heartbeat", heartbeat |-> "jobs:heartbeat",
          complete |-> "jobs:complete", fail |-> "jobs:complete", report |-> "instances:report"]
AllScopes == {Scope[m] : m \in DOMAIN Scope}

\* A request: what was called, where it is, its outcome, and, as history,
\* whether the worker was draining all along, and what was against it since
\* it was sent.
NoReq == [m |-> "none", at |-> "idle", out |-> "none", late |-> FALSE, against |-> {}]

GateInit ==
    /\ transport \in Transports
    /\ trusted = TRUE /\ scopes \in {AllScopes, AllScopes \ {"jobs:claim"}}
    /\ drain = FALSE /\ age = Never
    /\ work = "queued" /\ grip = FALSE
    /\ pos = "authenticate" /\ req = NoReq /\ pings = 0
-----------------------------------------------------------------------------
\* The request's way.

\* The worker's loop makes the call; the local client's authenticate asks
\* nobody.
Send(m) ==
    /\ pos = m \/ (m = "report" /\ pos = "dispatch")
    /\ req = NoReq
    /\ req' = [m |-> m, at |-> IF transport = "http" THEN "gateway" ELSE "service", out |-> "none", late |-> drain,
               against |-> {x \in {"credential", "lease"} : IF x = "lease" THEN ~grip ELSE ~trusted}]
    /\ UNCHANGED <<transport, trusted, scopes, drain, age, work, grip, pos, pings>>

Ends(out) == req' = [req EXCEPT !.at = "answer", !.out = out]
Goes(at) == req' = [req EXCEPT !.at = at]
Control == UNCHANGED <<transport, trusted, scopes, drain, age, pos, pings>>

\* The gateway's own authentication, for every route.
require_worker ==
    /\ req.at = "gateway"
    /\ IF ~trusted THEN Ends("WorkerAuthenticationError")
       ELSE IF req.m = "authenticate" THEN Ends("ok") ELSE Goes("service")
    /\ Control /\ UNCHANGED <<work, grip>>
LocalAuthenticate ==
    /\ req.at = "service" /\ req.m = "authenticate"
    /\ Ends("ok")
    /\ Control /\ UNCHANGED <<work, grip>>

EveryCall(m) == TRUE
forbid_drain(m) == m = "claim"
check_liveness(m) == m = "claim"
Fresh == age <= MaxAge

_authorize ==
    /\ req.at = "service" /\ req.m \in LeaseCalls \cup {"claim"}
    /\ IF ~trusted THEN Ends("WorkerAuthenticationError")
       ELSE IF Scope[req.m] \notin scopes THEN Ends("ScopeError")
       ELSE IF forbid_drain(req.m) /\ drain THEN Ends("WorkerDrainingError")
       ELSE IF check_liveness(req.m) /\ ~Fresh THEN Ends("WorkerStaleError")
       ELSE Goes("queue")
    /\ Control /\ UNCHANGED <<work, grip>>

\* Whose instance it is at that moment, InstanceWorker says.
_authorize_owner ==
    /\ req.at = "service" /\ req.m = "report"
    /\ IF ~trusted THEN Ends("WorkerAuthenticationError")
       ELSE IF Scope[req.m] \notin scopes THEN Ends("ScopeError")
       ELSE \E out \in {"ok", "LookupError", "InstanceOwnershipError"} : Ends(out)
    /\ Control /\ UNCHANGED <<work, grip>>

claim ==
    /\ req.at = "queue" /\ req.m = "claim"
    /\ IF work = "queued" THEN work' = "leased" /\ grip' = TRUE /\ Ends("lease")
       ELSE Ends("no job") /\ UNCHANGED <<work, grip>>
    /\ Control
\* What a call that is fenced by the lease token makes of the job; a failure
\* that is retried puts it back.
Effect(m) == CASE m = "start" -> {"running"} [] m = "heartbeat" -> {work}
               [] m = "complete" -> {"ended"} [] m = "fail" -> {"ended", "queued"}
Current == grip /\ (req.m = "start" => work = "leased")
LeaseCall ==
    /\ req.at = "queue" /\ req.m \in LeaseCalls
    /\ \/ /\ Current
          /\ work' \in Effect(req.m)
          /\ grip' = (req.m \in {"start", "heartbeat"})
          /\ Ends("ok")
       \/ ~Current /\ Ends("LookupError") /\ UNCHANGED <<work, grip>>
    /\ Control
-----------------------------------------------------------------------------
\* The answer on the wire.

\* The exception handlers of the API: status and code.
Wire(out) ==
    CASE out = "WorkerAuthenticationError" -> <<401, "unauthorized">>
      [] out = "ScopeError" -> <<403, "forbidden">>
      [] out = "InstanceOwnershipError" -> <<403, "forbidden_ownership">>
      [] out = "WorkerDrainingError" -> <<409, "worker_draining">>
      [] out = "WorkerStaleError" -> <<409, "worker_stale">>
      [] out = "LookupError" -> <<404, "not_found">>
      [] out = "no job" -> <<204, out>>
      [] OTHER -> <<200, out>>
\* What the client makes of them.
_raise_for_status(w) ==
    CASE w[1] = 401 -> "WorkerAuthenticationError"
      [] w[1] = 403 -> IF w[2] = "forbidden_ownership" THEN "InstanceOwnershipError" ELSE "ScopeError"
      [] w[1] = 404 -> "LookupError"
      [] w[1] = 409 -> IF w[2] = "worker_draining" THEN "WorkerDrainingError" ELSE "WorkerStaleError"
      [] OTHER -> w[2]
Received == IF transport = "http" THEN _raise_for_status(Wire(req.out)) ELSE req.out

\* The loop goes on with what it got.  An exception of the dispatch fails the
\* job; every other one ends the process, and a new one starts over and knows
\* nothing of a lease.
After(m, got) ==
    CASE m = "report" -> IF got = "ok" THEN "dispatch" ELSE "fail"
      [] got \notin {"ok", "lease", "no job"} -> "authenticate"
      [] m = "authenticate" -> "claim"
      [] m = "claim" -> IF got = "lease" THEN "start" ELSE "authenticate"
      [] m = "start" -> "dispatch"
      [] m = "heartbeat" -> "complete"
      [] OTHER -> "authenticate"
Receive ==
    /\ req.at = "answer"
    /\ pos' = After(req.m, Received)
    /\ req' = NoReq
    /\ grip' = (grip /\ pos' \in LeaseCalls \cup {"dispatch"})
    /\ UNCHANGED <<transport, trusted, scopes, drain, age, work, pings>>
\* The reply is lost, or the process dies waiting for it.
LoseReply ==
    /\ req.at = "answer"
    /\ pos' = "authenticate" /\ req' = NoReq /\ grip' = FALSE
    /\ UNCHANGED <<transport, trusted, scopes, drain, age, work, pings>>
Dispatch ==
    /\ pos = "dispatch" /\ req = NoReq
    /\ pos' \in {"heartbeat", "fail"}
    /\ UNCHANGED <<transport, trusted, scopes, drain, age, work, grip, req, pings>>
-----------------------------------------------------------------------------
\* What happens beside the request.

Note(what) == IF req = NoReq THEN req ELSE [req EXCEPT !.against = @ \cup {what}]
Trust(t) ==
    /\ trusted # t /\ trusted' = t
    /\ req' = IF t THEN req ELSE Note("credential")
    /\ UNCHANGED <<transport, scopes, drain, age, work, grip, pos, pings>>
Drain ==
    /\ ~drain /\ drain' = TRUE
    /\ UNCHANGED <<transport, trusted, scopes, age, work, grip, pos, req, pings>>
Resume ==
    /\ drain /\ drain' = FALSE
    /\ req' = [req EXCEPT !.late = FALSE]
    /\ UNCHANGED <<transport, trusted, scopes, age, work, grip, pos, pings>>
\* ping authorizes in one transaction and writes the stamp in another.
PingAuthorized ==
    /\ trusted /\ pings = 0 /\ pings' = 1
    /\ UNCHANGED <<transport, trusted, scopes, drain, age, work, grip, pos, req>>
PingWritten ==
    /\ pings = 1 /\ pings' = 0 /\ age' = 0
    /\ UNCHANGED <<transport, trusted, scopes, drain, work, grip, pos, req>>
Tick ==
    /\ age <= MaxAge /\ age' = age + 1
    /\ UNCHANGED <<transport, trusted, scopes, drain, work, grip, pos, req, pings>>
\* The lease expires and the job is queued again, for anyone.
Reap ==
    /\ work \in {"leased", "running"}
    /\ work' = "queued" /\ grip' = FALSE
    /\ req' = Note("lease")
    /\ UNCHANGED <<transport, trusted, scopes, drain, age, pos, pings>>

GateNext ==
    \/ \E m \in LeaseCalls \cup {"authenticate", "claim", "report"} : Send(m)
    \/ require_worker \/ LocalAuthenticate \/ _authorize \/ _authorize_owner \/ claim \/ LeaseCall
    \/ Receive \/ LoseReply \/ Dispatch
    \/ Trust(TRUE) \/ Trust(FALSE) \/ Drain \/ Resume
    \/ PingAuthorized \/ PingWritten \/ Tick \/ Reap
GateSpec == GateInit /\ [][GateNext]_gateVars
-----------------------------------------------------------------------------
(***************************************************************************)
(* A claim that is sent to a draining worker's gate gets no lease, unless   *)
(* the drain was lifted meanwhile: the flag and the lease are looked at in  *)
(* different transactions.  (_authorize with forbid_drain, claim)           *)
(***************************************************************************)
DrainHeeded == req.late /\ req.m = "claim" => req.out # "lease"

(***************************************************************************)
(* A worker that reports on a lease it holds is never refused for draining  *)
(* or for a stale stamp, however long the dispatch took: refused, the lease *)
(* would be reaped and the job executed twice.  Only its credential or the  *)
(* loss of the lease may stand against it.  (WorkerJobService: start,       *)
(* heartbeat, complete and fail are not liveness-gated)                     *)
(***************************************************************************)
HeldLeaseHeard ==
    req.at = "answer" /\ req.m \in LeaseCalls /\ req.out # "ok" =>
        \/ req.out = "WorkerAuthenticationError" /\ "credential" \in req.against
        \/ req.out = "LookupError" /\ "lease" \in req.against

(***************************************************************************)
(* Over HTTP the loop sees the exception the service raised, as it would in *)
(* process.  (errors.py and HttpControlPlaneClient._raise_for_status)       *)
(***************************************************************************)
SameException == req.at = "answer" => Received = req.out

\* What a worker may rely on at the gateway, through either client.
GateSafe ==
    /\ DrainHeeded
    /\ HeldLeaseHeard
    /\ SameException
=============================================================================
