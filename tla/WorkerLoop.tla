----------------------------- MODULE WorkerLoop -----------------------------
(***************************************************************************)
(* The worker process (ctf_generator.workers.worker) running against the   *)
(* job queue: run_forever / run_once / _process, one job at a time, over   *)
(* HTTP.  The dispatch of a job is a period in which time passes and the   *)
(* lease is not renewed, except once by the bundle fetch of a build job.   *)
(* A call that fails outside the dispatch leaves run_forever and ends the  *)
(* process; the container's restart policy starts a new one.               *)
(***************************************************************************)
EXTENDS JobQueue

CONSTANTS
    BuildJob,       \* the build_challenge jobs, whose dispatch fetches a bundle
    VerifySeconds   \* _LEASE_VERIFY_EXTENSION_SECONDS

ASSUME WorkerLoopAssumption == /\ BuildJob \subseteq Job
                               /\ {LeaseSeconds, VerifySeconds} \subseteq RenewSeconds

VARIABLES
    pc,        \* pc[w]: where worker w is in its loop
    draining,  \* the workers whose _draining flag is set
    told       \* the workers whose last heartbeat() returned cancel_requested

loopVars == <<pc, draining, told>>
allVars  == <<vars, loopVars>>

\* down: no process.  idle: between jobs.  leased: claim() returned a lease.
\* dispatching: start() succeeded, the job's work runs.  fetched: a build job
\* has its bundle.  done / unsupported / error: how the dispatch ended.
\* renewed: the lease was renewed and complete() is next.  ended: the queue
\* committed the outcome and its reply is on the way.
WorkerState == {"down", "idle", "leased", "dispatching", "fetched",
                "done", "unsupported", "error", "renewed", "ended"}

Goto(w, l) == pc' = [pc EXCEPT ![w] = l]

\* The lease in the local variables of _process.
Mine(w, j, t) == <<j, t>> \in held[w]

\* What a call with a stale lease token gets back (404, a LookupError).
Stale(w, j, t) == /\ Mine(w, j, t)
                  /\ ~ Fenced(w, j, t)

-----------------------------------------------------------------------------
(* run_once *)

\* claim(), unless draining.  Which unused token uuid4 returns cannot matter.
WClaim(w, j) ==
    /\ pc[w] = "idle"
    /\ w \notin draining
    /\ \E t \in Token : Fresh(t)
    /\ Claim(w, j, CHOOSE t \in Token : Fresh(t))
    /\ Goto(w, "leased")
    /\ UNCHANGED <<draining, told>>

WStart(w, j, t) ==
    /\ pc[w] = "leased"
    /\ Start(w, j, t)
    /\ Goto(w, "dispatching")
    /\ told' = told \ {w}
    /\ UNCHANGED draining

\* Mutant: the bundle fetch renews whatever lease the row has.
FetchBundleUnfenced(w, j, t) ==
    /\ pc[w] = "dispatching"
    /\ j \in BuildJob
    /\ Mine(w, j, t)
    /\ ttl' = [ttl EXCEPT ![j] = VerifySeconds]
    /\ Goto(w, "fetched")
    /\ UNCHANGED <<status, attempts, owner, token, delay, stampVars, audit, held,
                   draining, told>>

\* fetch_build_bundle inside the dispatch: _verify_build_lease renews the
\* lease with its own constant, and checks claimed_by.
FetchBundle(w, j, t) ==
    /\ pc[w] = "dispatching"
    /\ j \in BuildJob
    /\ Heartbeat(w, j, t, VerifySeconds)
    /\ owner[j] = w
    /\ Goto(w, "fetched")
    /\ UNCHANGED <<draining, told>>

\* _dispatch ends: a result, UnsupportedRuntimeError, or any other exception
\* (a bundle fetch refused for a stale lease among them).
DispatchEnds(w, j, t) ==
    /\ Mine(w, j, t)
    /\ \/ /\ pc[w] = "fetched" \/ (pc[w] = "dispatching" /\ j \notin BuildJob)
          /\ \E l \in {"done", "unsupported", "error"} : Goto(w, l)
       \/ /\ pc[w] = "dispatching" /\ j \in BuildJob
          /\ Goto(w, "error")
    /\ UNCHANGED <<vars, draining, told>>

\* The heartbeat before completing.  Its return value is not looked at.
RenewLease(w, j, t) ==
    /\ pc[w] = "done"
    /\ Heartbeat(w, j, t, LeaseSeconds)
    /\ told' = IF j \in cancel THEN told \cup {w} ELSE told
    /\ Goto(w, "renewed")
    /\ UNCHANGED draining

\* The last call of _process; the local lease goes out of scope.
Report(w, j, t) ==
    /\ \/ pc[w] = "renewed"     /\ Complete(w, j, t)
       \/ pc[w] = "unsupported" /\ FailPermanent(w, j, t)
       \/ pc[w] = "error"       /\ FailRetryable(w, j, t)
    /\ Goto(w, "ended")
    /\ UNCHANGED <<draining, told>>

EndJob(w, j, t) ==
    /\ pc[w] = "ended"
    /\ DropLease(w, j, t)
    /\ Goto(w, "idle")
    /\ UNCHANGED <<draining, told>>

-----------------------------------------------------------------------------
(* The process. *)

ProcessEnds(w) == /\ Goto(w, "down")
                  /\ draining' = draining \ {w}
                  /\ told' = told \ {w}

\* start(), heartbeat(), complete() or fail() is refused because the lease
\* is stale: nothing catches the LookupError and the process ends.
Refused(w, j, t) ==
    /\ pc[w] \in {"leased", "done", "renewed", "unsupported", "error"}
    /\ Stale(w, j, t)
    /\ DropLease(w, j, t)
    /\ ProcessEnds(w)

\* The process dies at any point, a reply it waits for included.
Crash(w) ==
    /\ pc[w] # "down"
    /\ held' = [held EXCEPT ![w] = {}]
    /\ ProcessEnds(w)
    /\ UNCHANGED <<rowVars, audit>>

\* SIGTERM: request_drain.
Sigterm(w) ==
    /\ pc[w] # "down"
    /\ draining' = draining \cup {w}
    /\ UNCHANGED <<vars, pc, told>>

\* run_forever returns: draining, and run_once did no work.
Exit(w) ==
    /\ pc[w] = "idle"
    /\ w \in draining
    /\ ProcessEnds(w)
    /\ UNCHANGED vars

Restart(w) ==
    /\ pc[w] = "down"
    /\ Goto(w, "idle")
    /\ UNCHANGED <<vars, draining, told>>

-----------------------------------------------------------------------------

LoopInit == /\ Init
            /\ pc = [w \in Worker |-> "idle"]
            /\ draining = {}
            /\ told = {}

WorkOn(w, j, t) == \/ WStart(w, j, t)
                   \/ FetchBundle(w, j, t)
                   \/ DispatchEnds(w, j, t)
                   \/ RenewLease(w, j, t)
                   \/ Report(w, j, t)
                   \/ EndJob(w, j, t)
                   \/ Refused(w, j, t)

\* The steps a worker's own code takes without being disturbed.
Work(w) == \/ \E j \in Job, t \in Token : WorkOn(w, j, t)
           \/ Exit(w)
           \/ Restart(w)

LoopNext == \/ ControlNext /\ UNCHANGED loopVars
            \/ Tick /\ UNCHANGED loopVars
            \/ \E w \in Worker : \/ \E j \in Job : WClaim(w, j)
                                 \/ Work(w)
                                 \/ Crash(w)
                                 \/ Sigterm(w)

LoopSpec == LoopInit /\ [][LoopNext]_allVars

\* Fairness: the clock moves, the operator runs the reaper again and again,
\* a process that is up works on and one that is down is restarted, and a
\* job that is claimable again and again is claimed: the queue hands out the
\* oldest job first, and workers do not crash or drain before every poll.
Fairness == /\ WF_allVars(Tick /\ UNCHANGED loopVars)
            /\ WF_allVars((\E S \in SUBSET Job : ReapExpired(S)) /\ UNCHANGED loopVars)
            /\ \A w \in Worker : WF_allVars(Work(w))
            /\ \A j \in Job : SF_allVars(\E w \in Worker : WClaim(w, j))

FairLoopSpec == LoopSpec /\ Fairness

-----------------------------------------------------------------------------
(* Properties. *)

LoopTypeOK == /\ pc \in [Worker -> WorkerState]
              /\ draining \subseteq Worker
              /\ told \subseteq Worker

\* A worker process never works on two jobs, and between jobs it holds no
\* lease: every way out of _process gives up the lease it was handed.
OneLeasePerWorker ==
    \A w \in Worker : /\ Cardinality(held[w]) <= 1
                      /\ held[w] = {} <=> pc[w] \in {"down", "idle"}

\* Every job that is enqueued is settled: whatever workers crash, hang past
\* their lease or drain, it ends succeeded, failed, cancelled or as a dead
\* letter for the operator.
JobsSettle == \A j \in Job : status[j] = "queued" ~> status[j] \in TerminalStatus

\* The worker loop only uses the queue the way JobQueue allows.
UsesQueue == Spec

\* The comment at the heartbeat before complete(): the renewal is there so
\* that a slow launch cannot lose its lease mid-flight and have the job
\* double-executed.
NoDoubleExecution ==
    \A w1, w2 \in Worker, j \in Job :
        /\ pc[w1] \in {"dispatching", "fetched"} /\ \E t \in Token : Mine(w1, j, t)
        /\ pc[w2] \in {"dispatching", "fetched"} /\ \E t \in Token : Mine(w2, j, t)
        => w1 = w2

\* The comment in request_cancel: the worker learns of the cancel from
\* heartbeat()'s return value and transitions to cancelled itself.
CancelHeeded ==
    [][\A w \in told, j \in Job :
          (\E t \in Token : Fenced(w, j, t)) => status'[j] # "succeeded"]_allVars
=============================================================================
