------------------------------ MODULE JobQueue ------------------------------
(***************************************************************************)
(* The durable job queue: SqlAlchemyJobQueue over the jobs and             *)
(* job_transitions tables, called through JobService (control plane) and   *)
(* WorkerJobService (workers).  Every call is one database transaction     *)
(* that locks the row it changes, so every call is one action.             *)
(*                                                                         *)
(* Workers are arbitrary clients here: a worker keeps every lease it was   *)
(* given until it drops it, may call with any lease it remembers (long     *)
(* after the reaper took the job away, or twice), may never call again,    *)
(* and a claim whose reply is lost is a claim followed by DropLease.       *)
(* The loop the real worker runs is module WorkerLoop.                     *)
(*                                                                         *)
(* Time is relative: a row keeps how far lease_expires_at and available_at *)
(* lie ahead of the clock, and Tick moves the clock.  No run needs a bound *)
(* on the clock.                                                           *)
(***************************************************************************)
EXTENDS Integers, FiniteSets

CONSTANTS
    Job,          \* jobs, one per idempotency key (UNIQUE in every status)
    Worker,       \* worker names, the claimed_by of a row
    Token,        \* lease tokens (uuid4 values)
    None,         \* SQL NULL
    Required,     \* Required[j]: required_capabilities of job j
    Capabilities, \* Capabilities[w]: capabilities of worker w
    MaxAttempts,  \* MaxAttempts[j]: max_attempts of job j
    LeaseSeconds, \* lease_seconds of a claim, in clock ticks
    RenewSeconds, \* the lease_seconds a heartbeat may ask for
    BackoffBase,  \* backoff_base_seconds
    MaxBackoff,   \* _MAX_BACKOFF_SECONDS
    ReapLimit     \* most rows one sweep of the reaper takes

ASSUME JobQueueAssumption ==
    /\ None \notin Token \cup Worker
    /\ MaxAttempts \in [Job -> Nat \ {0}]
    /\ LeaseSeconds \in Nat \ {0}
    /\ RenewSeconds \subseteq Nat \ {0}
    /\ BackoffBase \in Nat \ {0}
    /\ MaxBackoff \in Nat \ {0}
    /\ ReapLimit \in Nat \ {0}

VARIABLES
    status,    \* status[j]: "absent" until j is enqueued
    attempts,  \* attempt_count
    owner,     \* claimed_by
    token,     \* lease_token
    ttl,       \* lease_expires_at - now
    delay,     \* available_at - now
    cancel,    \* the jobs whose cancel_requested_at is set
    started,   \* the jobs whose started_at is set
    finished,  \* the jobs whose finished_at is set
    audit,     \* audit[j]: the newest job_transitions row of j
    held       \* held[w]: the leases worker w remembers, as <<job, token>>

leaseVars == <<owner, token, ttl>>
stampVars == <<cancel, started, finished>>
rowVars   == <<status, attempts, owner, token, ttl, delay, cancel, started, finished>>
vars      == <<status, attempts, owner, token, ttl, delay, cancel, started, finished,
               audit, held>>

-----------------------------------------------------------------------------
(* The row and what several verbs share. *)

JobStatus ==
    {"queued", "claimed", "running", "succeeded", "failed", "cancelled", "dead_letter"}
TerminalStatus == {"succeeded", "failed", "cancelled", "dead_letter"}
LeasedStatus == {"claimed", "running"}

\* The ttl of a lease with lease_expires_at < now, and of a row with no lease.
Expired == -1

Lease == Job \X Token

Transition == [from : JobStatus \cup {"absent"}, to : JobStatus \cup {"absent"}]

\* _record: the job_transitions row of a status change, written by the same
\* transaction.
Record(j, from, to) == audit' = [audit EXCEPT ![j] = [from |-> from, to |-> to]]

\* _clear_lease, for the rows of the jobs in S.
ClearLease(S) ==
    /\ owner' = [j \in Job |-> IF j \in S THEN None ELSE owner[j]]
    /\ token' = [j \in Job |-> IF j \in S THEN None ELSE token[j]]
    /\ ttl'   = [j \in Job |-> IF j \in S THEN Expired ELSE ttl[j]]

\* _backoff_seconds: exponential in the attempt just spent, capped.
Backoff(n) == LET exponent == IF n > 1 THEN n - 1 ELSE 0
                  seconds  == BackoffBase * 2^exponent
              IN  IF seconds < MaxBackoff THEN seconds ELSE MaxBackoff

\* Mutant: a requeue forgets that a cancel was requested.
RetryStatusIgnoresCancel(j) == IF attempts[j] >= MaxAttempts[j] THEN "dead_letter" ELSE "queued"

\* Mutant: one attempt too many.
RetryStatusOneMore(j) == IF j \in cancel THEN "cancelled"
                         ELSE IF attempts[j] > MaxAttempts[j] THEN "dead_letter"
                         ELSE "queued"

\* Where _requeue_or_dead_letter sends a job: a requested cancel wins over
\* the requeue, and an exhausted attempt budget dead-letters.
RetryStatus(j) == IF j \in cancel THEN "cancelled"
                  ELSE IF attempts[j] >= MaxAttempts[j] THEN "dead_letter"
                  ELSE "queued"

\* _requeue_or_dead_letter, for the jobs in S.
RequeueOrDeadLetter(S) ==
    /\ status' = [j \in Job |-> IF j \in S THEN RetryStatus(j) ELSE status[j]]
    /\ delay' = [j \in Job |-> IF j \in S /\ RetryStatus(j) = "queued"
                               THEN Backoff(attempts[j]) ELSE delay[j]]
    /\ finished' = finished \cup {j \in S : RetryStatus(j) # "queued"}
    /\ started' = started \ {j \in S : RetryStatus(j) # "cancelled"}
    /\ audit' = [j \in Job |-> IF j \in S THEN [from |-> status[j], to |-> RetryStatus(j)]
                               ELSE audit[j]]
    /\ ClearLease(S)
    /\ UNCHANGED <<attempts, cancel>>

\* A leased job ends for good: status and finished_at, the lease cleared.
Finish(j, to) ==
    /\ status' = [status EXCEPT ![j] = to]
    /\ finished' = finished \cup {j}
    /\ ClearLease({j})
    /\ UNCHANGED <<attempts, delay, cancel, started, held>>

\* _fenced_row: worker w calls with a lease it remembers, and the row still
\* carries that token.
Fenced(w, j, t) == /\ <<j, t>> \in held[w]
                   /\ token[j] = t

\* Mutant: a token is only new among the tokens in the table.
FreshInTable(t) == \A j \in Job : token[j] # t

\* uuid4: a token no row and no worker knows.  Tokens are only ever compared
\* for equality, so a token everyone has forgotten is as good as a new one.
Fresh(t) == /\ \A j \in Job : token[j] # t
            /\ \A w \in Worker, j \in Job : <<j, t>> \notin held[w]

-----------------------------------------------------------------------------
(* Control plane operations (JobService). *)

\* enqueue; every caller passes available_at = now.  A second enqueue of the
\* key violates the UNIQUE constraint and returns the row there is.
Enqueue(j) ==
    /\ status[j] = "absent"
    /\ status' = [status EXCEPT ![j] = "queued"]
    /\ Record(j, "absent", "queued")
    /\ UNCHANGED <<attempts, leaseVars, delay, stampVars, held>>

\* request_cancel of a queued job ends it at once.
CancelQueued(j) ==
    /\ status[j] = "queued"
    /\ status' = [status EXCEPT ![j] = "cancelled"]
    /\ cancel' = cancel \cup {j}
    /\ finished' = finished \cup {j}
    /\ Record(j, "queued", "cancelled")
    /\ UNCHANGED <<attempts, leaseVars, delay, started, held>>

\* request_cancel of a leased job only stamps it.
CancelLeased(j) ==
    /\ status[j] \in LeasedStatus
    /\ cancel' = cancel \cup {j}
    /\ UNCHANGED <<status, attempts, leaseVars, delay, started, finished, audit, held>>

IsExpired(j) == /\ status[j] \in LeasedStatus
                /\ ttl[j] < 0

\* reap_expired: one sweep.  SKIP LOCKED and the limit may leave rows out.
ReapExpired(S) ==
    /\ S # {}
    /\ \A j \in S : IsExpired(j)
    /\ Cardinality(S) <= ReapLimit
    /\ RequeueOrDeadLetter(S)
    /\ UNCHANGED held

\* retry_dead_letter: the operator requeue, with a new attempt budget.
RetryDeadLetter(j) ==
    /\ status[j] = "dead_letter"
    /\ status' = [status EXCEPT ![j] = "queued"]
    /\ attempts' = [attempts EXCEPT ![j] = 0]
    /\ delay' = [delay EXCEPT ![j] = 0]
    /\ finished' = finished \ {j}
    /\ cancel' = cancel \ {j}
    /\ Record(j, "dead_letter", "queued")
    /\ UNCHANGED <<leaseVars, started, held>>

-----------------------------------------------------------------------------
(* Worker operations (WorkerJobService over the fenced queue verbs). *)

\* The rows claim() may pick.  Its ORDER BY only ranks them, and SKIP LOCKED
\* passes over the head while another transaction holds it, so each of them
\* can be the one returned.
Claimable(w, j) == /\ status[j] = "queued"
                   /\ delay[j] <= 0
                   /\ Required[j] \subseteq Capabilities[w]
                   /\ j \notin cancel

Claim(w, j, t) ==
    /\ Claimable(w, j)
    /\ Fresh(t)
    /\ status' = [status EXCEPT ![j] = "claimed"]
    /\ owner' = [owner EXCEPT ![j] = w]
    /\ token' = [token EXCEPT ![j] = t]
    /\ ttl' = [ttl EXCEPT ![j] = LeaseSeconds]
    /\ attempts' = [attempts EXCEPT ![j] = @ + 1]
    /\ Record(j, "queued", "claimed")
    /\ held' = [held EXCEPT ![w] = @ \cup {<<j, t>>}]
    /\ UNCHANGED <<delay, stampVars>>

Start(w, j, t) ==
    /\ Fenced(w, j, t)
    /\ status[j] = "claimed"
    /\ status' = [status EXCEPT ![j] = "running"]
    /\ started' = started \cup {j}
    /\ Record(j, "claimed", "running")
    /\ UNCHANGED <<attempts, leaseVars, delay, cancel, finished, held>>

\* heartbeat: whoever passes the fence gets a lease of s from now on,
\* whatever the status, past the expiry too, and also when that shortens it.
\* Its return value is j \in cancel.
Heartbeat(w, j, t, s) ==
    /\ Fenced(w, j, t)
    /\ ttl' = [ttl EXCEPT ![j] = s]
    /\ UNCHANGED <<status, attempts, owner, token, delay, stampVars, audit, held>>

\* Mutant: complete() without the check that the job runs.
CompleteUnchecked(w, j, t) ==
    /\ Fenced(w, j, t)
    /\ Finish(j, "succeeded")
    /\ Record(j, status[j], "succeeded")

Complete(w, j, t) ==
    /\ Fenced(w, j, t)
    /\ status[j] = "running"
    /\ Finish(j, "succeeded")
    /\ Record(j, "running", "succeeded")

\* fail with error_class "cancelled": the acknowledgement of a cancel.
FailCancelled(w, j, t) ==
    /\ Fenced(w, j, t)
    /\ status[j] \in LeasedStatus
    /\ Finish(j, "cancelled")
    /\ Record(j, status[j], "cancelled")

\* fail with retryable = FALSE
FailPermanent(w, j, t) ==
    /\ Fenced(w, j, t)
    /\ status[j] = "running"
    /\ Finish(j, "failed")
    /\ Record(j, "running", "failed")

\* fail with retryable = TRUE
FailRetryable(w, j, t) ==
    /\ Fenced(w, j, t)
    /\ status[j] = "running"
    /\ RequeueOrDeadLetter({j})
    /\ UNCHANGED held

\* The worker forgets a lease: it crashed, it was told that its lease is
\* stale, or it never received the reply to its claim.
DropLease(w, j, t) ==
    /\ <<j, t>> \in held[w]
    /\ held' = [held EXCEPT ![w] = @ \ {<<j, t>>}]
    /\ UNCHANGED <<rowVars, audit>>

-----------------------------------------------------------------------------

\* The clock moves.  available_at is read of queued rows only, the lease of
\* leased ones.
Tick ==
    /\ ttl' = [j \in Job |-> IF status[j] \in LeasedStatus /\ ttl[j] >= 0
                             THEN ttl[j] - 1 ELSE ttl[j]]
    /\ delay' = [j \in Job |-> IF status[j] = "queued" /\ delay[j] > 0
                               THEN delay[j] - 1 ELSE delay[j]]
    /\ UNCHANGED <<status, attempts, owner, token, stampVars, audit, held>>

Init == /\ status = [j \in Job |-> "absent"]
        /\ attempts = [j \in Job |-> 0]
        /\ owner = [j \in Job |-> None]
        /\ token = [j \in Job |-> None]
        /\ ttl = [j \in Job |-> Expired]
        /\ delay = [j \in Job |-> 0]
        /\ cancel = {} /\ started = {} /\ finished = {}
        /\ audit = [j \in Job |-> [from |-> "absent", to |-> "absent"]]
        /\ held = [w \in Worker |-> {}]

ControlNext ==
    \/ \E j \in Job : Enqueue(j) \/ CancelQueued(j) \/ CancelLeased(j) \/ RetryDeadLetter(j)
    \/ \E S \in SUBSET Job : ReapExpired(S)

WorkerCall(w, j, t) == \/ Claim(w, j, t)
                       \/ Start(w, j, t)
                       \/ \E s \in RenewSeconds : Heartbeat(w, j, t, s)
                       \/ Complete(w, j, t)
                       \/ FailCancelled(w, j, t)
                       \/ FailPermanent(w, j, t)
                       \/ FailRetryable(w, j, t)
                       \/ DropLease(w, j, t)

Next == \/ ControlNext
        \/ \E w \in Worker, j \in Job, t \in Token : WorkerCall(w, j, t)
        \/ Tick

Spec == Init /\ [][Next]_vars

-----------------------------------------------------------------------------
(* Properties. *)

\* Every variable has its type.
TypeOK == /\ status \in [Job -> JobStatus \cup {"absent"}]
          /\ attempts \in [Job -> Nat]
          /\ owner \in [Job -> Worker \cup {None}]
          /\ token \in [Job -> Token \cup {None}]
          /\ ttl \in [Job -> Int]
          /\ delay \in [Job -> Int]
          /\ cancel \subseteq Job
          /\ started \subseteq Job
          /\ finished \subseteq Job
          /\ audit \in [Job -> Transition]
          /\ held \in [Worker -> SUBSET Lease]

\* A lease exists exactly while the job is claimed or running: claim() mints
\* token and owner together, and every way out (complete, fail, reap) clears
\* them.  heartbeat() checks no status, so a token left on a finished row
\* could still be renewed.
LeaseMatchesStatus ==
    \A j \in Job : /\ status[j] \in LeasedStatus <=> token[j] # None
                   /\ token[j] # None <=> owner[j] # None

\* The zombie-worker guarantee of _fenced_row: whoever can pass the fence of
\* a job is the worker the row records in claimed_by, so of all workers that
\* ever held the job at most one can still change it.
FenceExclusive ==
    \A w \in Worker, j \in Job, t \in Token :
        Fenced(w, j, t) => owner[j] = w

\* A job whose cancel was requested is never queued again nor dead-lettered
\* (where the operator requeue could revive it), whoever ends the attempt:
\* the cancel wins in _requeue_or_dead_letter.  It also means that no queued
\* row is blocked for ever by claim()'s cancel_requested_at filter.
CancelWins ==
    \A j \in cancel : status[j] \notin {"absent", "queued", "dead_letter"}

\* The attempt budget: a queued job always has an attempt left to spend, so
\* claim() never pushes attempt_count past max_attempts (the Job constructor
\* would refuse such a row), and a dead-lettered job spent all of them.
AttemptBudget ==
    \A j \in Job :
        /\ attempts[j] <= MaxAttempts[j]
        /\ status[j] \in {"absent", "queued"} => attempts[j] < MaxAttempts[j]
        /\ status[j] \in LeasedStatus => attempts[j] > 0
        /\ status[j] = "dead_letter" => attempts[j] = MaxAttempts[j]

\* finished_at is set exactly on terminal rows, also after an operator
\* requeue; a running job has a started_at and a waiting one has none.
StampsMatchStatus ==
    \A j \in Job : /\ j \in finished <=> status[j] \in TerminalStatus
                   /\ status[j] = "running" => j \in started
                   /\ status[j] \in {"absent", "queued", "claimed", "dead_letter"}
                        => j \notin started

\* The newest audit row names the status the job has: no transaction changes
\* a status without recording where it went.
AuditCurrent == \A j \in Job : audit[j].to = status[j]

\* The audit trail is a chain: every new job_transitions row starts where
\* the previous one ended, although most callers of _record pass a literal
\* from_status.
AuditChained ==
    [][\A j \in Job : audit'[j] # audit[j] => audit'[j].from = audit[j].to]_vars

\* A lease that has not expired is never taken from its holder: before
\* lease_expires_at the job only returns to the queue (or dead-letters) when
\* a worker that still holds its running attempt reports the failure.
NoEarlyReap ==
    [][\A j \in Job :
          /\ status[j] \in LeasedStatus
          /\ ttl[j] >= 0
          /\ status'[j] \in {"queued", "dead_letter"}
          => /\ status[j] = "running"
             /\ \E w \in Worker : <<j, token[j]>> \in held[w]]_vars

\* A finished row is frozen in every column; the one way out is the operator
\* requeue of a dead letter (the job_transition_guard trigger would abort
\* any other write).
TerminalFrozen ==
    [][\A j \in Job :
          status[j] \in TerminalStatus /\ status'[j] = status[j]
          => /\ attempts'[j] = attempts[j]
             /\ <<owner'[j], token'[j], ttl'[j]>> = <<owner[j], token[j], ttl[j]>>
             /\ delay'[j] = delay[j]
             /\ j \in cancel' <=> j \in cancel
             /\ j \in started' <=> j \in started
             /\ j \in finished' <=> j \in finished]_vars

\* The matrix of legal transitions, as the abstract specification of the
\* status column: the queue verbs implement JobLifecycle.
Lifecycle == INSTANCE JobLifecycle
LifecycleSpec == Lifecycle!LSpec
=============================================================================
