----------------------------- MODULE QueueProofs -----------------------------
(* Theorems about JobQueue and WorkerLoop, for every set of jobs, workers   *)
(* and tokens and every value of the limits.  The worker process uses the   *)
(* queue only as JobQueue allows any client to, so the theorems about the   *)
(* queue hold with it, and it never works under two leases.                 *)
EXTENDS WorkerLoop, FiniteSetTheorems, TLAPS

\* What _backoff_seconds returns: a whole number of seconds, never above the
\* cap, however many attempts were spent.
LEMMA BackoffBounded ==
    ASSUME NEW n \in Nat
    PROVE  Backoff(n) \in Int /\ Backoff(n) <= MaxBackoff
  BY JobQueueAssumption DEF Backoff

\* Where _requeue_or_dead_letter may send a job.
LEMMA RetryStatusType ==
    \A j \in Job : RetryStatus(j) \in {"queued", "dead_letter", "cancelled"}
  BY DEF RetryStatus

\* _clear_lease keeps the types of the lease columns.
LEMMA ClearLeaseType ==
    ASSUME TypeOK, NEW S \in SUBSET Job, ClearLease(S)
    PROVE  /\ owner' \in [Job -> Worker \cup {None}]
           /\ token' \in [Job -> Token \cup {None}]
           /\ ttl' \in [Job -> Int]
  BY DEF TypeOK, ClearLease, Expired

\* _requeue_or_dead_letter keeps the types of every column.
LEMMA RequeueType ==
    ASSUME TypeOK, NEW S \in SUBSET Job, RequeueOrDeadLetter(S), UNCHANGED held
    PROVE  TypeOK'
  <1>1. \A j \in Job : Backoff(attempts[j]) \in Int
    BY BackoffBounded DEF TypeOK
  <1>2. status' \in [Job -> JobStatus \cup {"absent"}] /\ audit' \in [Job -> Transition]
    BY RetryStatusType DEF TypeOK, RequeueOrDeadLetter, JobStatus, Transition
  <1>3. delay' \in [Job -> Int]
    BY <1>1 DEF TypeOK, RequeueOrDeadLetter
  <1>4. ClearLease(S)
    BY DEF RequeueOrDeadLetter
  <1>. QED  BY <1>2, <1>3, <1>4, ClearLeaseType DEF TypeOK, RequeueOrDeadLetter

\* Ending a leased job keeps the types of every column.
LEMMA FinishType ==
    ASSUME TypeOK, NEW j \in Job, NEW to \in TerminalStatus, NEW from \in JobStatus,
           Finish(j, to), Record(j, from, to)
    PROVE  TypeOK'
  <1>1. ClearLease({j})
    BY DEF Finish
  <1>. QED  BY <1>1, ClearLeaseType
            DEF TypeOK, Finish, Record, Transition, JobStatus, TerminalStatus

\* One step of the queue keeps the types.
LEMMA TypeStep == TypeOK /\ [Next]_vars => TypeOK'
  <1>. SUFFICES ASSUME TypeOK, [Next]_vars PROVE TypeOK'
    OBVIOUS
  <1>. USE DEF TypeOK, leaseVars, stampVars
  <1>1. ASSUME NEW j \in Job, Enqueue(j) PROVE TypeOK'
    BY <1>1 DEF Enqueue, JobStatus, Record, Transition
  <1>2. ASSUME NEW j \in Job, CancelQueued(j) PROVE TypeOK'
    BY <1>2 DEF CancelQueued, JobStatus, Record, Transition
  <1>3. ASSUME NEW j \in Job, CancelLeased(j) PROVE TypeOK'
    BY <1>3 DEF CancelLeased
  <1>4. ASSUME NEW j \in Job, RetryDeadLetter(j) PROVE TypeOK'
    BY <1>4 DEF RetryDeadLetter, JobStatus, Record, Transition
  <1>5. ASSUME NEW S \in SUBSET Job, ReapExpired(S) PROVE TypeOK'
    BY <1>5, RequeueType DEF ReapExpired
  <1>6. ASSUME NEW w \in Worker, NEW j \in Job, NEW t \in Token, WorkerCall(w, j, t)
        PROVE  TypeOK'
    <2>1. CASE Claim(w, j, t)
      BY <2>1, JobQueueAssumption DEF Claim, JobStatus, Record, Transition, Lease
    <2>2. CASE Start(w, j, t)
      BY <2>2 DEF Start, JobStatus, Record, Transition
    <2>3. CASE \E s \in RenewSeconds : Heartbeat(w, j, t, s)
      BY <2>3, JobQueueAssumption DEF Heartbeat
    <2>4. CASE Complete(w, j, t)
      BY <2>4, FinishType DEF Complete, TerminalStatus, JobStatus
    <2>5. CASE FailCancelled(w, j, t)
      BY <2>5, FinishType DEF FailCancelled, TerminalStatus, JobStatus, LeasedStatus
    <2>6. CASE FailPermanent(w, j, t)
      BY <2>6, FinishType DEF FailPermanent, TerminalStatus, JobStatus
    <2>7. CASE FailRetryable(w, j, t)
      BY <2>7, RequeueType DEF FailRetryable
    <2>8. CASE DropLease(w, j, t)
      BY <2>8 DEF DropLease, Lease, rowVars
    <2>. QED  BY <1>6, <2>1, <2>2, <2>3, <2>4, <2>5, <2>6, <2>7, <2>8 DEF WorkerCall
  <1>7. CASE Tick
    BY <1>7 DEF Tick
  <1>8. CASE UNCHANGED vars
    BY <1>8 DEF vars
  <1>. QED  BY <1>1, <1>2, <1>3, <1>4, <1>5, <1>6, <1>7, <1>8 DEF Next, ControlNext

\* Type correctness of the queue.
THEOREM TypeCorrect == Spec => []TypeOK
  <1>1. Init => TypeOK
    BY DEF Init, TypeOK, JobStatus, Transition, Expired
  <1>. QED  BY <1>1, TypeStep, PTL DEF Spec

\* A step keeps leases on leased rows only.
LEMMA LeaseStep == TypeOK /\ LeaseMatchesStatus /\ [Next]_vars => LeaseMatchesStatus'
  <1>. SUFFICES ASSUME TypeOK /\ LeaseMatchesStatus, [Next]_vars PROVE LeaseMatchesStatus'
    OBVIOUS
  <1>. USE JobQueueAssumption DEF TypeOK, leaseVars, stampVars, LeaseMatchesStatus
  <1>1. ASSUME NEW k \in Job, Enqueue(k) PROVE LeaseMatchesStatus'
    BY <1>1 DEF Enqueue, LeasedStatus
  <1>2. ASSUME NEW k \in Job, CancelQueued(k) PROVE LeaseMatchesStatus'
    BY <1>2 DEF CancelQueued, LeasedStatus
  <1>3. ASSUME NEW k \in Job, CancelLeased(k) PROVE LeaseMatchesStatus'
    BY <1>3 DEF CancelLeased, LeasedStatus
  <1>4. ASSUME NEW k \in Job, RetryDeadLetter(k) PROVE LeaseMatchesStatus'
    BY <1>4 DEF RetryDeadLetter, LeasedStatus
  <1>5. ASSUME NEW S \in SUBSET Job, ReapExpired(S) PROVE LeaseMatchesStatus'
    BY <1>5 DEF ReapExpired, IsExpired, RequeueOrDeadLetter, RetryStatus, ClearLease, LeasedStatus
  <1>6. ASSUME NEW w \in Worker, NEW k \in Job, NEW t \in Token, WorkerCall(w, k, t)
        PROVE  LeaseMatchesStatus'
    <2>1. CASE Claim(w, k, t)
      BY <2>1 DEF Claim, Claimable, LeasedStatus
    <2>2. CASE Start(w, k, t)
      BY <2>2 DEF Start, LeasedStatus
    <2>3. CASE \E s \in RenewSeconds : Heartbeat(w, k, t, s)
      BY <2>3 DEF Heartbeat, LeasedStatus
    <2>4. CASE Complete(w, k, t)
      BY <2>4 DEF Complete, Finish, ClearLease, LeasedStatus
    <2>5. CASE FailCancelled(w, k, t)
      BY <2>5 DEF FailCancelled, Finish, ClearLease, LeasedStatus
    <2>6. CASE FailPermanent(w, k, t)
      BY <2>6 DEF FailPermanent, Finish, ClearLease, LeasedStatus
    <2>7. CASE FailRetryable(w, k, t)
      BY <2>7 DEF FailRetryable, RequeueOrDeadLetter, RetryStatus, ClearLease, LeasedStatus
    <2>8. CASE DropLease(w, k, t)
      BY <2>8 DEF DropLease, rowVars, LeasedStatus
    <2>. QED  BY <1>6, <2>1, <2>2, <2>3, <2>4, <2>5, <2>6, <2>7, <2>8 DEF WorkerCall
  <1>7. CASE Tick
    BY <1>7 DEF Tick, LeasedStatus
  <1>8. CASE UNCHANGED vars
    BY <1>8 DEF vars, LeasedStatus
  <1>. QED  BY <1>1, <1>2, <1>3, <1>4, <1>5, <1>6, <1>7, <1>8 DEF Next, ControlNext

\* A step never returns a cancel-requested job to the queue.
LEMMA CancelStep == TypeOK /\ CancelWins /\ [Next]_vars => CancelWins'
  <1>. SUFFICES ASSUME TypeOK /\ CancelWins, [Next]_vars PROVE CancelWins'
    OBVIOUS
  <1>. USE JobQueueAssumption DEF TypeOK, leaseVars, stampVars, CancelWins
  <1>1. ASSUME NEW k \in Job, Enqueue(k) PROVE CancelWins'
    BY <1>1 DEF Enqueue, LeasedStatus
  <1>2. ASSUME NEW k \in Job, CancelQueued(k) PROVE CancelWins'
    BY <1>2 DEF CancelQueued, LeasedStatus
  <1>3. ASSUME NEW k \in Job, CancelLeased(k) PROVE CancelWins'
    BY <1>3 DEF CancelLeased, LeasedStatus
  <1>4. ASSUME NEW k \in Job, RetryDeadLetter(k) PROVE CancelWins'
    BY <1>4 DEF RetryDeadLetter, LeasedStatus
  <1>5. ASSUME NEW S \in SUBSET Job, ReapExpired(S) PROVE CancelWins'
    BY <1>5 DEF ReapExpired, IsExpired, RequeueOrDeadLetter, RetryStatus, ClearLease, LeasedStatus
  <1>6. ASSUME NEW w \in Worker, NEW k \in Job, NEW t \in Token, WorkerCall(w, k, t)
        PROVE  CancelWins'
    <2>1. CASE Claim(w, k, t)
      BY <2>1 DEF Claim, Claimable, LeasedStatus
    <2>2. CASE Start(w, k, t)
      BY <2>2 DEF Start, LeasedStatus
    <2>3. CASE \E s \in RenewSeconds : Heartbeat(w, k, t, s)
      BY <2>3 DEF Heartbeat, LeasedStatus
    <2>4. CASE Complete(w, k, t)
      BY <2>4 DEF Complete, Finish, ClearLease, LeasedStatus
    <2>5. CASE FailCancelled(w, k, t)
      BY <2>5 DEF FailCancelled, Finish, ClearLease, LeasedStatus
    <2>6. CASE FailPermanent(w, k, t)
      BY <2>6 DEF FailPermanent, Finish, ClearLease, LeasedStatus
    <2>7. CASE FailRetryable(w, k, t)
      BY <2>7 DEF FailRetryable, RequeueOrDeadLetter, RetryStatus, ClearLease, LeasedStatus
    <2>8. CASE DropLease(w, k, t)
      BY <2>8 DEF DropLease, rowVars, LeasedStatus
    <2>. QED  BY <1>6, <2>1, <2>2, <2>3, <2>4, <2>5, <2>6, <2>7, <2>8 DEF WorkerCall
  <1>7. CASE Tick
    BY <1>7 DEF Tick, LeasedStatus
  <1>8. CASE UNCHANGED vars
    BY <1>8 DEF vars, LeasedStatus
  <1>. QED  BY <1>1, <1>2, <1>3, <1>4, <1>5, <1>6, <1>7, <1>8 DEF Next, ControlNext

\* A step stays within the attempt budget.
LEMMA BudgetStep == TypeOK /\ AttemptBudget /\ [Next]_vars => AttemptBudget'
  <1>. SUFFICES ASSUME TypeOK /\ AttemptBudget, [Next]_vars PROVE AttemptBudget'
    OBVIOUS
  <1>. USE JobQueueAssumption DEF TypeOK, leaseVars, stampVars, AttemptBudget
  <1>1. ASSUME NEW k \in Job, Enqueue(k) PROVE AttemptBudget'
    BY <1>1 DEF Enqueue, LeasedStatus
  <1>2. ASSUME NEW k \in Job, CancelQueued(k) PROVE AttemptBudget'
    BY <1>2 DEF CancelQueued, LeasedStatus
  <1>3. ASSUME NEW k \in Job, CancelLeased(k) PROVE AttemptBudget'
    BY <1>3 DEF CancelLeased, LeasedStatus
  <1>4. ASSUME NEW k \in Job, RetryDeadLetter(k) PROVE AttemptBudget'
    BY <1>4 DEF RetryDeadLetter, LeasedStatus
  <1>5. ASSUME NEW S \in SUBSET Job, ReapExpired(S) PROVE AttemptBudget'
    <2>1. \A j \in Job : /\ RetryStatus(j) \in {"queued", "dead_letter", "cancelled"}
                         /\ RetryStatus(j) = "queued" => attempts[j] < MaxAttempts[j]
                         /\ RetryStatus(j) = "dead_letter" => attempts[j] = MaxAttempts[j]
      BY DEF RetryStatus
    <2>2. /\ attempts' = attempts
          /\ \A j \in Job : status'[j] = IF j \in S THEN RetryStatus(j) ELSE status[j]
      BY <1>5 DEF ReapExpired, RequeueOrDeadLetter
    <2>. QED  BY <2>1, <2>2 DEF LeasedStatus
  <1>6. ASSUME NEW w \in Worker, NEW k \in Job, NEW t \in Token, WorkerCall(w, k, t)
        PROVE  AttemptBudget'
    <2>1. CASE Claim(w, k, t)
      BY <2>1 DEF Claim, Claimable, LeasedStatus
    <2>2. CASE Start(w, k, t)
      BY <2>2 DEF Start, LeasedStatus
    <2>3. CASE \E s \in RenewSeconds : Heartbeat(w, k, t, s)
      BY <2>3 DEF Heartbeat, LeasedStatus
    <2>4. CASE Complete(w, k, t)
      BY <2>4 DEF Complete, Finish, ClearLease, LeasedStatus
    <2>5. CASE FailCancelled(w, k, t)
      BY <2>5 DEF FailCancelled, Finish, ClearLease, LeasedStatus
    <2>6. CASE FailPermanent(w, k, t)
      BY <2>6 DEF FailPermanent, Finish, ClearLease, LeasedStatus
    <2>7. CASE FailRetryable(w, k, t)
      BY <2>7 DEF FailRetryable, RequeueOrDeadLetter, RetryStatus, ClearLease, LeasedStatus
    <2>8. CASE DropLease(w, k, t)
      BY <2>8 DEF DropLease, rowVars, LeasedStatus
    <2>. QED  BY <1>6, <2>1, <2>2, <2>3, <2>4, <2>5, <2>6, <2>7, <2>8 DEF WorkerCall
  <1>7. CASE Tick
    BY <1>7 DEF Tick, LeasedStatus
  <1>8. CASE UNCHANGED vars
    BY <1>8 DEF vars, LeasedStatus
  <1>. QED  BY <1>1, <1>2, <1>3, <1>4, <1>5, <1>6, <1>7, <1>8 DEF Next, ControlNext

\* A step keeps finished_at and started_at in line with the status.
LEMMA StampStep == TypeOK /\ StampsMatchStatus /\ [Next]_vars => StampsMatchStatus'
  <1>. SUFFICES ASSUME TypeOK /\ StampsMatchStatus, [Next]_vars PROVE StampsMatchStatus'
    OBVIOUS
  <1>. USE JobQueueAssumption DEF TypeOK, leaseVars, stampVars, StampsMatchStatus
  <1>1. ASSUME NEW k \in Job, Enqueue(k) PROVE StampsMatchStatus'
    BY <1>1 DEF Enqueue, LeasedStatus, TerminalStatus
  <1>2. ASSUME NEW k \in Job, CancelQueued(k) PROVE StampsMatchStatus'
    BY <1>2 DEF CancelQueued, LeasedStatus, TerminalStatus
  <1>3. ASSUME NEW k \in Job, CancelLeased(k) PROVE StampsMatchStatus'
    BY <1>3 DEF CancelLeased, LeasedStatus, TerminalStatus
  <1>4. ASSUME NEW k \in Job, RetryDeadLetter(k) PROVE StampsMatchStatus'
    BY <1>4 DEF RetryDeadLetter, LeasedStatus, TerminalStatus
  <1>5. ASSUME NEW S \in SUBSET Job, ReapExpired(S) PROVE StampsMatchStatus'
    BY <1>5 DEF ReapExpired, IsExpired, RequeueOrDeadLetter, RetryStatus, ClearLease, LeasedStatus, TerminalStatus
  <1>6. ASSUME NEW w \in Worker, NEW k \in Job, NEW t \in Token, WorkerCall(w, k, t)
        PROVE  StampsMatchStatus'
    <2>1. CASE Claim(w, k, t)
      BY <2>1 DEF Claim, Claimable, LeasedStatus, TerminalStatus
    <2>2. CASE Start(w, k, t)
      BY <2>2 DEF Start, LeasedStatus, TerminalStatus
    <2>3. CASE \E s \in RenewSeconds : Heartbeat(w, k, t, s)
      BY <2>3 DEF Heartbeat, LeasedStatus, TerminalStatus
    <2>4. CASE Complete(w, k, t)
      BY <2>4 DEF Complete, Finish, ClearLease, LeasedStatus, TerminalStatus
    <2>5. CASE FailCancelled(w, k, t)
      BY <2>5 DEF FailCancelled, Finish, ClearLease, LeasedStatus, TerminalStatus
    <2>6. CASE FailPermanent(w, k, t)
      BY <2>6 DEF FailPermanent, Finish, ClearLease, LeasedStatus, TerminalStatus
    <2>7. CASE FailRetryable(w, k, t)
      BY <2>7 DEF FailRetryable, RequeueOrDeadLetter, RetryStatus, ClearLease, LeasedStatus, TerminalStatus
    <2>8. CASE DropLease(w, k, t)
      BY <2>8 DEF DropLease, rowVars, LeasedStatus, TerminalStatus
    <2>. QED  BY <1>6, <2>1, <2>2, <2>3, <2>4, <2>5, <2>6, <2>7, <2>8 DEF WorkerCall
  <1>7. CASE Tick
    BY <1>7 DEF Tick, LeasedStatus, TerminalStatus
  <1>8. CASE UNCHANGED vars
    BY <1>8 DEF vars, LeasedStatus, TerminalStatus
  <1>. QED  BY <1>1, <1>2, <1>3, <1>4, <1>5, <1>6, <1>7, <1>8 DEF Next, ControlNext

\* A step that changes a status records it.
LEMMA AuditStep == TypeOK /\ AuditCurrent /\ [Next]_vars => AuditCurrent'
  <1>. SUFFICES ASSUME TypeOK /\ AuditCurrent, [Next]_vars PROVE AuditCurrent'
    OBVIOUS
  <1>. USE JobQueueAssumption DEF TypeOK, leaseVars, stampVars, AuditCurrent
  <1>1. ASSUME NEW k \in Job, Enqueue(k) PROVE AuditCurrent'
    BY <1>1 DEF Enqueue, Record, Transition
  <1>2. ASSUME NEW k \in Job, CancelQueued(k) PROVE AuditCurrent'
    BY <1>2 DEF CancelQueued, Record, Transition
  <1>3. ASSUME NEW k \in Job, CancelLeased(k) PROVE AuditCurrent'
    BY <1>3 DEF CancelLeased, Transition
  <1>4. ASSUME NEW k \in Job, RetryDeadLetter(k) PROVE AuditCurrent'
    BY <1>4 DEF RetryDeadLetter, Record, Transition
  <1>5. ASSUME NEW S \in SUBSET Job, ReapExpired(S) PROVE AuditCurrent'
    BY <1>5 DEF ReapExpired, IsExpired, RequeueOrDeadLetter, RetryStatus, ClearLease, Transition
  <1>6. ASSUME NEW w \in Worker, NEW k \in Job, NEW t \in Token, WorkerCall(w, k, t)
        PROVE  AuditCurrent'
    <2>1. CASE Claim(w, k, t)
      BY <2>1 DEF Claim, Claimable, Record, Transition
    <2>2. CASE Start(w, k, t)
      BY <2>2 DEF Start, Record, Transition
    <2>3. CASE \E s \in RenewSeconds : Heartbeat(w, k, t, s)
      BY <2>3 DEF Heartbeat, Transition
    <2>4. CASE Complete(w, k, t)
      BY <2>4 DEF Complete, Finish, ClearLease, Record, Transition
    <2>5. CASE FailCancelled(w, k, t)
      BY <2>5 DEF FailCancelled, Finish, ClearLease, Record, Transition
    <2>6. CASE FailPermanent(w, k, t)
      BY <2>6 DEF FailPermanent, Finish, ClearLease, Record, Transition
    <2>7. CASE FailRetryable(w, k, t)
      BY <2>7 DEF FailRetryable, RequeueOrDeadLetter, RetryStatus, ClearLease, Transition
    <2>8. CASE DropLease(w, k, t)
      BY <2>8 DEF DropLease, rowVars, Transition
    <2>. QED  BY <1>6, <2>1, <2>2, <2>3, <2>4, <2>5, <2>6, <2>7, <2>8 DEF WorkerCall
  <1>7. CASE Tick
    BY <1>7 DEF Tick, Transition
  <1>8. CASE UNCHANGED vars
    BY <1>8 DEF vars, Transition
  <1>. QED  BY <1>1, <1>2, <1>3, <1>4, <1>5, <1>6, <1>7, <1>8 DEF Next, ControlNext

\* A step never lets a second worker through a fence.
LEMMA FenceStep == TypeOK /\ FenceExclusive /\ [Next]_vars => FenceExclusive'
  <1>. SUFFICES ASSUME TypeOK /\ FenceExclusive, [Next]_vars PROVE FenceExclusive'
    OBVIOUS
  <1>. USE JobQueueAssumption DEF TypeOK, leaseVars, stampVars, FenceExclusive, Fenced
  <1>1. ASSUME NEW k \in Job, Enqueue(k) PROVE FenceExclusive'
    BY <1>1 DEF Enqueue
  <1>2. ASSUME NEW k \in Job, CancelQueued(k) PROVE FenceExclusive'
    BY <1>2 DEF CancelQueued
  <1>3. ASSUME NEW k \in Job, CancelLeased(k) PROVE FenceExclusive'
    BY <1>3 DEF CancelLeased
  <1>4. ASSUME NEW k \in Job, RetryDeadLetter(k) PROVE FenceExclusive'
    BY <1>4 DEF RetryDeadLetter
  <1>5. ASSUME NEW S \in SUBSET Job, ReapExpired(S) PROVE FenceExclusive'
    BY <1>5 DEF ReapExpired, IsExpired, RequeueOrDeadLetter, RetryStatus, ClearLease
  <1>6. ASSUME NEW w \in Worker, NEW k \in Job, NEW t \in Token, WorkerCall(w, k, t)
        PROVE  FenceExclusive'
    <2>1. CASE Claim(w, k, t)
      BY <2>1 DEF Claim, Claimable, Fresh
    <2>2. CASE Start(w, k, t)
      BY <2>2 DEF Start
    <2>3. CASE \E s \in RenewSeconds : Heartbeat(w, k, t, s)
      BY <2>3 DEF Heartbeat
    <2>4. CASE Complete(w, k, t)
      BY <2>4 DEF Complete, Finish, ClearLease
    <2>5. CASE FailCancelled(w, k, t)
      BY <2>5 DEF FailCancelled, Finish, ClearLease
    <2>6. CASE FailPermanent(w, k, t)
      BY <2>6 DEF FailPermanent, Finish, ClearLease
    <2>7. CASE FailRetryable(w, k, t)
      BY <2>7 DEF FailRetryable, RequeueOrDeadLetter, RetryStatus, ClearLease
    <2>8. CASE DropLease(w, k, t)
      BY <2>8 DEF DropLease, rowVars
    <2>. QED  BY <1>6, <2>1, <2>2, <2>3, <2>4, <2>5, <2>6, <2>7, <2>8 DEF WorkerCall
  <1>7. CASE Tick
    BY <1>7 DEF Tick
  <1>8. CASE UNCHANGED vars
    BY <1>8 DEF vars
  <1>. QED  BY <1>1, <1>2, <1>3, <1>4, <1>5, <1>6, <1>7, <1>8 DEF Next, ControlNext

-----------------------------------------------------------------------------
(* The invariants of the queue. *)

\* The inductive invariant.  Each conjunct is inductive relative to TypeOK.
QueueInv == /\ TypeOK
            /\ LeaseMatchesStatus
            /\ FenceExclusive
            /\ CancelWins
            /\ AttemptBudget
            /\ StampsMatchStatus
            /\ AuditCurrent

LEMMA QueueStart == Init => QueueInv
  BY JobQueueAssumption
  DEF Init, QueueInv, TypeOK, LeaseMatchesStatus, FenceExclusive, CancelWins, AttemptBudget,
      StampsMatchStatus, AuditCurrent, Fenced, JobStatus, LeasedStatus, TerminalStatus,
      Transition, Expired

LEMMA QueueStep == QueueInv /\ [Next]_vars => QueueInv'
  BY TypeStep, LeaseStep, FenceStep, CancelStep, BudgetStep, StampStep, AuditStep DEF QueueInv

\* The inductive invariant holds in every reachable state.
THEOREM QueueInvariant == Spec => []QueueInv
  BY QueueStart, QueueStep, PTL DEF Spec

\* claim(), complete(), fail() and the reaper keep a lease on exactly the
\* claimed and running rows.
THEOREM LeaseSafe == Spec => []LeaseMatchesStatus
  <1>1. QueueInv => LeaseMatchesStatus
    BY DEF QueueInv
  <1>. QED  BY <1>1, QueueInvariant, PTL

\* At most one worker can pass the fence of a job, whatever stale leases the
\* others still hold.
THEOREM FenceSafe == Spec => []FenceExclusive
  <1>1. QueueInv => FenceExclusive
    BY DEF QueueInv
  <1>. QED  BY <1>1, QueueInvariant, PTL

\* A requested cancel is never undone by a requeue or a dead letter.
THEOREM CancelSafe == Spec => []CancelWins
  <1>1. QueueInv => CancelWins
    BY DEF QueueInv
  <1>. QED  BY <1>1, QueueInvariant, PTL

\* attempt_count never passes max_attempts, and a dead letter has spent it.
THEOREM BudgetSafe == Spec => []AttemptBudget
  <1>1. QueueInv => AttemptBudget
    BY DEF QueueInv
  <1>. QED  BY <1>1, QueueInvariant, PTL

\* finished_at and started_at agree with the status.
THEOREM StampsSafe == Spec => []StampsMatchStatus
  <1>1. QueueInv => StampsMatchStatus
    BY DEF QueueInv
  <1>. QED  BY <1>1, QueueInvariant, PTL

-----------------------------------------------------------------------------
(* What a step of the queue may never do. *)

\* The step formulas of the action properties.
ChainStep ==
    \A j \in Job : audit'[j] # audit[j] => audit'[j].from = audit[j].to
FrozenStep ==
    \A j \in Job :
        status[j] \in TerminalStatus /\ status'[j] = status[j]
        => /\ attempts'[j] = attempts[j]
           /\ <<owner'[j], token'[j], ttl'[j]>> = <<owner[j], token[j], ttl[j]>>
           /\ delay'[j] = delay[j]
           /\ j \in cancel' <=> j \in cancel
           /\ j \in started' <=> j \in started
           /\ j \in finished' <=> j \in finished
ReapStep ==
    \A j \in Job :
        /\ status[j] \in LeasedStatus
        /\ ttl[j] >= 0
        /\ status'[j] \in {"queued", "dead_letter"}
        => /\ status[j] = "running"
           /\ \E w \in Worker : <<j, token[j]>> \in held[w]

\* Every audit row starts where the last one ended.
LEMMA ChainStepHolds == TypeOK /\ AuditCurrent /\ [Next]_vars => ChainStep
  <1>. SUFFICES ASSUME TypeOK /\ AuditCurrent, [Next]_vars PROVE ChainStep
    OBVIOUS
  <1>. USE DEF TypeOK, leaseVars, stampVars, AuditCurrent, ChainStep, Transition
  <1>1. ASSUME NEW k \in Job, Enqueue(k) PROVE ChainStep
    BY <1>1 DEF Enqueue, Record, LeasedStatus
  <1>2. ASSUME NEW k \in Job, CancelQueued(k) PROVE ChainStep
    BY <1>2 DEF CancelQueued, Record, LeasedStatus
  <1>3. ASSUME NEW k \in Job, CancelLeased(k) PROVE ChainStep
    BY <1>3 DEF CancelLeased, LeasedStatus
  <1>4. ASSUME NEW k \in Job, RetryDeadLetter(k) PROVE ChainStep
    BY <1>4 DEF RetryDeadLetter, Record, LeasedStatus
  <1>5. ASSUME NEW S \in SUBSET Job, ReapExpired(S) PROVE ChainStep
    BY <1>5 DEF ReapExpired, IsExpired, RequeueOrDeadLetter, RetryStatus, ClearLease, LeasedStatus
  <1>6. ASSUME NEW w \in Worker, NEW k \in Job, NEW t \in Token, WorkerCall(w, k, t)
        PROVE  ChainStep
    <2>1. CASE Claim(w, k, t)
      BY <2>1 DEF Claim, Claimable, Record, LeasedStatus
    <2>2. CASE Start(w, k, t)
      BY <2>2 DEF Start, Record, LeasedStatus
    <2>3. CASE \E s \in RenewSeconds : Heartbeat(w, k, t, s)
      BY <2>3 DEF Heartbeat, LeasedStatus
    <2>4. CASE Complete(w, k, t)
      BY <2>4 DEF Complete, Finish, ClearLease, Record, LeasedStatus
    <2>5. CASE FailCancelled(w, k, t)
      BY <2>5 DEF FailCancelled, Finish, ClearLease, Record, LeasedStatus
    <2>6. CASE FailPermanent(w, k, t)
      BY <2>6 DEF FailPermanent, Finish, ClearLease, Record, LeasedStatus
    <2>7. CASE FailRetryable(w, k, t)
      BY <2>7 DEF FailRetryable, RequeueOrDeadLetter, RetryStatus, ClearLease, LeasedStatus
    <2>8. CASE DropLease(w, k, t)
      BY <2>8 DEF DropLease, rowVars, LeasedStatus
    <2>. QED  BY <1>6, <2>1, <2>2, <2>3, <2>4, <2>5, <2>6, <2>7, <2>8 DEF WorkerCall
  <1>7. CASE Tick
    BY <1>7 DEF Tick, LeasedStatus
  <1>8. CASE UNCHANGED vars
    BY <1>8 DEF vars, LeasedStatus
  <1>. QED  BY <1>1, <1>2, <1>3, <1>4, <1>5, <1>6, <1>7, <1>8 DEF Next, ControlNext

\* No step touches a terminal row: no lease is left on it to pass a fence with.
LEMMA FrozenStepHolds == TypeOK /\ LeaseMatchesStatus /\ [Next]_vars => FrozenStep
  <1>. SUFFICES ASSUME TypeOK /\ LeaseMatchesStatus, [Next]_vars PROVE FrozenStep
    OBVIOUS
  <1>. USE DEF TypeOK, leaseVars, stampVars, LeaseMatchesStatus, FrozenStep, TerminalStatus, LeasedStatus
  <1>1. ASSUME NEW k \in Job, Enqueue(k) PROVE FrozenStep
    BY <1>1 DEF Enqueue
  <1>2. ASSUME NEW k \in Job, CancelQueued(k) PROVE FrozenStep
    BY <1>2 DEF CancelQueued
  <1>3. ASSUME NEW k \in Job, CancelLeased(k) PROVE FrozenStep
    BY <1>3 DEF CancelLeased
  <1>4. ASSUME NEW k \in Job, RetryDeadLetter(k) PROVE FrozenStep
    BY <1>4 DEF RetryDeadLetter
  <1>5. ASSUME NEW S \in SUBSET Job, ReapExpired(S) PROVE FrozenStep
    BY <1>5 DEF ReapExpired, IsExpired, RequeueOrDeadLetter, RetryStatus, ClearLease
  <1>6. ASSUME NEW w \in Worker, NEW k \in Job, NEW t \in Token, WorkerCall(w, k, t)
        PROVE  FrozenStep
    <2>1. CASE Claim(w, k, t)
      BY <2>1 DEF Claim, Claimable
    <2>2. CASE Start(w, k, t)
      BY <2>2 DEF Start, Fenced
    <2>3. CASE \E s \in RenewSeconds : Heartbeat(w, k, t, s)
      BY <2>3, JobQueueAssumption DEF Heartbeat, Fenced
    <2>4. CASE Complete(w, k, t)
      BY <2>4 DEF Complete, Finish, ClearLease, Fenced
    <2>5. CASE FailCancelled(w, k, t)
      BY <2>5 DEF FailCancelled, Finish, ClearLease, Fenced
    <2>6. CASE FailPermanent(w, k, t)
      BY <2>6 DEF FailPermanent, Finish, ClearLease, Fenced
    <2>7. CASE FailRetryable(w, k, t)
      BY <2>7 DEF FailRetryable, RequeueOrDeadLetter, RetryStatus, ClearLease, Fenced
    <2>8. CASE DropLease(w, k, t)
      BY <2>8 DEF DropLease, rowVars
    <2>. QED  BY <1>6, <2>1, <2>2, <2>3, <2>4, <2>5, <2>6, <2>7, <2>8 DEF WorkerCall
  <1>7. CASE Tick
    BY <1>7 DEF Tick
  <1>8. CASE UNCHANGED vars
    BY <1>8 DEF vars
  <1>. QED  BY <1>1, <1>2, <1>3, <1>4, <1>5, <1>6, <1>7, <1>8 DEF Next, ControlNext

\* A live lease only ends in the queue through its holder's own report.
LEMMA ReapStepHolds == TypeOK /\ [Next]_vars => ReapStep
  <1>. SUFFICES ASSUME TypeOK, [Next]_vars PROVE ReapStep
    OBVIOUS
  <1>. USE DEF TypeOK, leaseVars, stampVars, ReapStep, LeasedStatus
  <1>1. ASSUME NEW k \in Job, Enqueue(k) PROVE ReapStep
    BY <1>1 DEF Enqueue
  <1>2. ASSUME NEW k \in Job, CancelQueued(k) PROVE ReapStep
    BY <1>2 DEF CancelQueued
  <1>3. ASSUME NEW k \in Job, CancelLeased(k) PROVE ReapStep
    BY <1>3 DEF CancelLeased
  <1>4. ASSUME NEW k \in Job, RetryDeadLetter(k) PROVE ReapStep
    BY <1>4 DEF RetryDeadLetter
  <1>5. ASSUME NEW S \in SUBSET Job, ReapExpired(S) PROVE ReapStep
    BY <1>5 DEF ReapExpired, IsExpired, RequeueOrDeadLetter, RetryStatus, ClearLease
  <1>6. ASSUME NEW w \in Worker, NEW k \in Job, NEW t \in Token, WorkerCall(w, k, t)
        PROVE  ReapStep
    <2>1. CASE Claim(w, k, t)
      BY <2>1 DEF Claim, Claimable
    <2>2. CASE Start(w, k, t)
      BY <2>2 DEF Start, Fenced
    <2>3. CASE \E s \in RenewSeconds : Heartbeat(w, k, t, s)
      BY <2>3 DEF Heartbeat, Fenced
    <2>4. CASE Complete(w, k, t)
      BY <2>4 DEF Complete, Finish, ClearLease, Fenced
    <2>5. CASE FailCancelled(w, k, t)
      BY <2>5 DEF FailCancelled, Finish, ClearLease, Fenced
    <2>6. CASE FailPermanent(w, k, t)
      BY <2>6 DEF FailPermanent, Finish, ClearLease, Fenced
    <2>7. CASE FailRetryable(w, k, t)
      BY <2>7 DEF FailRetryable, RequeueOrDeadLetter, RetryStatus, ClearLease, Fenced
    <2>8. CASE DropLease(w, k, t)
      BY <2>8 DEF DropLease, rowVars
    <2>. QED  BY <1>6, <2>1, <2>2, <2>3, <2>4, <2>5, <2>6, <2>7, <2>8 DEF WorkerCall
  <1>7. CASE Tick
    BY <1>7 DEF Tick
  <1>8. CASE UNCHANGED vars
    BY <1>8 DEF vars
  <1>. QED  BY <1>1, <1>2, <1>3, <1>4, <1>5, <1>6, <1>7, <1>8 DEF Next, ControlNext

\* The audit trail of every job is a chain.
THEOREM AuditSafe == Spec => AuditChained
  <1>1. QueueInv /\ [Next]_vars => [ChainStep]_vars
    BY ChainStepHolds DEF QueueInv
  <1>. QED  BY <1>1, QueueInvariant, PTL DEF Spec, AuditChained, ChainStep

\* A terminal row is frozen.
THEOREM FrozenSafe == Spec => TerminalFrozen
  <1>1. QueueInv /\ [Next]_vars => [FrozenStep]_vars
    BY FrozenStepHolds DEF QueueInv
  <1>. QED  BY <1>1, QueueInvariant, PTL DEF Spec, TerminalFrozen, FrozenStep

\* No live lease is reaped.
THEOREM ReapSafe == Spec => NoEarlyReap
  <1>1. QueueInv /\ [Next]_vars => [ReapStep]_vars
    BY ReapStepHolds DEF QueueInv
  <1>. QED  BY <1>1, QueueInvariant, PTL DEF Spec, NoEarlyReap, ReapStep

-----------------------------------------------------------------------------
(* The queue implements the abstract lifecycle. *)


\* Every status change follows an edge of the legal-transition matrix.
LEMMA LifecycleStep == TypeOK /\ [Next]_vars => Lifecycle!LNext
  <1>. SUFFICES ASSUME TypeOK, [Next]_vars PROVE Lifecycle!LNext
    OBVIOUS
  <1>. USE DEF TypeOK, leaseVars, stampVars, Lifecycle!LNext, Lifecycle!LegalTransitions, Lifecycle!JobStatus, LeasedStatus, JobStatus
  <1>1. ASSUME NEW k \in Job, Enqueue(k) PROVE Lifecycle!LNext
    BY <1>1 DEF Enqueue
  <1>2. ASSUME NEW k \in Job, CancelQueued(k) PROVE Lifecycle!LNext
    BY <1>2 DEF CancelQueued
  <1>3. ASSUME NEW k \in Job, CancelLeased(k) PROVE Lifecycle!LNext
    BY <1>3 DEF CancelLeased
  <1>4. ASSUME NEW k \in Job, RetryDeadLetter(k) PROVE Lifecycle!LNext
    BY <1>4 DEF RetryDeadLetter
  <1>5. ASSUME NEW S \in SUBSET Job, ReapExpired(S) PROVE Lifecycle!LNext
    BY <1>5 DEF ReapExpired, IsExpired, RequeueOrDeadLetter, RetryStatus, ClearLease
  <1>6. ASSUME NEW w \in Worker, NEW k \in Job, NEW t \in Token, WorkerCall(w, k, t)
        PROVE  Lifecycle!LNext
    <2>1. CASE Claim(w, k, t)
      BY <2>1 DEF Claim, Claimable
    <2>2. CASE Start(w, k, t)
      BY <2>2 DEF Start, Fenced
    <2>3. CASE \E s \in RenewSeconds : Heartbeat(w, k, t, s)
      BY <2>3 DEF Heartbeat, Fenced
    <2>4. CASE Complete(w, k, t)
      BY <2>4 DEF Complete, Finish, ClearLease, Fenced
    <2>5. CASE FailCancelled(w, k, t)
      BY <2>5 DEF FailCancelled, Finish, ClearLease, Fenced
    <2>6. CASE FailPermanent(w, k, t)
      BY <2>6 DEF FailPermanent, Finish, ClearLease, Fenced
    <2>7. CASE FailRetryable(w, k, t)
      BY <2>7 DEF FailRetryable, RequeueOrDeadLetter, RetryStatus, ClearLease, Fenced
    <2>8. CASE DropLease(w, k, t)
      BY <2>8 DEF DropLease, rowVars
    <2>. QED  BY <1>6, <2>1, <2>2, <2>3, <2>4, <2>5, <2>6, <2>7, <2>8 DEF WorkerCall
  <1>7. CASE Tick
    BY <1>7 DEF Tick
  <1>8. CASE UNCHANGED vars
    BY <1>8 DEF vars
  <1>. QED  BY <1>1, <1>2, <1>3, <1>4, <1>5, <1>6, <1>7, <1>8 DEF Next, ControlNext

\* Every behaviour of the queue is a behaviour of JobLifecycle.
THEOREM RefinesLifecycle == Spec => LifecycleSpec
  <1>1. Init => Lifecycle!LInit
    BY DEF Init, Lifecycle!LInit
  <1>2. TypeOK /\ [Next]_vars => [Lifecycle!LNext]_status
    BY LifecycleStep
  <1>. QED  BY <1>1, <1>2, TypeCorrect, PTL DEF Spec, LifecycleSpec, Lifecycle!LSpec

-----------------------------------------------------------------------------
(* The invariant. *)

Away == {"down", "idle"}

\* The lease in the local variables of _process is the only one, and it is there
\* exactly from claim() to the end of the job.
LeaseOf(w) == IF pc[w] \in Away THEN held[w] = {}
              ELSE \E l \in Lease : held[w] = {l}

LoopInv == LoopTypeOK /\ QueueInv /\ \A w \in Worker : LeaseOf(w)

\* A step of worker w: the others stay where they are and keep their leases.
LEMMA OneMoves ==
    ASSUME LoopInv, NEW w \in Worker, NEW l \in WorkerState, NEW L \in SUBSET Lease,
           Goto(w, l), held' = [held EXCEPT ![w] = L],
           IF l \in Away THEN L = {} ELSE \E x \in Lease : L = {x}
    PROVE  pc' \in [Worker -> WorkerState] /\ \A v \in Worker : LeaseOf(v)'
  <1>1. pc \in [Worker -> WorkerState] /\ held \in [Worker -> SUBSET Lease]
    BY DEF LoopInv, LoopTypeOK, QueueInv, TypeOK
  <1>2. pc' \in [Worker -> WorkerState] /\ pc'[w] = l /\ held'[w] = L
    BY <1>1 DEF Goto
  <1>3. \A v \in Worker \ {w} : pc'[v] = pc[v] /\ held'[v] = held[v]
    BY <1>1 DEF Goto
  <1>4. LeaseOf(w)'
    BY <1>2 DEF LeaseOf
  <1>5. ASSUME NEW v \in Worker \ {w} PROVE LeaseOf(v)'
    BY <1>3 DEF LeaseOf, LoopInv
  <1>. QED  BY <1>2, <1>4, <1>5

LEMMA OneTakes ==
    ASSUME LoopInv, NEW w \in Worker, NEW l \in WorkerState \ Away, NEW x \in Lease,
           Goto(w, l), held' = [held EXCEPT ![w] = {x}]
    PROVE  pc' \in [Worker -> WorkerState] /\ \A v \in Worker : LeaseOf(v)'
  <1>1. {x} \in SUBSET Lease /\ \E y \in Lease : {x} = {y}
    OBVIOUS
  <1>. QED  BY <1>1, OneMoves

LEMMA OneLeaves ==
    ASSUME LoopInv, NEW w \in Worker, NEW l \in Away, Goto(w, l), held' = [held EXCEPT ![w] = {}]
    PROVE  pc' \in [Worker -> WorkerState] /\ \A v \in Worker : LeaseOf(v)'
  <1>1. {} \in SUBSET Lease /\ l \in WorkerState
    BY DEF Away, WorkerState
  <1>. QED  BY <1>1, OneMoves

\* A step that keeps the worker at its job, and its lease.
LEMMA KeepsLease ==
    ASSUME LoopInv, NEW w \in Worker, NEW l \in WorkerState, pc[w] \notin Away, l \notin Away,
           Goto(w, l), UNCHANGED held
    PROVE  pc' \in [Worker -> WorkerState] /\ \A v \in Worker : LeaseOf(v)'
  <1>1. held \in [Worker -> SUBSET Lease] /\ LeaseOf(w)
    BY DEF LoopInv, QueueInv, TypeOK
  <1>2. held' = [held EXCEPT ![w] = held[w]] /\ held[w] \in SUBSET Lease
    BY <1>1
  <1>3. \E x \in Lease : held[w] = {x}
    BY <1>1 DEF LeaseOf
  <1>. QED  BY <1>2, <1>3, OneMoves

\* A step that ends the worker's job, and gives up its lease.
LEMMA DropsLease ==
    ASSUME LoopInv, NEW w \in Worker, NEW j, NEW t, NEW l \in Away,
           pc[w] \notin Away, DropLease(w, j, t), Goto(w, l)
    PROVE  pc' \in [Worker -> WorkerState] /\ \A v \in Worker : LeaseOf(v)'
  <1>1. <<j, t>> \in held[w] /\ held' = [held EXCEPT ![w] = held[w] \ {<<j, t>>}]
    BY DEF DropLease
  <1>2. \E x \in Lease : held[w] = {x}
    BY DEF LoopInv, LeaseOf
  <1>3. held[w] \ {<<j, t>>} = {}
    BY <1>1, <1>2
  <1>4. l \in WorkerState
    BY DEF Away, WorkerState
  <1>. QED  BY <1>1, <1>3, <1>4, OneMoves

\* The calls that do not touch what workers remember.
LEMMA ControlKeepsHeld == ControlNext \/ Tick => UNCHANGED held
  BY DEF ControlNext, Enqueue, CancelQueued, CancelLeased, RetryDeadLetter, ReapExpired, Tick

\* A step of the worker's code on its job is a call the queue allows, or none.
LEMMA WorkStep ==
    ASSUME LoopInv, NEW w \in Worker, NEW j \in Job, NEW t \in Token, WorkOn(w, j, t)
    PROVE  [Next]_vars /\ LoopTypeOK' /\ \A v \in Worker : LeaseOf(v)'
  <1>. USE DEF WorkerState, Away
  <1>0. draining \subseteq Worker /\ told \subseteq Worker
    BY DEF LoopInv, LoopTypeOK
  <1>1. CASE WStart(w, j, t)
    <2>1. UNCHANGED held /\ Goto(w, "dispatching") /\ pc[w] \notin Away
      BY <1>1 DEF WStart, Start
    <2>2. pc' \in [Worker -> WorkerState] /\ \A v \in Worker : LeaseOf(v)'
      BY <2>1, KeepsLease
    <2>. QED  BY <1>0, <1>1, <2>2 DEF WStart, LoopTypeOK, Next, WorkerCall
  <1>2. CASE FetchBundle(w, j, t)
    <2>1. UNCHANGED held /\ Goto(w, "fetched") /\ pc[w] \notin Away
      BY <1>2 DEF FetchBundle, Heartbeat
    <2>2. pc' \in [Worker -> WorkerState] /\ \A v \in Worker : LeaseOf(v)'
      BY <2>1, KeepsLease
    <2>. QED  BY <1>0, <1>2, <2>2, WorkerLoopAssumption DEF FetchBundle, LoopTypeOK, Next, WorkerCall
  <1>3. CASE DispatchEnds(w, j, t)
    <2>1. PICK l \in {"done", "unsupported", "error"} : Goto(w, l)
      BY <1>3 DEF DispatchEnds
    <2>2. UNCHANGED held /\ pc[w] \notin Away
      BY <1>3 DEF DispatchEnds, vars
    <2>3. pc' \in [Worker -> WorkerState] /\ \A v \in Worker : LeaseOf(v)'
      BY <2>1, <2>2, KeepsLease
    <2>. QED  BY <1>0, <1>3, <2>3 DEF DispatchEnds, LoopTypeOK
  <1>4. CASE RenewLease(w, j, t)
    <2>1. UNCHANGED held /\ Goto(w, "renewed") /\ pc[w] \notin Away
      BY <1>4 DEF RenewLease, Heartbeat
    <2>2. pc' \in [Worker -> WorkerState] /\ \A v \in Worker : LeaseOf(v)'
      BY <2>1, KeepsLease
    <2>. QED  BY <1>0, <1>4, <2>2, WorkerLoopAssumption DEF RenewLease, LoopTypeOK, Next, WorkerCall
  <1>5. CASE Report(w, j, t)
    <2>1. UNCHANGED held /\ Goto(w, "ended") /\ pc[w] \notin Away
      BY <1>5 DEF Report, Complete, FailPermanent, FailRetryable, Finish
    <2>2. pc' \in [Worker -> WorkerState] /\ \A v \in Worker : LeaseOf(v)'
      BY <2>1, KeepsLease
    <2>. QED  BY <1>0, <1>5, <2>2 DEF Report, LoopTypeOK, Next, WorkerCall
  <1>6. CASE EndJob(w, j, t)
    <2>1. pc' \in [Worker -> WorkerState] /\ \A v \in Worker : LeaseOf(v)'
      BY <1>6, DropsLease DEF EndJob
    <2>. QED  BY <1>0, <1>6, <2>1 DEF EndJob, LoopTypeOK, Next, WorkerCall
  <1>7. CASE Refused(w, j, t)
    <2>1. DropLease(w, j, t) /\ Goto(w, "down") /\ pc[w] \notin Away
          /\ draining' \subseteq Worker /\ told' \subseteq Worker
      BY <1>0, <1>7 DEF Refused, ProcessEnds
    <2>2. pc' \in [Worker -> WorkerState] /\ \A v \in Worker : LeaseOf(v)'
      BY <2>1, DropsLease
    <2>. QED  BY <2>1, <2>2 DEF LoopTypeOK, Next, WorkerCall
  <1>. QED  BY <1>1, <1>2, <1>3, <1>4, <1>5, <1>6, <1>7 DEF WorkOn

LEMMA LoopStep == LoopInv /\ [LoopNext]_allVars => LoopInv' /\ [Next]_vars
  <1>. SUFFICES ASSUME LoopInv, [LoopNext]_allVars
                PROVE  [Next]_vars /\ LoopTypeOK' /\ \A v \in Worker : LeaseOf(v)'
    BY QueueStep DEF LoopInv
  <1>. USE DEF WorkerState, Away
  <1>0. /\ draining \subseteq Worker /\ told \subseteq Worker /\ pc \in [Worker -> WorkerState]
        /\ held \in [Worker -> SUBSET Lease] /\ \A v \in Worker : LeaseOf(v)
    BY DEF LoopInv, LoopTypeOK, QueueInv, TypeOK
  <1>1. CASE (ControlNext \/ Tick) /\ UNCHANGED loopVars
    <2>1. UNCHANGED held
      BY <1>1, ControlKeepsHeld
    <2>. QED  BY <1>0, <1>1, <2>1 DEF loopVars, LoopTypeOK, LeaseOf, Next
  <1>2. ASSUME NEW w \in Worker, NEW j \in Job, WClaim(w, j)
        PROVE  [Next]_vars /\ LoopTypeOK' /\ \A v \in Worker : LeaseOf(v)'
    <2>. DEFINE t == CHOOSE x \in Token : Fresh(x)
    <2>1. t \in Token
      BY <1>2 DEF WClaim
    <2>2. Claim(w, j, t) /\ Goto(w, "leased") /\ pc[w] = "idle" /\ UNCHANGED <<draining, told>>
      BY <1>2 DEF WClaim
    <2>. HIDE DEF t
    <2>3. held[w] = {} /\ <<j, t>> \in Lease
      <3>1. LeaseOf(w)
        BY <1>0
      <3>. QED  BY <2>1, <2>2, <3>1 DEF LeaseOf, Lease
    <2>4. held' = [held EXCEPT ![w] = {<<j, t>>}]
      <3>1. held' = [held EXCEPT ![w] = held[w] \cup {<<j, t>>}]
        BY <2>2 DEF Claim
      <3>2. held[w] \cup {<<j, t>>} = {<<j, t>>}
        BY <2>3
      <3>. QED  BY <3>1, <3>2
    <2>5. pc' \in [Worker -> WorkerState] /\ \A v \in Worker : LeaseOf(v)'
      BY <2>2, <2>3, <2>4, OneTakes
    <2>. QED  BY <1>0, <2>1, <2>2, <2>5 DEF LoopTypeOK, Next, WorkerCall
  <1>3. ASSUME NEW w \in Worker, Work(w)
        PROVE  [Next]_vars /\ LoopTypeOK' /\ \A v \in Worker : LeaseOf(v)'
    <2>1. CASE \E j \in Job, t \in Token : WorkOn(w, j, t)
      BY <2>1, WorkStep
    <2>2. CASE Exit(w) \/ Restart(w)
      <3>1. UNCHANGED vars /\ held' = held /\ draining' \subseteq Worker /\ told' \subseteq Worker
        BY <1>0, <2>2 DEF Exit, Restart, ProcessEnds, vars
      <3>2. PICK l \in Away : Goto(w, l)
        BY <2>2 DEF Exit, Restart, ProcessEnds
      <3>3. held[w] = {}
        BY <1>0, <2>2 DEF Exit, Restart, LeaseOf
      <3>4. held' = [held EXCEPT ![w] = {}]
        BY <1>0, <3>1, <3>3
      <3>5. pc' \in [Worker -> WorkerState] /\ \A v \in Worker : LeaseOf(v)'
        BY <3>2, <3>4, OneLeaves
      <3>. QED  BY <3>1, <3>5 DEF LoopTypeOK
    <2>. QED  BY <1>3, <2>1, <2>2 DEF Work
  <1>4. ASSUME NEW w \in Worker, Crash(w)
        PROVE  [Next]_vars /\ LoopTypeOK' /\ \A v \in Worker : LeaseOf(v)'
    <2>1. /\ held' = [held EXCEPT ![w] = {}] /\ UNCHANGED <<rowVars, audit>> /\ Goto(w, "down")
          /\ draining' \subseteq Worker /\ told' \subseteq Worker
      BY <1>0, <1>4 DEF Crash, ProcessEnds
    <2>2. pc' \in [Worker -> WorkerState] /\ \A v \in Worker : LeaseOf(v)'
      BY <2>1, OneLeaves
    <2>3. [Next]_vars
      <3>1. CASE held[w] = {}
        <4>1. held' = held
          BY <1>0, <2>1, <3>1
        <4>. QED  BY <2>1, <4>1 DEF vars, rowVars
      <3>2. CASE held[w] # {}
        <4>1. PICK j \in Job, t \in Token : held[w] = {<<j, t>>}
          BY <1>0, <3>2 DEF LeaseOf, Lease
        <4>2. DropLease(w, j, t)
          BY <2>1, <4>1 DEF DropLease
        <4>. QED  BY <4>2 DEF Next, WorkerCall
      <3>. QED  BY <3>1, <3>2
    <2>. QED  BY <2>1, <2>2, <2>3 DEF LoopTypeOK
  <1>5. ASSUME NEW w \in Worker, Sigterm(w)
        PROVE  [Next]_vars /\ LoopTypeOK' /\ \A v \in Worker : LeaseOf(v)'
    BY <1>0, <1>5 DEF Sigterm, vars, LoopTypeOK, LeaseOf
  <1>6. CASE UNCHANGED allVars
    BY <1>0, <1>6 DEF allVars, loopVars, vars, LoopTypeOK, LeaseOf
  <1>. QED  BY <1>1, <1>2, <1>3, <1>4, <1>5, <1>6 DEF LoopNext

-----------------------------------------------------------------------------

LEMMA LoopStart == LoopInit => LoopInv
  BY QueueStart DEF LoopInit, LoopInv, LoopTypeOK, WorkerState, LeaseOf, Away, Init

THEOREM LoopInvariant == LoopSpec => []LoopInv
  BY LoopStart, LoopStep, PTL DEF LoopSpec

\* The process is always at a known place of its loop.
THEOREM LoopTypeCorrect == LoopSpec => []LoopTypeOK
  BY LoopInvariant, PTL DEF LoopInv

\* The worker process, its crashes, refused calls and lost replies included,
\* is a client as JobQueue allows it.
THEOREM UsesQueueHolds == LoopSpec => UsesQueue
  <1>1. LoopInit => Init
    BY DEF LoopInit
  <1>. QED  BY <1>1, LoopInvariant, LoopStep, PTL DEF LoopSpec, UsesQueue, Spec

\* Every way out of _process gives up the lease, and a process that has one
\* does not claim another.
THEOREM OneLeaseHolds == LoopSpec => []OneLeasePerWorker
  <1>1. LoopInv => OneLeasePerWorker
    <2>. SUFFICES ASSUME LoopInv, NEW w \in Worker
                  PROVE  /\ Cardinality(held[w]) <= 1
                         /\ held[w] = {} <=> pc[w] \in {"down", "idle"}
      BY DEF OneLeasePerWorker
    <2>1. CASE held[w] = {}
      <3>1. Cardinality(held[w]) = 0
        BY <2>1, FS_EmptySet
      <3>. QED  BY <2>1, <3>1 DEF LoopInv, LeaseOf, Away
    <2>2. CASE held[w] # {}
      <3>1. PICK l \in Lease : held[w] = {l}
        BY <2>2 DEF LoopInv, LeaseOf
      <3>2. Cardinality(held[w]) = 1
        BY <3>1, FS_Singleton
      <3>. QED  BY <2>2, <3>2 DEF LoopInv, LeaseOf, Away
    <2>. QED  BY <2>1, <2>2
  <1>. QED  BY <1>1, LoopInvariant, PTL

\* So a zombie process never changes a job that was handed to another one, and
\* no attempt is spent beyond the budget.
THEOREM LoopQueueSafe == LoopSpec => [](FenceExclusive /\ CancelWins /\ AttemptBudget)
  BY LoopInvariant, PTL DEF LoopInv, QueueInv
=============================================================================
