-------------------------- MODULE WorkerEnrollment --------------------------
(***************************************************************************)
(* The trust state and the credentials of one worker, under concurrent     *)
(* calls of WorkerEnrollmentService.  Each call is one transaction, and    *)
(* each statement of it one step: at READ COMMITTED a plain SELECT sees    *)
(* what is committed when it runs and takes no lock, so approve, rotate    *)
(* and revoke may all have read the worker before one of them writes it.   *)
(* Workers share no rows, so one worker stands for all of them.            *)
(***************************************************************************)
EXTENDS Integers, FiniteSets

CONSTANTS
    Calls,     \* calls of the service that may be in progress at once
    Creds,     \* credential ids that uuid4 may return
    NoCall,    \* nobody
    NoCred     \* no credential

ASSUME EnrollAssumption == NoCall \notin Calls /\ NoCred \notin Creds

VARIABLES
    trust,        \* the committed trust_state; "absent" before registration
    quarantined,  \* whether quarantined_at is set
    live,         \* the committed credentials without revoked_at
    dead,         \* the committed credentials with revoked_at
    expired,      \* the credentials whose expires_at has passed
    owner,        \* the call that holds the lock of the worker row
    op,           \* op[c]: the service method the call runs, "none" outside
    pc,           \* pc[c]: the statement it is at
    cred,         \* cred[c]: the credential it has read, or was presented
    stamped,      \* stamped[c]: the credential it revoked, not committed yet
    minted,       \* minted[c]: the credential it inserted, not committed yet
    stale,        \* authenticate calls whose token had expired at their now
    late          \* history: authenticate calls whose token was revoked, or
                  \* whose worker was, before they began

rowVars    == <<trust, quarantined, live, dead, expired>>
callVars   == <<op, pc, cred, stamped, minted, stale, late>>
enrollVars == <<rowVars, owner, callVars>>

Methods == {"approve", "rotate", "revoke", "authenticate"}

-----------------------------------------------------------------------------

\* The transaction of call c ends: its locks and uncommitted rows are gone.
Close(c) ==
    /\ op' = [op EXCEPT ![c] = "none"]
    /\ pc' = [pc EXCEPT ![c] = "closed"]
    /\ cred' = [cred EXCEPT ![c] = NoCred]
    /\ stamped' = [stamped EXCEPT ![c] = NoCred]
    /\ minted' = [minted EXCEPT ![c] = NoCred]
    /\ stale' = stale \ {c}
    /\ late' = late \ {c}
    /\ owner' = IF owner = c THEN NoCall ELSE owner

\* An exception leaves session_scope: nothing was done.
Rollback(c) == Close(c) /\ UNCHANGED rowVars

\* Call c goes on to statement s.
GoTo(c, s) == pc' = [pc EXCEPT ![c] = s] /\ UNCHANGED <<op, stale, late>>

Begin(c, f, k, s) ==
    /\ op[c] = "none"
    /\ op' = [op EXCEPT ![c] = f]
    /\ pc' = [pc EXCEPT ![c] = s]
    /\ cred' = [cred EXCEPT ![c] = k]
    /\ UNCHANGED <<rowVars, owner, stamped, minted>>

\* register_worker: one insertion of a pending worker.
RegisterWorker ==
    /\ trust = "absent"
    /\ trust' = "pending"
    /\ UNCHANGED <<quarantined, live, dead, expired, owner, callVars>>

\* Bound: a call that issues a credential starts only while there is an unused
\* id for it and for each one in progress.
IdsLeft == Cardinality({c \in Calls : op[c] \in {"approve", "rotate"}})
             < Cardinality(Creds \ (live \cup dead))

ApproveWorker(c) ==
    IdsLeft /\ Begin(c, "approve", NoCred, "read") /\ UNCHANGED <<stale, late>>
RotateCredential(c) ==
    IdsLeft /\ Begin(c, "rotate", NoCred, "read") /\ UNCHANGED <<stale, late>>
RevokeWorker(c) ==
    Begin(c, "revoke", NoCred, "read") /\ UNCHANGED <<stale, late>>

\* What the first SELECT of a method must find in the worker row.
MayProceed(f) == CASE f = "approve" -> trust = "pending"
                   [] f = "rotate"  -> trust = "trusted"
                   [] f = "revoke"  -> trust \in {"pending", "trusted"}
                   [] OTHER         -> FALSE

\* The first SELECT; no lock is taken.  A method that does not like what it
\* sees raises LookupError.
ReadWorkerRow(c) ==
    /\ pc[c] = "read"
    /\ MayProceed(op[c])
    /\ GoTo(c, IF op[c] = "rotate" THEN "find" ELSE "update")
    /\ UNCHANGED <<rowVars, owner, cred, stamped, minted>>

ReadRefused(c) == pc[c] = "read" /\ ~MayProceed(op[c]) /\ Rollback(c)

\* The UPDATE of the worker row waits for its lock; the trigger
\* workers_revoked_terminal then sees the row as it is committed now.
TriggerRaises(c) == op[c] = "approve" /\ trust = "revoked"

UpdateTrust(c) ==
    /\ pc[c] = "update"
    /\ owner = NoCall
    /\ ~TriggerRaises(c)
    /\ owner' = c
    /\ GoTo(c, IF op[c] = "approve" THEN "check" ELSE "find")
    /\ UNCHANGED <<rowVars, cred, stamped, minted>>

UpdateRefused(c) ==
    pc[c] = "update" /\ owner = NoCall /\ TriggerRaises(c) /\ Rollback(c)

\* Where a method goes once there is no credential left to revoke.
AfterRevocation(c) == IF op[c] = "rotate" THEN "check" ELSE "commit"

\* get_active_for_worker: a plain SELECT of the live credential.
FindActive(c) ==
    /\ pc[c] = "find"
    /\ \/ \E k \in live : /\ cred' = [cred EXCEPT ![c] = k]
                          /\ GoTo(c, "lock")
       \/ /\ live = {}
          /\ GoTo(c, AfterRevocation(c))
          /\ UNCHANGED cred
    /\ UNCHANGED <<rowVars, owner, stamped, minted>>

\* Nobody else has the row of credential k locked.
RowFree(c, k) == \A d \in Calls \ {c} : stamped[d] # k

\* SqlAlchemyWorkerCredentialRepository.revoke: SELECT ... FOR UPDATE waits
\* for the row and reads it again, then revoked_at is stamped.
RevokeCredential(c) ==
    /\ pc[c] = "lock"
    /\ RowFree(c, cred[c])
    /\ cred[c] \in live
    /\ stamped' = [stamped EXCEPT ![c] = cred[c]]
    /\ GoTo(c, AfterRevocation(c))
    /\ UNCHANGED <<rowVars, owner, cred, minted>>

\* It was revoked by the call we waited for: LookupError.
AlreadyRevoked(c) ==
    /\ pc[c] = "lock"
    /\ RowFree(c, cred[c])
    /\ cred[c] \notin live
    /\ Rollback(c)

\* Mutant: the caller's check is thought to be enough.
SeesTrustedUnchecked(c) == TRUE

\* The worker as call c sees it: its own UPDATE, else what is committed.
SeesTrusted(c) == (op[c] = "approve" /\ owner = c) \/ trust = "trusted"

\* _issue looks at the worker again before it makes a credential.
CheckTrusted(c) ==
    /\ pc[c] = "check"
    /\ SeesTrusted(c)
    /\ GoTo(c, "insert")
    /\ UNCHANGED <<rowVars, owner, cred, stamped, minted>>

NotTrusted(c) == pc[c] = "check" /\ ~SeesTrusted(c) /\ Rollback(c)

\* The unique index over live credentials makes an insertion wait for every
\* transaction whose commit would decide whether the key is taken.
IndexFree(c) == \A d \in Calls \ {c} : stamped[d] = NoCred /\ minted[d] = NoCred

InsertCredential(c) ==
    /\ pc[c] = "insert"
    /\ IndexFree(c)
    /\ live \subseteq {stamped[c]}
    /\ \E k \in Creds \ (live \cup dead) : minted' = [minted EXCEPT ![c] = k]
    /\ GoTo(c, "commit")
    /\ UNCHANGED <<rowVars, owner, cred, stamped>>

\* IntegrityError: the worker has another live credential.
DuplicateCredential(c) ==
    /\ pc[c] = "insert"
    /\ IndexFree(c)
    /\ ~(live \subseteq {stamped[c]})
    /\ Rollback(c)

\* The end of session_scope: what the call wrote becomes visible.
Commit(c) ==
    /\ pc[c] = "commit"
    /\ trust' = CASE op[c] = "approve" -> "trusted"
                  [] op[c] = "revoke"  -> "revoked"
                  [] OTHER             -> trust
    /\ live' = (live \ {stamped[c]}) \cup ({minted[c]} \ {NoCred})
    /\ dead' = dead \cup ({stamped[c]} \ {NoCred})
    /\ Close(c)
    /\ UNCHANGED <<quarantined, expired>>

\* The connection, or the process that makes the call, dies; also the
\* ValueError of _issue for a bad scope or ttl.
LostConnection(c) == op[c] # "none" /\ Rollback(c)

-----------------------------------------------------------------------------

\* authenticate with the token of credential k.  Its now is the caller's, so
\* expiry is decided when the call begins.
Authenticate(c, k) ==
    /\ Begin(c, "authenticate", k, "credential")
    /\ stale' = IF k \in expired THEN stale \cup {c} ELSE stale
    /\ late' = IF k \in dead \/ trust = "revoked" THEN late \cup {c} ELSE late

\* The credential exists, is not revoked and has not expired.
Usable(c) == cred[c] \in live /\ c \notin stale

ReadCredential(c) ==
    /\ pc[c] = "credential"
    /\ Usable(c)
    /\ GoTo(c, "worker")
    /\ UNCHANGED <<rowVars, owner, cred, stamped, minted>>

CredentialRefused(c) == pc[c] = "credential" /\ ~Usable(c) /\ Rollback(c)

\* A second SELECT reads the worker of the credential.
Admissible == trust = "trusted" /\ ~quarantined

ReadOwner(c) ==
    /\ pc[c] = "worker"
    /\ Admissible
    /\ GoTo(c, "admitted")
    /\ UNCHANGED <<rowVars, owner, cred, stamped, minted>>

OwnerRefused(c) == pc[c] = "worker" /\ ~Admissible /\ Rollback(c)

\* The caller has the AuthenticatedWorker and goes on with it.
Return(c) == pc[c] = "admitted" /\ Rollback(c)

\* quarantine and clear_quarantine: one UPDATE each, which waits for the row.
Quarantine ==
    /\ trust # "absent" /\ owner = NoCall
    /\ quarantined' = TRUE
    /\ UNCHANGED <<trust, live, dead, expired, owner, callVars>>

ClearQuarantine ==
    /\ quarantined /\ owner = NoCall
    /\ quarantined' = FALSE
    /\ UNCHANGED <<trust, live, dead, expired, owner, callVars>>

\* The clock passes expires_at.
Expire(k) ==
    /\ k \in (live \cup dead) \ expired
    /\ expired' = expired \cup {k}
    /\ UNCHANGED <<trust, quarantined, live, dead, owner, callVars>>

-----------------------------------------------------------------------------

EnrollInit ==
    /\ trust = "absent" /\ quarantined = FALSE
    /\ live = {} /\ dead = {} /\ expired = {}
    /\ owner = NoCall
    /\ op = [c \in Calls |-> "none"]
    /\ pc = [c \in Calls |-> "closed"]
    /\ cred = [c \in Calls |-> NoCred]
    /\ stamped = [c \in Calls |-> NoCred]
    /\ minted = [c \in Calls |-> NoCred]
    /\ stale = {} /\ late = {}

\* The steps in which a call waits for another one.
Contended(c) ==
    \/ UpdateTrust(c) \/ UpdateRefused(c)
    \/ RevokeCredential(c) \/ AlreadyRevoked(c)
    \/ InsertCredential(c) \/ DuplicateCredential(c)

Uncontended(c) ==
    \/ ReadWorkerRow(c) \/ ReadRefused(c) \/ FindActive(c)
    \/ CheckTrusted(c) \/ NotTrusted(c) \/ Commit(c)
    \/ ReadCredential(c) \/ CredentialRefused(c)
    \/ ReadOwner(c) \/ OwnerRefused(c) \/ Return(c)

EnrollNext ==
    \/ RegisterWorker \/ Quarantine \/ ClearQuarantine
    \/ \E k \in Creds : Expire(k)
    \/ \E c \in Calls :
         \/ ApproveWorker(c) \/ RotateCredential(c) \/ RevokeWorker(c)
         \/ \E k \in Creds : Authenticate(c, k)
         \/ Contended(c) \/ Uncontended(c) \/ LostConnection(c)

EnrollSpec == EnrollInit /\ [][EnrollNext]_enrollVars

\* A call goes on with its code, and PostgreSQL grants a lock to those who
\* wait for it in turn.
EnrollFair == \A c \in Calls : WF_enrollVars(Uncontended(c)) /\ SF_enrollVars(Contended(c))

-----------------------------------------------------------------------------

\* Every variable holds a value of its type, and a call that is closed holds
\* no lock and no uncommitted row.
EnrollTypeOK ==
    /\ trust \in {"absent", "pending", "trusted", "revoked"}
    /\ quarantined \in BOOLEAN
    /\ live \subseteq Creds /\ dead \subseteq Creds /\ expired \subseteq Creds
    /\ owner \in Calls \cup {NoCall}
    /\ op \in [Calls -> Methods \cup {"none"}]
    /\ pc \in [Calls -> {"closed", "read", "update", "find", "lock", "check",
                         "insert", "commit", "credential", "worker", "admitted"}]
    /\ cred \in [Calls -> Creds \cup {NoCred}]
    /\ stamped \in [Calls -> Creds \cup {NoCred}]
    /\ minted \in [Calls -> Creds \cup {NoCred}]
    /\ stale \subseteq Calls /\ late \subseteq Calls
    /\ \A c \in Calls : op[c] = "none" =>
         owner # c /\ stamped[c] = NoCred /\ minted[c] = NoCred

\* A trusted worker has exactly one live credential, and a worker that is
\* pending or revoked has none, although approval, rotation and revocation
\* read the worker without a lock and run at the same time.
LiveCredentialMatchesTrust ==
    IF trust = "trusted" THEN \E k \in Creds : live = {k} ELSE live = {}

\* A revoked worker stays revoked and a revoked credential stays revoked: an
\* approval that read "pending" before the revocation does not undo it.
RevokedTerminal ==
    [][/\ trust = "revoked" => trust' = "revoked"
       /\ dead \subseteq dead' /\ dead \cap live' = {}]_enrollVars

\* authenticate never admits a token that was revoked, alone or with its
\* worker, before the call began.
LateRefused == \A c \in Calls : pc[c] = "admitted" => c \notin late

=============================================================================
