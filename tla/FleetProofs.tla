---------------------------- MODULE FleetProofs -----------------------------
(***************************************************************************)
(* Theorems about the worker fleet: enrollment for any number of calls and  *)
(* credentials, the scheduling service for any number of callers,           *)
(* reservations and workers, and the gate in front of the queue.            *)
(***************************************************************************)
EXTENDS WorkerEnrollment, Placement, WorkerGate, QuotaLedgerProofs

-----------------------------------------------------------------------------
(* Enrollment. *)

\* Where a method is says what it holds.
Writing == {"find", "lock", "check", "insert", "commit"}

\* The worker row is locked by a call exactly while it is an approval or a
\* revocation that has written the row; each method goes through its own
\* statements.
RowLock ==
    /\ \A c \in Calls : op[c] = "none" => pc[c] = "closed"
    /\ \A c \in Calls :
         op[c] = "approve" => pc[c] \in {"read", "update", "check", "insert", "commit"}
    /\ \A c \in Calls :
         op[c] = "rotate" => pc[c] \in {"read", "find", "lock", "check", "insert", "commit"}
    /\ \A c \in Calls :
         op[c] = "revoke" => pc[c] \in {"read", "update", "find", "lock", "commit"}
    /\ \A c \in Calls :
         op[c] = "authenticate" => pc[c] \in {"credential", "worker", "admitted"}
    /\ \A c \in Calls :
         owner = c <=> op[c] \in {"approve", "revoke"} /\ pc[c] \in Writing

\* A credential is stamped by one call at a time, and only while it is live.
StampsExclusive ==
    /\ \A c \in Calls : stamped[c] # NoCred => stamped[c] \in live
    /\ \A c, d \in Calls : stamped[c] # NoCred /\ stamped[c] = stamped[d] => c = d

\* Who has inserted a credential and not committed is the only call with
\* uncommitted credentials, and will not commit a second live one.
MintsExclusive ==
    \A c \in Calls : minted[c] # NoCred =>
        /\ pc[c] = "commit" /\ op[c] \in {"approve", "rotate"}
        /\ minted[c] \notin live \cup dead
        /\ live \subseteq {stamped[c]}
        /\ \A d \in Calls \ {c} : stamped[d] = NoCred

\* What a call knows when it has passed the statement that made sure of it.
Progress ==
    /\ \A c \in Calls : op[c] = "approve" => stamped[c] = NoCred
    /\ \A c \in Calls : op[c] = "approve" /\ owner = c => trust \in {"pending", "trusted"}
    /\ \A c \in Calls : op[c] \in {"approve", "rotate"} /\ pc[c] = "commit"
                          => minted[c] # NoCred
    /\ \A c \in Calls : op[c] = "rotate" /\ pc[c] # "read" => trust \in {"trusted", "revoked"}
    /\ \A c \in Calls : op[c] = "rotate" /\ pc[c] = "check" /\ stamped[c] = NoCred
                          => trust = "revoked"
    /\ \A c \in Calls : op[c] = "rotate" /\ pc[c] \in {"insert", "commit"}
                          => stamped[c] # NoCred
    /\ \A c \in Calls : op[c] = "revoke" /\ pc[c] = "commit" /\ stamped[c] = NoCred
                          => live = {}
    /\ \A c \in Calls : pc[c] = "update" => trust # "absent"
    /\ live \cap dead = {}

\* A token revoked before the call is still being looked at, and still is.
Lateness ==
    \A c \in late : /\ op[c] = "authenticate" /\ pc[c] = "credential"
                    /\ cred[c] \in dead \/ trust = "revoked"

EnrollInv == EnrollTypeOK /\ RowLock /\ StampsExclusive /\ MintsExclusive
               /\ Progress /\ LiveCredentialMatchesTrust /\ Lateness

-----------------------------------------------------------------------------
\* The initial state satisfies the invariant.
LEMMA InitInv == EnrollInit => EnrollInv
BY EnrollAssumption DEF EnrollInit, EnrollInv, EnrollTypeOK, RowLock, Writing, StampsExclusive,
   MintsExclusive, Progress, LiveCredentialMatchesTrust, Lateness, Methods

\* A call that ends without a commit takes nothing with it.
LEMMA RollbackInv ==
    ASSUME EnrollInv, NEW c \in Calls, Rollback(c)
    PROVE  EnrollInv'
<1>1. EnrollTypeOK'
  BY EnrollAssumption DEF EnrollInv, EnrollTypeOK, Methods, Rollback, Close, rowVars
<1>2. RowLock'
  BY EnrollAssumption DEF EnrollInv, EnrollTypeOK, RowLock, Writing, Rollback, Close, rowVars
<1>3. StampsExclusive'
  BY DEF EnrollInv, EnrollTypeOK, StampsExclusive, Rollback, Close, rowVars
<1>4. MintsExclusive'
  BY DEF EnrollInv, EnrollTypeOK, MintsExclusive, Rollback, Close, rowVars
<1>5. Progress'
  BY EnrollAssumption DEF EnrollInv, EnrollTypeOK, Progress, Rollback, Close, rowVars
<1>6. LiveCredentialMatchesTrust'
  BY DEF EnrollInv, EnrollTypeOK, LiveCredentialMatchesTrust, Rollback, Close, rowVars
<1>7. Lateness'
  BY DEF EnrollInv, EnrollTypeOK, Lateness, Rollback, Close, rowVars
<1> QED BY <1>1, <1>2, <1>3, <1>4, <1>5, <1>6, <1>7 DEF EnrollInv

\* A call that begins holds nothing yet.
LEMMA BeginInv ==
    ASSUME EnrollInv, NEW c \in Calls,
           ApproveWorker(c) \/ RotateCredential(c) \/ RevokeWorker(c)
    PROVE  EnrollInv'
<1>1. EnrollTypeOK'
  BY DEF EnrollInv, EnrollTypeOK, Methods,
     ApproveWorker, RotateCredential, RevokeWorker, Begin, rowVars
<1>2. RowLock'
  BY DEF EnrollInv, EnrollTypeOK, RowLock, Writing,
     ApproveWorker, RotateCredential, RevokeWorker, Begin, rowVars
<1>3. StampsExclusive'
  BY DEF EnrollInv, EnrollTypeOK, StampsExclusive,
     ApproveWorker, RotateCredential, RevokeWorker, Begin, rowVars
<1>4. MintsExclusive'
  BY DEF EnrollInv, EnrollTypeOK, MintsExclusive,
     ApproveWorker, RotateCredential, RevokeWorker, Begin, rowVars
<1>5. Progress'
  BY DEF EnrollInv, EnrollTypeOK, Progress,
     ApproveWorker, RotateCredential, RevokeWorker, Begin, rowVars
<1>6. LiveCredentialMatchesTrust'
  BY DEF EnrollInv, EnrollTypeOK, LiveCredentialMatchesTrust,
     ApproveWorker, RotateCredential, RevokeWorker, Begin, rowVars
<1>7. Lateness'
  BY DEF EnrollInv, EnrollTypeOK, Lateness,
     ApproveWorker, RotateCredential, RevokeWorker, Begin, rowVars
<1> QED BY <1>1, <1>2, <1>3, <1>4, <1>5, <1>6, <1>7 DEF EnrollInv

\* authenticate begins.
LEMMA AuthenticateInv ==
    ASSUME EnrollInv, NEW c \in Calls, NEW k \in Creds, Authenticate(c, k)
    PROVE  EnrollInv'
<1>1. EnrollTypeOK'
  BY DEF EnrollInv, EnrollTypeOK, Methods, Authenticate, Begin, rowVars
<1>2. RowLock'
  BY DEF EnrollInv, EnrollTypeOK, RowLock, Writing, Authenticate, Begin, rowVars
<1>3. StampsExclusive'
  BY DEF EnrollInv, EnrollTypeOK, StampsExclusive, Authenticate, Begin, rowVars
<1>4. MintsExclusive'
  BY DEF EnrollInv, EnrollTypeOK, MintsExclusive, Authenticate, Begin, rowVars
<1>5. Progress'
  BY DEF EnrollInv, EnrollTypeOK, Progress, Authenticate, Begin, rowVars
<1>6. LiveCredentialMatchesTrust'
  BY DEF EnrollInv, EnrollTypeOK, LiveCredentialMatchesTrust, Authenticate, Begin, rowVars
<1>7. Lateness'
  BY DEF EnrollInv, EnrollTypeOK, Lateness, Authenticate, Begin, rowVars
<1> QED BY <1>1, <1>2, <1>3, <1>4, <1>5, <1>6, <1>7 DEF EnrollInv

\* The first SELECT of a method.
LEMMA ReadInv ==
    ASSUME EnrollInv, NEW c \in Calls, ReadWorkerRow(c)
    PROVE  EnrollInv'
<1>1. EnrollTypeOK'
  BY DEF EnrollInv, EnrollTypeOK, Methods, ReadWorkerRow, MayProceed, GoTo, rowVars
<1>2. RowLock'
  BY DEF EnrollInv, EnrollTypeOK, RowLock, Writing, ReadWorkerRow, MayProceed, GoTo, rowVars
<1>3. StampsExclusive'
  BY DEF EnrollInv, EnrollTypeOK, StampsExclusive, ReadWorkerRow, MayProceed, GoTo, rowVars
<1>4. MintsExclusive'
  BY DEF EnrollInv, EnrollTypeOK, MintsExclusive, ReadWorkerRow, MayProceed, GoTo, rowVars
<1>5. Progress'
  BY DEF EnrollInv, EnrollTypeOK, Progress, ReadWorkerRow, MayProceed, GoTo, rowVars
<1>6. LiveCredentialMatchesTrust'
  BY DEF EnrollInv, EnrollTypeOK, LiveCredentialMatchesTrust,
     ReadWorkerRow, MayProceed, GoTo, rowVars
<1>7. Lateness'
  BY DEF EnrollInv, EnrollTypeOK, Lateness, ReadWorkerRow, MayProceed, GoTo, rowVars
<1> QED BY <1>1, <1>2, <1>3, <1>4, <1>5, <1>6, <1>7 DEF EnrollInv

\* The UPDATE of the worker row.
LEMMA UpdateInv ==
    ASSUME EnrollInv, NEW c \in Calls, UpdateTrust(c)
    PROVE  EnrollInv'
<1>1. EnrollTypeOK'
  BY DEF EnrollInv, EnrollTypeOK, RowLock, Methods, UpdateTrust, TriggerRaises, GoTo, rowVars
<1>2. RowLock'
  BY EnrollAssumption DEF EnrollInv, EnrollTypeOK, RowLock, Writing, Methods,
     UpdateTrust, TriggerRaises, GoTo, rowVars
<1>3. StampsExclusive'
  BY DEF EnrollInv, EnrollTypeOK, StampsExclusive, UpdateTrust, TriggerRaises, GoTo, rowVars
<1>4. MintsExclusive'
  BY DEF EnrollInv, EnrollTypeOK, MintsExclusive, UpdateTrust, TriggerRaises, GoTo, rowVars
<1>5. Progress'
  BY DEF EnrollInv, EnrollTypeOK, Progress, UpdateTrust, TriggerRaises, GoTo, rowVars
<1>6. LiveCredentialMatchesTrust'
  BY DEF EnrollInv, EnrollTypeOK, LiveCredentialMatchesTrust,
     UpdateTrust, TriggerRaises, GoTo, rowVars
<1>7. Lateness'
  BY DEF EnrollInv, EnrollTypeOK, Lateness, UpdateTrust, TriggerRaises, GoTo, rowVars
<1> QED BY <1>1, <1>2, <1>3, <1>4, <1>5, <1>6, <1>7 DEF EnrollInv

\* The SELECT of the live credential.
LEMMA FindInv ==
    ASSUME EnrollInv, NEW c \in Calls, FindActive(c)
    PROVE  EnrollInv'
<1>1. EnrollTypeOK'
  BY DEF EnrollInv, EnrollTypeOK, Methods, FindActive, AfterRevocation, GoTo, rowVars
<1>2. RowLock'
  BY DEF EnrollInv, EnrollTypeOK, RowLock, Writing, FindActive, AfterRevocation, GoTo, rowVars
<1>3. StampsExclusive'
  BY DEF EnrollInv, EnrollTypeOK, StampsExclusive, FindActive, AfterRevocation, GoTo, rowVars
<1>4. MintsExclusive'
  BY DEF EnrollInv, EnrollTypeOK, MintsExclusive, FindActive, AfterRevocation, GoTo, rowVars
<1>5. Progress'
  BY DEF EnrollInv, EnrollTypeOK, Progress, RowLock, LiveCredentialMatchesTrust,
     FindActive, AfterRevocation, GoTo, rowVars
<1>6. LiveCredentialMatchesTrust'
  BY DEF EnrollInv, EnrollTypeOK, LiveCredentialMatchesTrust,
     FindActive, AfterRevocation, GoTo, rowVars
<1>7. Lateness'
  BY DEF EnrollInv, EnrollTypeOK, Lateness, FindActive, AfterRevocation, GoTo, rowVars
<1> QED BY <1>1, <1>2, <1>3, <1>4, <1>5, <1>6, <1>7 DEF EnrollInv

\* The stamp on the live credential.
LEMMA RevokeInv ==
    ASSUME EnrollInv, NEW c \in Calls, RevokeCredential(c)
    PROVE  EnrollInv'
<1>1. EnrollTypeOK'
  BY DEF EnrollInv, EnrollTypeOK, RowLock, Methods,
     RevokeCredential, RowFree, AfterRevocation, GoTo, rowVars
<1>2. RowLock'
  BY DEF EnrollInv, EnrollTypeOK, RowLock, Writing,
     RevokeCredential, RowFree, AfterRevocation, GoTo, rowVars
<1>3. StampsExclusive'
  BY DEF EnrollInv, EnrollTypeOK, StampsExclusive,
     RevokeCredential, RowFree, AfterRevocation, GoTo, rowVars
<1>4. MintsExclusive'
  BY DEF EnrollInv, EnrollTypeOK, MintsExclusive,
     RevokeCredential, RowFree, AfterRevocation, GoTo, rowVars
<1>5. Progress'
  BY EnrollAssumption DEF EnrollInv, EnrollTypeOK, Progress, RowLock,
     RevokeCredential, RowFree, AfterRevocation, GoTo, rowVars
<1>6. LiveCredentialMatchesTrust'
  BY DEF EnrollInv, EnrollTypeOK, LiveCredentialMatchesTrust,
     RevokeCredential, RowFree, AfterRevocation, GoTo, rowVars
<1>7. Lateness'
  BY DEF EnrollInv, EnrollTypeOK, Lateness,
     RevokeCredential, RowFree, AfterRevocation, GoTo, rowVars
<1> QED BY <1>1, <1>2, <1>3, <1>4, <1>5, <1>6, <1>7 DEF EnrollInv

\* The second look of _issue at the worker.
LEMMA CheckInv ==
    ASSUME EnrollInv, NEW c \in Calls, CheckTrusted(c)
    PROVE  EnrollInv'
<1>1. EnrollTypeOK'
  BY DEF EnrollInv, EnrollTypeOK, Methods, CheckTrusted, SeesTrusted, GoTo, rowVars
<1>2. RowLock'
  BY DEF EnrollInv, EnrollTypeOK, RowLock, Writing, CheckTrusted, SeesTrusted, GoTo, rowVars
<1>3. StampsExclusive'
  BY DEF EnrollInv, EnrollTypeOK, StampsExclusive, CheckTrusted, SeesTrusted, GoTo, rowVars
<1>4. MintsExclusive'
  BY DEF EnrollInv, EnrollTypeOK, MintsExclusive, CheckTrusted, SeesTrusted, GoTo, rowVars
<1>5. Progress'
  BY DEF EnrollInv, EnrollTypeOK, Progress, CheckTrusted, SeesTrusted, GoTo, rowVars
<1>6. LiveCredentialMatchesTrust'
  BY DEF EnrollInv, EnrollTypeOK, LiveCredentialMatchesTrust,
     CheckTrusted, SeesTrusted, GoTo, rowVars
<1>7. Lateness'
  BY DEF EnrollInv, EnrollTypeOK, Lateness, CheckTrusted, SeesTrusted, GoTo, rowVars
<1> QED BY <1>1, <1>2, <1>3, <1>4, <1>5, <1>6, <1>7 DEF EnrollInv

\* The insertion of the new credential.
LEMMA InsertInv ==
    ASSUME EnrollInv, NEW c \in Calls, InsertCredential(c)
    PROVE  EnrollInv'
<1>1. EnrollTypeOK'
  BY DEF EnrollInv, EnrollTypeOK, RowLock, Methods, InsertCredential, IndexFree, GoTo, rowVars
<1>2. RowLock'
  BY DEF EnrollInv, EnrollTypeOK, RowLock, Writing, InsertCredential, IndexFree, GoTo, rowVars
<1>3. StampsExclusive'
  BY DEF EnrollInv, EnrollTypeOK, StampsExclusive, InsertCredential, IndexFree, GoTo, rowVars
<1>4. MintsExclusive'
  BY DEF EnrollInv, EnrollTypeOK, MintsExclusive, RowLock, Methods,
     InsertCredential, IndexFree, GoTo, rowVars
<1>5. Progress'
  BY EnrollAssumption DEF EnrollInv, EnrollTypeOK, Progress,
     InsertCredential, IndexFree, GoTo, rowVars
<1>6. LiveCredentialMatchesTrust'
  BY DEF EnrollInv, EnrollTypeOK, LiveCredentialMatchesTrust,
     InsertCredential, IndexFree, GoTo, rowVars
<1>7. Lateness'
  BY DEF EnrollInv, EnrollTypeOK, Lateness, InsertCredential, IndexFree, GoTo, rowVars
<1> QED BY <1>1, <1>2, <1>3, <1>4, <1>5, <1>6, <1>7 DEF EnrollInv

\* The commit of approve, rotate or revoke.
LEMMA CommitInv ==
    ASSUME EnrollInv, NEW c \in Calls, Commit(c)
    PROVE  EnrollInv'
<1>1. EnrollTypeOK'
  BY EnrollAssumption DEF EnrollInv, EnrollTypeOK, Methods, Commit, Close
<1>2. RowLock'
  BY EnrollAssumption DEF EnrollInv, EnrollTypeOK, RowLock, Writing, Commit, Close
<1>3. StampsExclusive'
  BY DEF EnrollInv, EnrollTypeOK, StampsExclusive, Commit, Close
<1>4. MintsExclusive'
  BY DEF EnrollInv, EnrollTypeOK, MintsExclusive, RowLock, Progress, Writing, Commit, Close
<1>5. Progress'
  BY EnrollAssumption DEF EnrollInv, EnrollTypeOK, Progress, RowLock, StampsExclusive, MintsExclusive, Writing,
     Commit, Close
<1>6. LiveCredentialMatchesTrust'
  BY DEF EnrollInv, EnrollTypeOK, LiveCredentialMatchesTrust, RowLock, StampsExclusive, MintsExclusive, Progress, Methods,
     Commit, Close
<1>7. Lateness'
  BY DEF EnrollInv, EnrollTypeOK, Lateness, RowLock, Progress, Writing, Commit, Close
<1> QED BY <1>1, <1>2, <1>3, <1>4, <1>5, <1>6, <1>7 DEF EnrollInv

\* The two SELECTs of authenticate.
LEMMA AuthReadInv ==
    ASSUME EnrollInv, NEW c \in Calls, ReadCredential(c) \/ ReadOwner(c)
    PROVE  EnrollInv'
<1>1. EnrollTypeOK'
  BY DEF EnrollInv, EnrollTypeOK, Methods, ReadCredential, Usable, ReadOwner, GoTo, rowVars
<1>2. RowLock'
  BY DEF EnrollInv, EnrollTypeOK, RowLock, Writing,
     ReadCredential, Usable, ReadOwner, GoTo, rowVars
<1>3. StampsExclusive'
  BY DEF EnrollInv, EnrollTypeOK, StampsExclusive,
     ReadCredential, Usable, ReadOwner, GoTo, rowVars
<1>4. MintsExclusive'
  BY DEF EnrollInv, EnrollTypeOK, MintsExclusive,
     ReadCredential, Usable, ReadOwner, GoTo, rowVars
<1>5. Progress'
  BY DEF EnrollInv, EnrollTypeOK, Progress, ReadCredential, Usable, ReadOwner, GoTo, rowVars
<1>6. LiveCredentialMatchesTrust'
  BY DEF EnrollInv, EnrollTypeOK, LiveCredentialMatchesTrust,
     ReadCredential, Usable, ReadOwner, GoTo, rowVars
<1>7. Lateness'
  BY DEF EnrollInv, EnrollTypeOK, Lateness, Progress, LiveCredentialMatchesTrust,
     ReadCredential, Usable, ReadOwner, GoTo, rowVars
<1> QED BY <1>1, <1>2, <1>3, <1>4, <1>5, <1>6, <1>7 DEF EnrollInv

\* register_worker.
LEMMA RegisterInv ==
    ASSUME EnrollInv, RegisterWorker
    PROVE  EnrollInv'
<1>1. EnrollTypeOK'
  BY DEF EnrollInv, EnrollTypeOK, Methods, RegisterWorker, callVars
<1>2. RowLock'
  BY DEF EnrollInv, EnrollTypeOK, RowLock, Writing, RegisterWorker, callVars
<1>3. StampsExclusive'
  BY DEF EnrollInv, EnrollTypeOK, StampsExclusive, RegisterWorker, callVars
<1>4. MintsExclusive'
  BY DEF EnrollInv, EnrollTypeOK, MintsExclusive, RegisterWorker, callVars
<1>5. Progress'
  BY DEF EnrollInv, EnrollTypeOK, Progress, RegisterWorker, callVars
<1>6. LiveCredentialMatchesTrust'
  BY DEF EnrollInv, EnrollTypeOK, LiveCredentialMatchesTrust, RegisterWorker, callVars
<1>7. Lateness'
  BY DEF EnrollInv, EnrollTypeOK, Lateness, RegisterWorker, callVars
<1> QED BY <1>1, <1>2, <1>3, <1>4, <1>5, <1>6, <1>7 DEF EnrollInv

\* quarantine and clear_quarantine.
LEMMA QuarantineInv ==
    ASSUME EnrollInv, Quarantine \/ ClearQuarantine
    PROVE  EnrollInv'
<1>1. EnrollTypeOK'
  BY DEF EnrollInv, EnrollTypeOK, Methods, Quarantine, ClearQuarantine, callVars
<1>2. RowLock'
  BY DEF EnrollInv, EnrollTypeOK, RowLock, Writing, Quarantine, ClearQuarantine, callVars
<1>3. StampsExclusive'
  BY DEF EnrollInv, EnrollTypeOK, StampsExclusive, Quarantine, ClearQuarantine, callVars
<1>4. MintsExclusive'
  BY DEF EnrollInv, EnrollTypeOK, MintsExclusive, Quarantine, ClearQuarantine, callVars
<1>5. Progress'
  BY DEF EnrollInv, EnrollTypeOK, Progress, Quarantine, ClearQuarantine, callVars
<1>6. LiveCredentialMatchesTrust'
  BY DEF EnrollInv, EnrollTypeOK, LiveCredentialMatchesTrust,
     Quarantine, ClearQuarantine, callVars
<1>7. Lateness'
  BY DEF EnrollInv, EnrollTypeOK, Lateness, Quarantine, ClearQuarantine, callVars
<1> QED BY <1>1, <1>2, <1>3, <1>4, <1>5, <1>6, <1>7 DEF EnrollInv

\* The passing of time.
LEMMA ExpireInv ==
    ASSUME EnrollInv, NEW k \in Creds, Expire(k)
    PROVE  EnrollInv'
<1>1. EnrollTypeOK'
  BY DEF EnrollInv, EnrollTypeOK, Methods, Expire, callVars
<1>2. RowLock'
  BY DEF EnrollInv, EnrollTypeOK, RowLock, Writing, Expire, callVars
<1>3. StampsExclusive'
  BY DEF EnrollInv, EnrollTypeOK, StampsExclusive, Expire, callVars
<1>4. MintsExclusive'
  BY DEF EnrollInv, EnrollTypeOK, MintsExclusive, Expire, callVars
<1>5. Progress'
  BY DEF EnrollInv, EnrollTypeOK, Progress, Expire, callVars
<1>6. LiveCredentialMatchesTrust'
  BY DEF EnrollInv, EnrollTypeOK, LiveCredentialMatchesTrust, Expire, callVars
<1>7. Lateness'
  BY DEF EnrollInv, EnrollTypeOK, Lateness, Expire, callVars
<1> QED BY <1>1, <1>2, <1>3, <1>4, <1>5, <1>6, <1>7 DEF EnrollInv

-----------------------------------------------------------------------------

\* Every step of the service keeps the invariant.
LEMMA NextInv == EnrollInv /\ [EnrollNext]_enrollVars => EnrollInv'
<1> SUFFICES ASSUME EnrollInv, [EnrollNext]_enrollVars PROVE EnrollInv'
  OBVIOUS
<1>1. CASE RegisterWorker  BY <1>1, RegisterInv
<1>2. CASE Quarantine \/ ClearQuarantine  BY <1>2, QuarantineInv
<1>3. CASE \E k \in Creds : Expire(k)  BY <1>3, ExpireInv
<1>4. ASSUME NEW c \in Calls, ApproveWorker(c) \/ RotateCredential(c) \/ RevokeWorker(c)
      PROVE  EnrollInv'
  BY <1>4, BeginInv
<1>5. ASSUME NEW c \in Calls, NEW k \in Creds, Authenticate(c, k) PROVE EnrollInv'
  BY <1>5, AuthenticateInv
<1>6. ASSUME NEW c \in Calls, Contended(c) PROVE EnrollInv'
  <2>1. CASE UpdateTrust(c)  BY <2>1, UpdateInv
  <2>2. CASE RevokeCredential(c)  BY <2>2, RevokeInv
  <2>3. CASE InsertCredential(c)  BY <2>3, InsertInv
  <2>4. CASE UpdateRefused(c) \/ AlreadyRevoked(c) \/ DuplicateCredential(c)
    BY <2>4, RollbackInv DEF UpdateRefused, AlreadyRevoked, DuplicateCredential
  <2> QED BY <1>6, <2>1, <2>2, <2>3, <2>4 DEF Contended
<1>7. ASSUME NEW c \in Calls, Uncontended(c) PROVE EnrollInv'
  <2>1. CASE ReadWorkerRow(c)  BY <2>1, ReadInv
  <2>2. CASE FindActive(c)  BY <2>2, FindInv
  <2>3. CASE CheckTrusted(c)  BY <2>3, CheckInv
  <2>4. CASE Commit(c)  BY <2>4, CommitInv
  <2>5. CASE ReadCredential(c) \/ ReadOwner(c)  BY <2>5, AuthReadInv
  <2>6. CASE ReadRefused(c) \/ NotTrusted(c) \/ CredentialRefused(c) \/ OwnerRefused(c)
               \/ Return(c)
    BY <2>6, RollbackInv DEF ReadRefused, NotTrusted, CredentialRefused, OwnerRefused, Return
  <2> QED BY <1>7, <2>1, <2>2, <2>3, <2>4, <2>5, <2>6 DEF Uncontended
<1>8. ASSUME NEW c \in Calls, LostConnection(c) PROVE EnrollInv'
  BY <1>8, RollbackInv DEF LostConnection
<1>9. CASE UNCHANGED enrollVars
  BY <1>9 DEF EnrollInv, EnrollTypeOK, RowLock, StampsExclusive, MintsExclusive, Progress,
     LiveCredentialMatchesTrust, Lateness, enrollVars, rowVars, callVars
<1> QED BY <1>1, <1>2, <1>3, <1>4, <1>5, <1>6, <1>7, <1>8, <1>9 DEF EnrollNext

\* The conjunction of what calls hold, know and have committed is an
\* invariant of the enrollment service.
THEOREM EnrollInvariant == EnrollSpec => []EnrollInv
BY InitInv, NextInv, PTL DEF EnrollSpec

\* Every reachable state is well typed, and a closed call of session_scope
\* holds no lock and no uncommitted row.
THEOREM EnrollTypeCorrect == EnrollSpec => []EnrollTypeOK
<1>1. EnrollInv => EnrollTypeOK  BY DEF EnrollInv
<1> QED BY <1>1, EnrollInvariant, PTL

\* However approve_worker, rotate_credential and revoke_worker interleave and
\* wherever they die, a trusted worker has exactly one live credential and any
\* other worker none.
THEOREM LiveCredentialSafe == EnrollSpec => []LiveCredentialMatchesTrust
<1>1. EnrollInv => LiveCredentialMatchesTrust  BY DEF EnrollInv
<1> QED BY <1>1, EnrollInvariant, PTL

\* authenticate never admits a token revoked before the call began.
THEOREM LateRefusedSafe == EnrollSpec => []LateRefused
<1>1. EnrollInv => LateRefused  BY DEF EnrollInv, Lateness, LateRefused, EnrollTypeOK
<1> QED BY <1>1, EnrollInvariant, PTL

\* No call takes a worker, or a credential, out of the revoked state.
THEOREM RevocationTerminal == EnrollSpec => RevokedTerminal
<1> DEFINE Terminal == /\ trust = "revoked" => trust' = "revoked"
                       /\ dead \subseteq dead' /\ dead \cap live' = {}
<1>1. ASSUME EnrollInv, NEW c \in Calls, Commit(c) PROVE Terminal
  <2>1. trust = "revoked" => trust' = "revoked"
    BY <1>1 DEF Commit, EnrollInv, EnrollTypeOK, RowLock, Writing, Progress
  <2>2. dead \subseteq dead'  BY <1>1 DEF Commit
  <2>3. dead \cap live' = {}
    BY <1>1 DEF Commit, EnrollInv, EnrollTypeOK, MintsExclusive, Progress
  <2> QED BY <2>1, <2>2, <2>3
<1>2. ASSUME EnrollInv, EnrollNext, ~\E c \in Calls : Commit(c)
      PROVE  /\ trust = "revoked" => trust' = "revoked"
             /\ dead' = dead /\ live' = live
  BY <1>2 DEF EnrollNext, RegisterWorker, Quarantine, ClearQuarantine, Expire, ApproveWorker,
     RotateCredential, RevokeWorker, Begin, Authenticate, Contended, Uncontended, Rollback,
     UpdateTrust, UpdateRefused, RevokeCredential, AlreadyRevoked, InsertCredential,
     DuplicateCredential, ReadWorkerRow, ReadRefused, FindActive, CheckTrusted, NotTrusted,
     ReadCredential, CredentialRefused, ReadOwner, OwnerRefused, Return, LostConnection, rowVars
<1>3. EnrollInv /\ [EnrollNext]_enrollVars => [Terminal]_enrollVars
  <2> SUFFICES ASSUME EnrollInv, EnrollNext PROVE Terminal
    BY DEF EnrollInv
  <2>1. CASE \E c \in Calls : Commit(c)  BY <2>1, <1>1
  <2>2. CASE ~\E c \in Calls : Commit(c)
    BY <2>2, <1>2 DEF EnrollInv, Progress
  <2> QED BY <2>1, <2>2
<1> QED BY <1>3, EnrollInvariant, PTL DEF EnrollSpec, RevokedTerminal

-----------------------------------------------------------------------------
(* Placement.  A worker once entered in a header stays there, so what a      *)
(* caller was told stays right; and a caller that has found the header taken *)
(* finds a worker in it.                                                     *)

\* What the callers know of the ledger.
CallersInv ==
    /\ at \in [Caller -> CallState]
    /\ want \in [Caller -> Res \cup {None}]
    /\ todo \in [Caller -> SUBSET Worker]
    /\ told \in [Caller -> Worker \cup {None}]
    /\ \A c \in Caller :
         /\ at[c] # "idle" => want[c] \in Res
         /\ at[c] \in {"reactivate", "collapsed", "placed"} => hold[want[c]] # "none"
         /\ at[c] = "placed" => told[c] = place[want[c]]

PlaceInv == LedgerInv /\ CallersInv /\ listed \subseteq Res

LEMMA PlaceStart == PlacementInit => PlaceInv
  BY LedgerStart DEF PlacementInit, PlaceInv, CallersInv, CallState

\* Whatever the ledger does, a header stays and keeps its worker.
LEMMA HeaderStays ==
    ASSUME LedgerTypeOK, [LedgerNext]_ledgerVars, NEW r \in Res, hold[r] # "none"
    PROVE  hold'[r] # "none" /\ place'[r] = place[r]
  BY DEF LedgerTypeOK, LedgerNext, ledgerVars, EnsureCapacity, Reserve, Reactivate, Renew,
         Release, Lapse, ReconcileCounters

\* So a step of the ledger alone takes nothing from the callers.
LEMMA CallersStay ==
    ASSUME PlaceInv, [LedgerNext]_ledgerVars, UNCHANGED callerVars
    PROVE  CallersInv'
  BY HeaderStays DEF PlaceInv, LedgerInv, CallersInv, callerVars, CallState

\* A step of one caller: the ledger does what it may, the caller is told the
\* worker of its header or nothing.
LEMMA OneCaller ==
    ASSUME PlaceInv, [LedgerNext]_ledgerVars, NEW c \in Caller,
           NEW a \in CallState, NEW r \in Res \cup {None}, NEW W \in SUBSET Worker,
           NEW w \in Worker \cup {None},
           at' = [at EXCEPT ![c] = a], want' = [want EXCEPT ![c] = r],
           todo' = [todo EXCEPT ![c] = W], told' = [told EXCEPT ![c] = w],
           a # "idle" => r \in Res,
           a \in {"reactivate", "collapsed", "placed"} => hold'[r] # "none",
           a = "placed" => w = place'[r]
    PROVE  CallersInv'
  <1>1. ASSUME NEW d \in Caller \ {c}
        PROVE  /\ at'[d] = at[d] /\ want'[d] = want[d] /\ told'[d] = told[d]
               /\ at[d] \in {"reactivate", "collapsed", "placed"} =>
                    /\ hold'[want[d]] # "none"
                    /\ place'[want[d]] = place[want[d]]
    BY <1>1, HeaderStays DEF PlaceInv, LedgerInv, CallersInv
  <1>2. /\ at'[c] = a /\ want'[c] = r /\ told'[c] = w
        /\ at' \in [Caller -> CallState] /\ want' \in [Caller -> Res \cup {None}]
        /\ todo' \in [Caller -> SUBSET Worker] /\ told' \in [Caller -> Worker \cup {None}]
    BY DEF PlaceInv, CallersInv
  <1>3. ASSUME NEW d \in Caller
        PROVE  /\ at'[d] # "idle" => want'[d] \in Res
               /\ at'[d] \in {"reactivate", "collapsed", "placed"} => hold'[want'[d]] # "none"
               /\ at'[d] = "placed" => told'[d] = place'[want'[d]]
    <2>1. CASE d = c
      BY <1>2, <2>1
    <2>2. CASE d # c
      BY <1>1, <2>2 DEF PlaceInv, CallersInv
    <2>. QED  BY <2>1, <2>2
  <1>. QED  BY <1>2, <1>3 DEF CallersInv

\* select_and_reserve uses the ledger as it may, and keeps what callers know.
LEMMA SelectStep ==
    ASSUME PlaceInv, NEW c \in Caller, SelectAndReserve(c)
    PROVE  [LedgerNext]_ledgerVars /\ CallersInv' /\ listed' = listed
  <1>. USE DEF PlaceInv, LedgerInv
  <1>0. /\ at[c] \in CallState /\ want[c] \in Res \cup {None} /\ todo[c] \in SUBSET Worker
        /\ told[c] \in Worker \cup {None} /\ (at[c] # "idle" => want[c] \in Res)
        /\ at = [at EXCEPT ![c] = at[c]] /\ want = [want EXCEPT ![c] = want[c]]
        /\ todo = [todo EXCEPT ![c] = todo[c]] /\ told = [told EXCEPT ![c] = told[c]]
    BY DEF CallersInv
  <1>a. \A r \in Res : hold[r] # "none" => place[r] \in Worker
    BY DEF LedgerTypeOK
  <1>r. ASSUME UNCHANGED ledgerVars, Raise(c)
        PROVE  [LedgerNext]_ledgerVars /\ CallersInv' /\ listed' = listed
    BY <1>r, OneCaller DEF Raise, Goto, CallState
  <1>w. ASSUME [LedgerNext]_ledgerVars, NEW w \in Worker, Answer(c, w), want[c] \in Res,
               hold'[want[c]] # "none", place'[want[c]] = w
        PROVE  [LedgerNext]_ledgerVars /\ CallersInv' /\ listed' = listed
    BY <1>w, <1>0, OneCaller DEF Answer, Goto, CallState
  <1>s. ASSUME UNCHANGED ledgerVars, UNCHANGED <<want, told, listed>>, at[c] # "idle",
               NEW a \in CallState, NEW W \in SUBSET Worker,
               at' = [at EXCEPT ![c] = a], todo' = [todo EXCEPT ![c] = W], a # "placed",
               a \in {"reactivate", "collapsed"} => hold[want[c]] # "none"
        PROVE  [LedgerNext]_ledgerVars /\ CallersInv' /\ listed' = listed
    <2>1. want' = [want EXCEPT ![c] = want[c]] /\ told' = [told EXCEPT ![c] = told[c]] /\ want[c] \in Res
      BY <1>s, <1>0
    <2>2. hold' = hold
      BY <1>s DEF ledgerVars
    <2>. QED  BY <1>s, <1>0, <2>1, <2>2, OneCaller
  <1>1. ASSUME NEW r \in Res, Call(c, r)
        PROVE  [LedgerNext]_ledgerVars /\ CallersInv' /\ listed' = listed
    BY <1>1, <1>0, OneCaller DEF Call, Goto, CallState
  <1>2. CASE Lookup(c)
    <2>1. want[c] \in Res /\ UNCHANGED ledgerVars
      BY <1>2, <1>0 DEF Lookup
    <2>2. CASE hold[want[c]] = "held" /\ Answer(c, place[want[c]])
      BY <2>1, <2>2, <1>a, <1>w DEF ledgerVars
    <2>3. CASE /\ hold[want[c]] = "released" /\ Goto(c, "reactivate")
               /\ UNCHANGED <<want, todo, told, listed>>
      <3>1. at[c] # "idle" /\ todo' = [todo EXCEPT ![c] = todo[c]] /\ "reactivate" \in CallState
        BY <1>2, <2>3, <1>0 DEF Lookup, CallState
      <3>. QED  BY <2>1, <2>3, <3>1, <1>0, <1>s DEF Goto
    <2>4. CASE Goto(c, "list") /\ UNCHANGED <<want, todo, told, listed>>
      <3>1. at[c] # "idle" /\ todo' = [todo EXCEPT ![c] = todo[c]] /\ "list" \in CallState
        BY <1>2, <2>4, <1>0 DEF Lookup, CallState
      <3>. QED  BY <2>1, <2>4, <3>1, <1>0, <1>s DEF Goto
    <2>. QED  BY <1>2, <2>2, <2>3, <2>4 DEF Lookup
  <1>3. CASE TryReactivate(c)
    <2>1. want[c] \in Res
      BY <1>3, <1>0 DEF TryReactivate
    <2>2. CASE hold[want[c]] = "held" /\ UNCHANGED ledgerVars /\ Answer(c, place[want[c]])
      BY <2>1, <2>2, <1>a, <1>w DEF ledgerVars
    <2>3. CASE Reactivate(want[c]) /\ Answer(c, place[want[c]])
      <3>1. [LedgerNext]_ledgerVars
        BY <2>1, <2>3 DEF LedgerNext
      <3>2. place[want[c]] \in Worker
        BY <2>1, <2>3, <1>a DEF Reactivate
      <3>3. hold'[want[c]] # "none" /\ place'[want[c]] = place[want[c]]
        BY <2>1, <2>3 DEF Reactivate, LedgerTypeOK
      <3>. QED  BY <2>1, <2>3, <3>1, <3>2, <3>3, <1>w
    <2>4. CASE UNCHANGED ledgerVars /\ Raise(c)
      BY <2>4, <1>r
    <2>. QED  BY <1>3, <2>2, <2>3, <2>4 DEF TryReactivate
  <1>4. CASE ListCandidates(c)
    <2>1. PICK eligible \in SUBSET Worker :
            LET free == {w \in eligible : Seeded(w)[w] - used[w] > 0} IN
            IF free = {} THEN Raise(c)
            ELSE /\ Goto(c, "trying")
                 /\ todo' = [todo EXCEPT ![c] = free]
                 /\ UNCHANGED <<want, told, listed>>
      BY <1>4 DEF ListCandidates
    <2>2. at[c] = "list" /\ UNCHANGED ledgerVars
      BY <1>4 DEF ListCandidates
    <2>. DEFINE free == {w \in eligible : Seeded(w)[w] - used[w] > 0}
    <2>3. free \in SUBSET Worker
      OBVIOUS
    <2>4. CASE free = {}
      BY <2>1, <2>2, <2>4, <1>r
    <2>5. CASE free # {}
      <3>1. /\ Goto(c, "trying") /\ todo' = [todo EXCEPT ![c] = free]
            /\ UNCHANGED <<want, told, listed>>
        BY <2>1, <2>5
      <3>. HIDE DEF free
      <3>. QED  BY <2>2, <2>3, <3>1, <1>0, OneCaller DEF Goto, CallState
    <2>. QED  BY <2>4, <2>5
  <1>5. ASSUME NEW w \in Worker, TryReserve(c, w)
        PROVE  [LedgerNext]_ledgerVars /\ CallersInv' /\ listed' = listed
    <2>1. want[c] \in Res /\ Reserve(want[c], w) /\ Answer(c, w)
      BY <1>5, <1>0 DEF TryReserve
    <2>2. [LedgerNext]_ledgerVars
      BY <2>1 DEF LedgerNext
    <2>3. hold'[want[c]] # "none" /\ place'[want[c]] = w
      BY <2>1 DEF Reserve, LedgerTypeOK
    <2>. QED  BY <2>1, <2>2, <2>3, <1>w
  <1>6. ASSUME NEW w \in Worker, TryNext(c, w)
        PROVE  [LedgerNext]_ledgerVars /\ CallersInv' /\ listed' = listed
    <2>1. at[c] = "trying" /\ UNCHANGED ledgerVars
      BY <1>6 DEF TryNext
    <2>2. CASE Raise(c)
      BY <2>1, <2>2, <1>r
    <2>3. CASE todo' = [todo EXCEPT ![c] = @ \ {w}] /\ UNCHANGED <<at, want, told, listed>>
      <3>1. todo[c] \ {w} \in SUBSET Worker /\ todo' = [todo EXCEPT ![c] = todo[c] \ {w}]
        BY <2>3, <1>0
      <3>2. at' = [at EXCEPT ![c] = "trying"] /\ "trying" \in CallState
        BY <2>1, <2>3, <1>0 DEF CallState
      <3>. QED  BY <2>1, <2>3, <3>1, <3>2, <1>s
    <2>. QED  BY <1>6, <2>2, <2>3 DEF TryNext
  <1>7. CASE TryRefused(c)
    BY <1>7, <1>r DEF TryRefused
  <1>8. CASE TryConflict(c)
    <2>1. /\ at[c] = "trying" /\ hold[want[c]] # "none" /\ UNCHANGED <<ledgerVars, want, todo, told, listed>>
          /\ at' = [at EXCEPT ![c] = "collapsed"]
      BY <1>8 DEF TryConflict, Goto
    <2>2. todo' = [todo EXCEPT ![c] = todo[c]] /\ "collapsed" \in CallState
      BY <2>1, <1>0 DEF CallState
    <2>. QED  BY <2>1, <2>2, <1>0, <1>s
  <1>9. CASE Collapse(c)
    <2>1. want[c] \in Res /\ hold[want[c]] # "none"
      BY <1>9, <1>0 DEF Collapse, CallersInv
    <2>. QED  BY <1>9, <2>1, <1>a, <1>w DEF Collapse, ledgerVars
  <1>10. CASE Leave(c)
    BY <1>10, <1>r DEF Leave
  <1>. QED  BY <1>1, <1>2, <1>3, <1>4, <1>5, <1>6, <1>7, <1>8, <1>9, <1>10 DEF SelectAndReserve

LEMMA PlaceStep == PlaceInv /\ [PlacementNext]_placeVars => [LedgerNext]_ledgerVars /\ PlaceInv'
  <1>. SUFFICES ASSUME PlaceInv, [PlacementNext]_placeVars
                PROVE  [LedgerNext]_ledgerVars /\ CallersInv' /\ listed' \subseteq Res
    BY LedgerStep DEF PlaceInv
  <1>1. ASSUME NEW c \in Caller, SelectAndReserve(c)
        PROVE  [LedgerNext]_ledgerVars /\ CallersInv' /\ listed' \subseteq Res
    BY <1>1, SelectStep DEF PlaceInv
  <1>2. CASE ListExpired
    BY <1>2, CallersStay DEF ListExpired
  <1>3. ASSUME NEW r \in Res, SweepRelease(r)
        PROVE  [LedgerNext]_ledgerVars /\ CallersInv' /\ listed' \subseteq Res
    <2>1. [LedgerNext]_ledgerVars
      BY <1>3 DEF SweepRelease, LedgerNext
    <2>. QED  BY <1>3, <2>1, CallersStay DEF SweepRelease, PlaceInv
  <1>4. CASE SweepCrash
    BY <1>4, CallersStay DEF SweepCrash
  <1>5. CASE Others
    <2>1. [LedgerNext]_ledgerVars
      BY <1>5 DEF Others, LedgerNext
    <2>. QED  BY <1>5, <2>1, CallersStay DEF Others, PlaceInv
  <1>6. CASE UNCHANGED placeVars
    BY <1>6, CallersStay DEF placeVars, PlaceInv
  <1>. QED  BY <1>1, <1>2, <1>3, <1>4, <1>5, <1>6 DEF PlacementNext

THEOREM PlacementInvariant == PlacementSpec => []PlaceInv
  BY PlaceStart, PlaceStep, PTL DEF PlacementSpec

\* select_and_reserve and release_expired use the ledger only as its own
\* specification allows, however many callers race: every result about
\* QuotaLedger is one about the scheduling service.
THEOREM UsesLedgerHolds == PlacementSpec => UsesLedger
  <1>1. PlacementInit => LedgerInit
    BY DEF PlacementInit
  <1>. QED  BY <1>1, PlaceStep, PlacementInvariant, PTL DEF PlacementSpec, UsesLedger, LedgerSpec

\* The worker select_and_reserve returns is the one whose counter the
\* reservation is charged to, whatever races the caller met.
THEOREM CallersAgreeHolds == PlacementSpec => []CallersAgree
  <1>1. PlaceInv => CallersAgree
    BY DEF PlaceInv, CallersInv, CallersAgree
  <1>. QED  BY <1>1, PlacementInvariant, PTL

\* While callers, sweeps and the instance flow race, the counters equal what is
\* held and stay within their limits.
THEOREM PlacedWithinLimits == PlacementSpec => [](Conserved /\ NoOvercommit)
  <1>1. PlaceInv => Conserved /\ NoOvercommit
    BY DEF PlaceInv, LedgerInv
  <1>. QED  BY <1>1, PlacementInvariant, PTL

-----------------------------------------------------------------------------
(* The gate.  What a refusal may say is known from what was against the      *)
(* request since it was sent; for start also from the state of the job.      *)

Outcome == {"ok", "lease", "no job", "WorkerAuthenticationError", "ScopeError", "WorkerDrainingError",
            "WorkerStaleError", "LookupError", "InstanceOwnershipError"}
GateCall == LeaseCalls \cup {"authenticate", "claim", "report"}

Request == [m : GateCall \cup {"none"}, at : {"idle", "gateway", "service", "queue", "answer"},
            out : Outcome \cup {"none"}, late : BOOLEAN, against : SUBSET {"credential", "lease"}]

GateShape ==
    /\ transport \in {"http", "local"} /\ AllScopes \ {"jobs:claim"} \subseteq scopes
    /\ trusted \in BOOLEAN /\ drain \in BOOLEAN /\ grip \in BOOLEAN
    /\ req \in Request
    /\ req # NoReq => req.m \in GateCall /\ req.at # "idle"
    /\ req.at = "answer" <=> req.out # "none"

\* The worker is where it sent the request from.
AtCall == req # NoReq => pos = req.m \/ (req.m = "report" /\ pos = "dispatch")

\* What is against the request has been noted; the answer to it takes the
\* lease away only where it says so.
Noted ==
    req # NoReq => /\ ~trusted => "credential" \in req.against
                   /\ req.m \in LeaseCalls /\ req.at # "answer" /\ ~grip => "lease" \in req.against

\* From the lease to the answer to start, the job is leased.
NotStarted ==
    grip /\ \/ pos = "start" /\ ~(req.m = "start" /\ req.at = "answer")
            \/ req.m = "claim" /\ req.out = "lease"
      => work = "leased"

\* A request that was late from the start has not passed the gate.
LateStopped ==
    /\ req.late => drain
    /\ req.late /\ req.m = "claim" => req.at # "queue" /\ req.out # "lease"

GateInv == GateShape /\ AtCall /\ Noted /\ NotStarted /\ LateStopped /\ HeldLeaseHeard

LEMMA ScopeOf ==
    /\ Scope["claim"] = "jobs:claim" /\ Scope["report"] = "instances:report"
    /\ \A m \in LeaseCalls : Scope[m] \in AllScopes \ {"jobs:claim"}
  BY DEF Scope, LeaseCalls, AllScopes

\* Each exception survives the way over the wire.
LEMMA WireFaithful == \A out \in Outcome : _raise_for_status(Wire(out)) = out
  <1>. SUFFICES ASSUME NEW out \in Outcome PROVE _raise_for_status(Wire(out)) = out
    OBVIOUS
  <1>1. CASE out = "WorkerAuthenticationError"
    <2>1. Wire(out) = <<401, "unauthorized">>
      BY <1>1 DEF Wire
    <2>. QED  BY <1>1, <2>1 DEF _raise_for_status
  <1>2. CASE out = "ScopeError"
    <2>1. Wire(out) = <<403, "forbidden">>
      BY <1>2 DEF Wire
    <2>. QED  BY <1>2, <2>1 DEF _raise_for_status
  <1>3. CASE out = "InstanceOwnershipError"
    <2>1. Wire(out) = <<403, "forbidden_ownership">>
      BY <1>3 DEF Wire
    <2>. QED  BY <1>3, <2>1 DEF _raise_for_status
  <1>4. CASE out = "WorkerDrainingError"
    <2>1. Wire(out) = <<409, "worker_draining">>
      BY <1>4 DEF Wire
    <2>. QED  BY <1>4, <2>1 DEF _raise_for_status
  <1>5. CASE out = "WorkerStaleError"
    <2>1. Wire(out) = <<409, "worker_stale">>
      BY <1>5 DEF Wire
    <2>. QED  BY <1>5, <2>1 DEF _raise_for_status
  <1>6. CASE out = "LookupError"
    <2>1. Wire(out) = <<404, "not_found">>
      BY <1>6 DEF Wire
    <2>. QED  BY <1>6, <2>1 DEF _raise_for_status
  <1>7. CASE out = "no job"
    <2>1. Wire(out) = <<204, out>>
      BY <1>7 DEF Wire
    <2>. QED  BY <2>1 DEF _raise_for_status
  <1>8. CASE out \in {"ok", "lease"}
    <2>1. Wire(out) = <<200, out>>
      BY <1>8 DEF Wire
    <2>. QED  BY <2>1 DEF _raise_for_status
  <1>. QED  BY <1>1, <1>2, <1>3, <1>4, <1>5, <1>6, <1>7, <1>8 DEF Outcome

LEMMA GateStart == GateInit => GateInv
  <1>. SUFFICES ASSUME GateInit PROVE GateInv
    OBVIOUS
  <1>. USE DEF GateInit, NoReq
  <1>a. transport \in {"http", "local"} /\ AllScopes \ {"jobs:claim"} \subseteq scopes
    BY GateAssumption
  <1>b. trusted \in BOOLEAN /\ drain \in BOOLEAN /\ grip \in BOOLEAN
    OBVIOUS
  <1>c. req \in Request
    BY DEF Request
  <1>d. req.at = "answer" <=> req.out # "none"
    OBVIOUS
  <1>1. GateShape
    BY <1>a, <1>b, <1>c, <1>d DEF GateShape
  <1>2. AtCall /\ Noted
    BY DEF AtCall, Noted
  <1>3. NotStarted
    BY DEF NotStarted
  <1>4. LateStopped /\ HeldLeaseHeard
    BY DEF LateStopped, HeldLeaseHeard
  <1>. QED  BY <1>1, <1>2, <1>3, <1>4 DEF GateInv

\* The request comes to the same end through either client.
LEMMA GateSame == GateInv => SameException
  <1>. SUFFICES ASSUME GateInv, req.at = "answer" PROVE Received = req.out
    BY DEF SameException
  <1>1. req.out \in Outcome
    BY DEF GateInv, GateShape, Request
  <1>. QED  BY <1>1, WireFaithful DEF Received

\* The request in progress moves on.
LEMMA RequestMoves ==
    ASSUME GateShape, req' \in Request, req'.m \in GateCall, req'.at # "idle",
           req'.at = "answer" <=> req'.out # "none",
           UNCHANGED <<transport, scopes>>, trusted' \in BOOLEAN, drain' \in BOOLEAN, grip' \in BOOLEAN
    PROVE  GateShape' /\ req' # NoReq
  <1>1. req' # NoReq
    BY DEF NoReq
  <1>. QED  BY <1>1 DEF GateShape

LEMMA EndsMoves ==
    ASSUME GateShape, req # NoReq, NEW out \in Outcome, Ends(out), Control, grip' \in BOOLEAN
    PROVE  /\ GateShape' /\ req' # NoReq
           /\ req'.m = req.m /\ req'.at = "answer" /\ req'.out = out
           /\ req'.late = req.late /\ req'.against = req.against
  <1>1. /\ req'.m = req.m /\ req'.at = "answer" /\ req'.out = out
        /\ req'.late = req.late /\ req'.against = req.against /\ req' \in Request
    BY DEF Ends, GateShape, Request
  <1>2. out # "none" /\ req'.m \in GateCall
    BY <1>1 DEF GateShape, Outcome
  <1>3. UNCHANGED <<transport, scopes>> /\ trusted' \in BOOLEAN /\ drain' \in BOOLEAN
    BY DEF Control, GateShape
  <1>. QED  BY <1>1, <1>2, <1>3, RequestMoves

LEMMA GoesMoves ==
    ASSUME GateShape, req # NoReq, req.at # "answer", NEW ps \in {"service", "queue"}, Goes(ps), Control, UNCHANGED grip
    PROVE  /\ GateShape' /\ req' # NoReq
           /\ req'.m = req.m /\ req'.at = ps /\ req'.out = "none"
           /\ req'.late = req.late /\ req'.against = req.against
  <1>1. /\ req'.m = req.m /\ req'.at = ps /\ req'.out = "none"
        /\ req'.late = req.late /\ req'.against = req.against /\ req' \in Request
    BY DEF Goes, GateShape, Request
  <1>2. req'.m \in GateCall
    BY <1>1 DEF GateShape
  <1>3. UNCHANGED <<transport, scopes>> /\ trusted' \in BOOLEAN /\ drain' \in BOOLEAN /\ grip' \in BOOLEAN
    BY DEF Control, GateShape
  <1>. QED  BY <1>1, <1>2, <1>3, RequestMoves

\* Something is noted against the request, if there is one.
LEMMA NoteMoves ==
    ASSUME GateShape, NEW what \in {"credential", "lease"}, req' = Note(what),
           UNCHANGED <<transport, scopes>>, trusted' \in BOOLEAN, drain' \in BOOLEAN, grip' \in BOOLEAN
    PROVE  /\ GateShape' /\ (req' = NoReq <=> req = NoReq)
           /\ req'.m = req.m /\ req'.at = req.at /\ req'.out = req.out /\ req'.late = req.late
           /\ req # NoReq => req'.against = req.against \cup {what}
  <1>1. CASE req = NoReq
    <2>1. req' = req
      BY <1>1 DEF Note
    <2>. QED  BY <1>1, <2>1 DEF GateShape
  <1>2. CASE req # NoReq
    <2>1. /\ req'.m = req.m /\ req'.at = req.at /\ req'.out = req.out
          /\ req'.late = req.late /\ req'.against = req.against \cup {what} /\ req' \in Request
      BY <1>2 DEF Note, GateShape, Request
    <2>2. req'.m \in GateCall /\ req'.at # "idle" /\ (req'.at = "answer" <=> req'.out # "none")
      BY <1>2, <2>1 DEF GateShape
    <2>. QED  BY <1>2, <2>1, <2>2, RequestMoves
  <1>. QED  BY <1>1, <1>2

\* No request is in progress.
LEMMA GateShapeIdle ==
    ASSUME GateShape, req' = NoReq, UNCHANGED <<transport, scopes>>,
           trusted' \in BOOLEAN, drain' \in BOOLEAN, grip' \in BOOLEAN
    PROVE  GateShape'
  <1>1. NoReq \in Request /\ NoReq.at = "idle" /\ NoReq.out = "none"
    BY DEF NoReq, Request
  <1>. QED  BY <1>1 DEF GateShape

LEMMA GateStep == GateInv /\ [GateNext]_gateVars => GateInv'
  <1>. SUFFICES ASSUME GateInv, [GateNext]_gateVars PROVE GateInv'
    OBVIOUS
  <1>0. GateShape /\ AtCall /\ Noted /\ NotStarted /\ LateStopped /\ HeldLeaseHeard
    BY DEF GateInv
  <1>i. NoReq.m = "none" /\ NoReq.at = "idle" /\ NoReq.out = "none" /\ NoReq.late = FALSE /\ NoReq.against = {}
    BY DEF NoReq
  <1>. SUFFICES GateShape' /\ AtCall' /\ Noted' /\ NotStarted' /\ LateStopped' /\ HeldLeaseHeard'
    BY DEF GateInv
  <1>. USE DEF AtCall, Noted, NotStarted, LateStopped, HeldLeaseHeard
  <1>e. ASSUME NEW out \in Outcome, Ends(out), Control, req # NoReq, grip' \in BOOLEAN,
               req.m \in LeaseCalls =>
                 \/ out = "ok"
                 \/ out = "WorkerAuthenticationError" /\ ~trusted
                 \/ out = "LookupError" /\ "lease" \in req.against,
               out = "lease" => req.m = "claim" /\ ~req.late /\ work' = "leased",
               grip' => (grip /\ work' = work) \/ out = "lease" \/ req.m \in {"start", "heartbeat"},
               req.m = "heartbeat" => work' = work /\ grip' = grip
        PROVE  GateShape' /\ AtCall' /\ Noted' /\ NotStarted' /\ LateStopped' /\ HeldLeaseHeard'
    <2>1. /\ GateShape' /\ req' # NoReq
          /\ req'.m = req.m /\ req'.at = "answer" /\ req'.out = out
          /\ req'.late = req.late /\ req'.against = req.against
      BY <1>0, <1>e, EndsMoves
    <2>2. UNCHANGED <<trusted, pos, drain>>
      BY <1>e DEF Control
    <2>3. AtCall'
      BY <1>0, <1>e, <2>1, <2>2
    <2>6. Noted'
      BY <1>0, <1>e, <2>1, <2>2
    <2>4. NotStarted'
      <3>1. pos = req.m \/ (req.m = "report" /\ pos = "dispatch")
        BY <1>0, <1>e
      <3>. QED  BY <1>0, <1>e, <2>1, <2>2, <3>1 DEF LeaseCalls
    <2>5. LateStopped' /\ HeldLeaseHeard'
      BY <1>0, <1>e, <2>1, <2>2
    <2>. QED  BY <2>1, <2>3, <2>4, <2>5, <2>6
  <1>g. ASSUME NEW ps \in {"service", "queue"}, Goes(ps), Control, UNCHANGED <<work, grip>>,
               req # NoReq, req.at # "answer",
               ps = "queue" => ~(req.late /\ req.m = "claim")
        PROVE  GateShape' /\ AtCall' /\ Noted' /\ NotStarted' /\ LateStopped' /\ HeldLeaseHeard'
    <2>1. /\ GateShape' /\ req' # NoReq
          /\ req'.m = req.m /\ req'.at = ps /\ req'.out = "none"
          /\ req'.late = req.late /\ req'.against = req.against
      BY <1>0, <1>g, GoesMoves
    <2>2. UNCHANGED <<trusted, pos, drain>>
      BY <1>g DEF Control
    <2>. QED  BY <1>0, <1>g, <2>1, <2>2
  <1>1. ASSUME NEW m \in GateCall, Send(m)
        PROVE  GateShape' /\ AtCall' /\ Noted' /\ NotStarted' /\ LateStopped' /\ HeldLeaseHeard'
    <2>. DEFINE bad == {x \in {"credential", "lease"} : IF x = "lease" THEN ~grip ELSE ~trusted}
                first == IF transport = "http" THEN "gateway" ELSE "service"
    <2>1. /\ req' = [m |-> m, at |-> first, out |-> "none", late |-> drain, against |-> bad]
          /\ req = NoReq /\ (pos = m \/ (m = "report" /\ pos = "dispatch"))
          /\ UNCHANGED <<transport, trusted, scopes, drain, work, grip, pos>>
      BY <1>1 DEF Send
    <2>2. /\ bad \in SUBSET {"credential", "lease"} /\ first \in {"gateway", "service"}
          /\ (~trusted => "credential" \in bad) /\ (~grip => "lease" \in bad)
      OBVIOUS
    <2>. HIDE DEF bad, first
    <2>3. req'.m = m /\ req'.at = first /\ req'.out = "none" /\ req'.late = drain /\ req'.against = bad
      BY <2>1
    <2>4. req' \in Request
      BY <2>1, <2>2, <1>0 DEF GateShape, Request
    <2>5. GateShape'
      BY <1>0, <2>1, <2>2, <2>3, <2>4 DEF GateShape
    <2>6. AtCall' /\ Noted'
      BY <2>1, <2>2, <2>3
    <2>7. NotStarted'
      BY <1>0, <1>i, <2>1, <2>3
    <2>8. LateStopped' /\ HeldLeaseHeard'
      BY <2>1, <2>2, <2>3
    <2>. QED  BY <2>5, <2>6, <2>7, <2>8
  <1>2. CASE require_worker
    <2>1. req # NoReq /\ req.at # "answer" /\ Control /\ UNCHANGED <<work, grip>> /\ grip' \in BOOLEAN
      BY <1>0, <1>2, <1>i DEF require_worker, GateShape
    <2>2. CASE ~trusted /\ Ends("WorkerAuthenticationError")
      BY <2>1, <2>2, <1>e DEF Outcome
    <2>3. CASE req.m = "authenticate" /\ Ends("ok")
      BY <2>1, <2>3, <1>e DEF Outcome
    <2>4. CASE Goes("service")
      BY <2>1, <2>4, <1>g
    <2>. QED  BY <1>2, <2>2, <2>3, <2>4 DEF require_worker
  <1>3. CASE LocalAuthenticate
    <2>1. /\ req # NoReq /\ Control /\ UNCHANGED <<work, grip>> /\ grip' \in BOOLEAN
          /\ req.m = "authenticate" /\ Ends("ok")
      BY <1>0, <1>3, <1>i DEF LocalAuthenticate, GateShape
    <2>. QED  BY <2>1, <1>e DEF Outcome
  <1>4. CASE _authorize
    <2>1. /\ req # NoReq /\ req.at # "answer" /\ Control /\ UNCHANGED <<work, grip>> /\ grip' \in BOOLEAN
          /\ req.m \in LeaseCalls \cup {"claim"} /\ "claim" \notin LeaseCalls
      BY <1>0, <1>4, <1>i DEF _authorize, GateShape, LeaseCalls
    <2>2. CASE ~trusted /\ Ends("WorkerAuthenticationError")
      BY <2>1, <2>2, <1>e DEF Outcome
    <2>3. CASE Scope[req.m] \notin scopes /\ Ends("ScopeError")
      <3>1. req.m \notin LeaseCalls
        BY <1>0, <2>3, ScopeOf DEF GateShape
      <3>. QED  BY <2>1, <2>3, <3>1, <1>e DEF Outcome
    <2>4. CASE forbid_drain(req.m) /\ Ends("WorkerDrainingError")
      <3>1. req.m \notin LeaseCalls
        BY <2>1, <2>4 DEF forbid_drain
      <3>. QED  BY <2>1, <2>4, <3>1, <1>e DEF Outcome
    <2>5. CASE check_liveness(req.m) /\ Ends("WorkerStaleError")
      <3>1. req.m \notin LeaseCalls
        BY <2>1, <2>5 DEF check_liveness
      <3>. QED  BY <2>1, <2>5, <3>1, <1>e DEF Outcome
    <2>6. CASE ~(forbid_drain(req.m) /\ drain) /\ Goes("queue")
      <3>1. ~(req.late /\ req.m = "claim")
        BY <1>0, <2>6 DEF forbid_drain
      <3>. QED  BY <2>1, <2>6, <3>1, <1>g
    <2>. QED  BY <1>4, <2>2, <2>3, <2>4, <2>5, <2>6 DEF _authorize
  <1>5. CASE _authorize_owner
    <2>1. /\ req # NoReq /\ Control /\ UNCHANGED <<work, grip>> /\ grip' \in BOOLEAN
          /\ req.m = "report" /\ "report" \notin LeaseCalls
      BY <1>0, <1>5, <1>i DEF _authorize_owner, GateShape, LeaseCalls
    <2>2. PICK out \in {"WorkerAuthenticationError", "ScopeError", "ok", "LookupError", "InstanceOwnershipError"} :
            Ends(out)
      BY <1>5 DEF _authorize_owner
    <2>3. out \in Outcome /\ out # "lease"
      BY DEF Outcome
    <2>. QED  BY <2>1, <2>2, <2>3, <1>e
  <1>6. CASE claim
    <2>1. /\ req # NoReq /\ Control /\ grip' \in BOOLEAN /\ req.m = "claim" /\ "claim" \notin LeaseCalls
          /\ ~req.late
      BY <1>0, <1>6, <1>i DEF claim, GateShape, LeaseCalls
    <2>2. CASE work' = "leased" /\ grip' = TRUE /\ Ends("lease")
      BY <2>1, <2>2, <1>e DEF Outcome
    <2>3. CASE Ends("no job") /\ UNCHANGED <<work, grip>>
      BY <2>1, <2>3, <1>e DEF Outcome
    <2>. QED  BY <1>6, <2>2, <2>3 DEF claim
  <1>7. CASE LeaseCall
    <2>1. req # NoReq /\ Control /\ req.m \in LeaseCalls /\ req.at = "queue"
      BY <1>0, <1>7, <1>i DEF LeaseCall
    <2>2. CASE Current /\ work' \in Effect(req.m) /\ grip' = (req.m \in {"start", "heartbeat"}) /\ Ends("ok")
      <3>1. req.m = "heartbeat" => work' = work /\ grip' = grip
        BY <1>0, <2>2 DEF Effect, Current, GateShape
      <3>2. grip' \in BOOLEAN
        BY <2>2
      <3>3. grip' => req.m \in {"start", "heartbeat"}
        BY <2>2
      <3>. QED  BY <2>1, <2>2, <3>1, <3>2, <3>3, <1>e DEF Outcome
    <2>3. CASE ~Current /\ Ends("LookupError") /\ UNCHANGED <<work, grip>>
      <3>1. pos = req.m
        BY <1>0, <2>1 DEF LeaseCalls
      <3>2. ~grip
        BY <1>0, <2>1, <2>3, <3>1 DEF Current
      <3>3. "lease" \in req.against /\ grip' \in BOOLEAN
        BY <1>0, <2>1, <2>3, <3>2 DEF GateShape
      <3>. QED  BY <2>1, <2>3, <3>3, <1>e DEF Outcome
    <2>. QED  BY <1>7, <2>2, <2>3 DEF LeaseCall
  <1>8. CASE Receive
    <2>1. Received = req.out
      BY <1>8, GateSame DEF SameException, Receive
    <2>2. pos' = "start" => req.m = "claim" /\ req.out = "lease"
      BY <1>8, <2>1 DEF Receive, After
    <2>3. /\ req' = NoReq /\ UNCHANGED <<transport, trusted, scopes, drain, work>>
          /\ grip' \in BOOLEAN /\ (grip' => grip)
      BY <1>8 DEF Receive
    <2>4. trusted' \in BOOLEAN /\ drain' \in BOOLEAN
      BY <1>0, <2>3 DEF GateShape
    <2>. QED  BY <1>0, <1>i, <2>2, <2>3, <2>4, GateShapeIdle
  <1>9. CASE LoseReply
    <2>1. /\ req' = NoReq /\ UNCHANGED <<transport, trusted, scopes, drain>> /\ ~grip' /\ grip' \in BOOLEAN
      BY <1>9 DEF LoseReply
    <2>2. trusted' \in BOOLEAN /\ drain' \in BOOLEAN
      BY <1>0, <2>1 DEF GateShape
    <2>. QED  BY <1>0, <1>i, <2>1, <2>2, GateShapeIdle
  <1>10. CASE Dispatch
    <2>1. /\ req' = NoReq /\ UNCHANGED <<transport, trusted, scopes, drain, work, grip>> /\ pos' # "start"
      BY <1>10 DEF Dispatch
    <2>2. trusted' \in BOOLEAN /\ drain' \in BOOLEAN /\ grip' \in BOOLEAN
      BY <1>0, <2>1 DEF GateShape
    <2>. QED  BY <1>0, <1>i, <2>1, <2>2, GateShapeIdle
  <1>11. CASE Trust(TRUE)
    <2>1. UNCHANGED <<transport, scopes, drain, work, grip, pos, req>> /\ trusted' = TRUE
      BY <1>11 DEF Trust
    <2>2. GateShape'
      BY <1>0, <2>1 DEF GateShape
    <2>. QED  BY <1>0, <2>1, <2>2
  <1>12. CASE Trust(FALSE)
    <2>1. UNCHANGED <<transport, scopes, drain, work, grip, pos>> /\ trusted' = FALSE /\ req' = Note("credential")
      BY <1>12 DEF Trust
    <2>2. drain' \in BOOLEAN /\ grip' \in BOOLEAN
      BY <1>0, <2>1 DEF GateShape
    <2>3. /\ GateShape' /\ (req' = NoReq <=> req = NoReq)
          /\ req'.m = req.m /\ req'.at = req.at /\ req'.out = req.out /\ req'.late = req.late
          /\ req # NoReq => req'.against = req.against \cup {"credential"}
      BY <1>0, <2>1, <2>2, NoteMoves
    <2>4. HeldLeaseHeard'
      BY <1>0, <1>i, <2>1, <2>3
    <2>. QED  BY <1>0, <1>i, <2>1, <2>3, <2>4
  <1>13. CASE Drain
    <2>1. UNCHANGED <<transport, scopes, trusted, work, grip, pos, req>> /\ drain' = TRUE
      BY <1>13 DEF Drain
    <2>2. GateShape'
      BY <1>0, <2>1 DEF GateShape
    <2>. QED  BY <1>0, <2>1, <2>2
  <1>14. CASE Resume
    <2>1. UNCHANGED <<transport, scopes, trusted, work, grip, pos>> /\ drain' = FALSE /\ req' = [req EXCEPT !.late = FALSE]
      BY <1>14 DEF Resume
    <2>2. CASE req = NoReq
      <3>1. req' = NoReq
        BY <2>1, <2>2 DEF NoReq
      <3>2. trusted' \in BOOLEAN /\ drain' \in BOOLEAN /\ grip' \in BOOLEAN
        BY <1>0, <2>1 DEF GateShape
      <3>. QED  BY <1>0, <1>i, <2>1, <2>2, <3>1, <3>2, GateShapeIdle
    <2>3. CASE req # NoReq
      <3>1. /\ req'.m = req.m /\ req'.at = req.at /\ req'.out = req.out
            /\ req'.late = FALSE /\ req'.against = req.against /\ req' \in Request
        BY <1>0, <2>1, <2>3 DEF GateShape, Request
      <3>3. /\ req'.m \in GateCall /\ req'.at # "idle" /\ (req'.at = "answer" <=> req'.out # "none")
            /\ trusted' \in BOOLEAN /\ drain' \in BOOLEAN /\ grip' \in BOOLEAN
        BY <1>0, <2>1, <2>3, <3>1 DEF GateShape
      <3>2. GateShape' /\ req' # NoReq
        BY <1>0, <2>1, <3>1, <3>3, RequestMoves
      <3>. QED  BY <1>0, <2>1, <2>3, <3>1, <3>2
    <2>. QED  BY <2>2, <2>3
  <1>15. CASE PingAuthorized \/ PingWritten \/ Tick \/ UNCHANGED gateVars
    <2>1. UNCHANGED <<transport, scopes, trusted, drain, work, grip, pos, req>>
      BY <1>15 DEF PingAuthorized, PingWritten, Tick, gateVars
    <2>2. GateShape'
      BY <1>0, <2>1 DEF GateShape
    <2>. QED  BY <1>0, <2>1, <2>2
  <1>16. CASE Reap
    <2>1. UNCHANGED <<transport, scopes, trusted, drain, pos>> /\ grip' = FALSE /\ req' = Note("lease")
      BY <1>16 DEF Reap
    <2>2. trusted' \in BOOLEAN /\ drain' \in BOOLEAN /\ grip' \in BOOLEAN
      BY <1>0, <2>1 DEF GateShape
    <2>3. /\ GateShape' /\ (req' = NoReq <=> req = NoReq)
          /\ req'.m = req.m /\ req'.at = req.at /\ req'.out = req.out /\ req'.late = req.late
          /\ req # NoReq => req'.against = req.against \cup {"lease"}
      BY <1>0, <2>1, <2>2, NoteMoves
    <2>4. HeldLeaseHeard'
      BY <1>0, <1>i, <2>1, <2>3
    <2>. QED  BY <1>0, <1>i, <2>1, <2>3, <2>4
  <1>. QED  BY <1>1, <1>2, <1>3, <1>4, <1>5, <1>6, <1>7, <1>8, <1>9, <1>10, <1>11, <1>12, <1>13, <1>14, <1>15,
               <1>16
            DEF GateNext, GateCall

\* A worker may rely on the gate, whatever changes between the checks of a
\* call: a claim that met the drain flag gets no lease, a report on a held
\* lease is refused only for its credential or the loss of the lease, and both
\* clients raise the same exception.
THEOREM GateSafeHolds == GateSpec => []GateSafe
  <1>1. GateInv => GateSafe
    BY GateSame DEF GateInv, LateStopped, GateSafe, DrainHeeded
  <1>. QED  BY <1>1, GateStart, GateStep, PTL DEF GateSpec
=============================================================================
