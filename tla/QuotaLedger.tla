---------------------------- MODULE QuotaLedger ----------------------------
(***************************************************************************)
(* The quota ledger: SqlAlchemyQuotaLedger and the limit upsert of         *)
(* SqlAlchemyQuotaPolicyRepository, over resource_quotas,                  *)
(* quota_reservations and quota_reservation_items.                         *)
(* A reservation holds units of several shared pools (platform,            *)
(* competition, team, challenge) and of the one worker it is placed on.    *)
(*                                                                         *)
(* Every call is one transaction that locks the header and the counters it *)
(* changes before it reads them, so every call is one action here.  That   *)
(* the locking makes it so is what module QuotaLocks shows.  A transaction *)
(* that raises is rolled back and changes nothing.                         *)
(***************************************************************************)
EXTENDS Integers, FiniteSets

CONSTANTS
    Res,          \* reservation ids, which are instance ids
    Worker,       \* worker names
    Pool,         \* the shared (scope, key, dimension) counters
    None,         \* SQL NULL
    PoolUnits,    \* PoolUnits[r][p]: what r takes of pool p, 0 if no item
    WorkerUnits,  \* WorkerUnits[r]: worker_units of r
    PoolLimit,    \* PoolLimit[p]: the limit_value of p, or NoRow
    Capacity,     \* Capacity[w]: the capacity column of worker w
    OverCeiling   \* the reservations whose demand fails a scalar ceiling

\* The limit of a counter that has no resource_quotas row.
NoRow == -1

ASSUME QuotaAssumption ==
    /\ Worker \cap Pool = {}
    /\ None \notin Worker
    /\ PoolUnits \in [Res -> [Pool -> Nat]]
    /\ WorkerUnits \in [Res -> Nat \ {0}]
    /\ PoolLimit \in [Pool -> Nat \cup {NoRow}]
    /\ Capacity \in [Worker -> Nat]

VARIABLES
    hold,    \* hold[r]: "none" without a header, else its state
    place,   \* place[r]: worker_key of the header
    lapsed,  \* the reservations whose expires_at < now
    used,    \* used[q]: reserved_value of counter q
    limit    \* limit[q]: limit_value of counter q

ledgerVars == <<hold, place, lapsed, used, limit>>

Quota == Worker \cup Pool

-----------------------------------------------------------------------------

\* The amount of the item that a reservation r placed on w has on counter q.
Amount(r, w, q) == IF q \in Pool THEN PoolUnits[r][q]
                   ELSE IF q = w THEN WorkerUnits[r]
                   ELSE 0

\* upsert_limit: the row is inserted if there is none, and never overwritten.
Seeded(w) == IF limit[w] = NoRow THEN [limit EXCEPT ![w] = Capacity[w]] ELSE limit

\* Mutant: the pool is compared before the new units are added.
FitsOffByOne(r, w, q, lim) ==
    Amount(r, w, q) > 0 => /\ lim[q] # NoRow
                           /\ used[q] <= lim[q]

\* _hold_items admits the item of r on counter q: the row exists, and the
\* counter with the item stays within the limit.
Fits(r, w, q, lim) ==
    Amount(r, w, q) > 0 => /\ lim[q] # NoRow
                           /\ used[q] + Amount(r, w, q) <= lim[q]

\* _hold_items: every counter of r goes up by its item.
HoldItems(r, w) == used' = [q \in Quota |-> used[q] + Amount(r, w, q)]

-----------------------------------------------------------------------------

\* ensure_worker_capacity_quota
EnsureCapacity(w) ==
    /\ limit' = Seeded(w)
    /\ UNCHANGED <<hold, place, lapsed, used>>

\* reserve, after upsert_limit in the same transaction.  An existing header
\* makes it an IntegrityError, a counter over its limit a QuotaExceededError.
Reserve(r, w) ==
    /\ hold[r] = "none"
    /\ r \notin OverCeiling
    /\ \A q \in Quota : Fits(r, w, q, Seeded(w))
    /\ limit' = Seeded(w)
    /\ hold' = [hold EXCEPT ![r] = "held"]
    /\ place' = [place EXCEPT ![r] = w]
    /\ lapsed' = lapsed \ {r}
    /\ HoldItems(r, w)

\* reactivate of a released reservation: the same worker, the same items.
Reactivate(r) ==
    /\ hold[r] = "released"
    /\ \A q \in Quota : Fits(r, place[r], q, limit)
    /\ hold' = [hold EXCEPT ![r] = "held"]
    /\ lapsed' = lapsed \ {r}
    /\ HoldItems(r, place[r])
    /\ UNCHANGED <<place, limit>>

Renew(r) ==
    /\ hold[r] = "held"
    /\ lapsed' = lapsed \ {r}
    /\ UNCHANGED <<hold, place, used, limit>>

\* Mutant: release() does not look at the state of the header.
ReleaseAgain(r) ==
    /\ hold[r] # "none"
    /\ hold' = [hold EXCEPT ![r] = "released"]
    /\ used' = [q \in Quota |-> LET left == used[q] - Amount(r, place[r], q)
                                IN  IF left > 0 THEN left ELSE 0]
    /\ UNCHANGED <<place, lapsed, limit>>

Release(r) ==
    /\ hold[r] = "held"
    /\ hold' = [hold EXCEPT ![r] = "released"]
    /\ used' = [q \in Quota |-> LET left == used[q] - Amount(r, place[r], q)
                                IN  IF left > 0 THEN left ELSE 0]
    /\ UNCHANGED <<place, lapsed, limit>>

Held == {r \in Res : hold[r] = "held"}

\* One element for every unit of q that some reservation holds.
HeldUnits(q) == UNION {{r} \X (1 .. Amount(r, place[r], q)) : r \in Held}

\* reconcile_counters: the counters are computed anew from the held items.
ReconcileCounters ==
    /\ used' = [q \in Quota |-> IF limit[q] = NoRow THEN used[q] ELSE Cardinality(HeldUnits(q))]
    /\ UNCHANGED <<hold, place, lapsed, limit>>

\* Time passes the expires_at of a reservation.
Lapse(r) ==
    /\ hold[r] # "none"
    /\ lapsed' = lapsed \cup {r}
    /\ UNCHANGED <<hold, place, used, limit>>

LedgerInit == /\ hold = [r \in Res |-> "none"]
              /\ place = [r \in Res |-> None]
              /\ lapsed = {}
              /\ used = [q \in Quota |-> 0]
              /\ limit = [q \in Quota |-> IF q \in Pool THEN PoolLimit[q] ELSE NoRow]

LedgerNext == \/ \E w \in Worker : EnsureCapacity(w)
              \/ \E r \in Res : \/ \E w \in Worker : Reserve(r, w)
                                \/ Reactivate(r)
                                \/ Renew(r)
                                \/ Release(r)
                                \/ Lapse(r)
              \/ ReconcileCounters

LedgerSpec == LedgerInit /\ [][LedgerNext]_ledgerVars

-----------------------------------------------------------------------------
(* Properties. *)

\* Every variable has its type, and a placed reservation has a worker.
LedgerTypeOK == /\ hold \in [Res -> {"none", "held", "released"}]
                /\ place \in [Res -> Worker \cup {None}]
                /\ lapsed \subseteq Res
                /\ used \in [Quota -> Nat]
                /\ limit \in [Quota -> Nat \cup {NoRow}]
                /\ \A r \in Res : hold[r] = "none" <=> place[r] = None

\* The denormalised reserved_value counters never drift from the items of
\* the held reservations, over any sequence of reserve, release (also twice,
\* also by the sweep) and reactivate; in particular max(.., 0) in release()
\* never hides a unit, and reconcile_counters finds nothing to repair.
Conserved == \A q \in Quota : used[q] = Cardinality(HeldUnits(q))

\* No pool and no worker is ever promised beyond its limit, and units are
\* only ever taken of counters that exist.
NoOvercommit == \A q \in Quota : IF limit[q] = NoRow THEN used[q] = 0
                                                     ELSE used[q] <= limit[q]
============================================================================
