----------------------------- MODULE QuotaLocks -----------------------------
(***************************************************************************)
(* The transactions of the quota ledger, one row lock at a time.           *)
(* PostgreSQL at READ COMMITTED: a row lock (SELECT ... FOR UPDATE, or the *)
(* insertion of a unique key) is held to the end of the transaction, a     *)
(* statement sees what is committed when it starts, and what a transaction *)
(* writes is seen by others when it commits.  The variables of QuotaLedger *)
(* are the committed rows.                                                 *)
(***************************************************************************)
EXTENDS QuotaLedger

CONSTANTS
    Tx,     \* transactions that may be open at once
    Order   \* Order[q]: the place of q by (scope_type, scope_key, dimension)

\* Two counters differ in one of the three; the scope type "worker" sorts after
\* the other four.
ASSUME OrderAssumption ==
    /\ IsFiniteSet(Quota) /\ Order \in [Quota -> 1..Cardinality(Quota)]
    /\ \A q, x \in Quota : Order[q] = Order[x] => q = x
    /\ \A q \in Pool, w \in Worker : Order[q] < Order[w]
    /\ None \notin Tx \cup Res \cup Pool /\ Res \cap Quota = {}

VARIABLES
    owner,  \* owner[x]: the transaction that holds the row lock of x
    op,     \* op[t]: the ledger call of transaction t, "none" when not open
    res,    \* res[t]: its reservation
    wrk,    \* wrk[t]: the worker of a reserve
    step,   \* step[t]: the statement it is at
    todo,   \* todo[t]: the counters it has yet to lock
    new     \* new[t][q]: what it has written to counter q

txVars   == <<op, res, wrk, step, todo, new>>
lockVars == <<ledgerVars, owner, txVars>>

Row == Res \cup Quota
NotWritten == -1
NothingWritten == [q \in Quota |-> NotWritten]

-----------------------------------------------------------------------------

\* The items of a reservation r on worker w.
Items(r, w) == {q \in Quota : Amount(r, w, q) > 0}

\* Mutant: the stored items come back in another order.
NextLockUnordered(t) == IF op[t] \in {"release", "reactivate"}
                        THEN {q \in todo[t] : \A x \in todo[t] : Order[x] <= Order[q]}
                        ELSE {q \in todo[t] : \A x \in todo[t] : Order[q] <= Order[x]}

\* sorted_items, and the ORDER BY of _items_for and of reconcile_counters: the
\* counter to be locked next, if any.
NextLock(t) == {q \in todo[t] : \A x \in todo[t] : Order[q] <= Order[x]}

Close(t) == /\ op' = [op EXCEPT ![t] = "none"]
            /\ res' = [res EXCEPT ![t] = None]
            /\ wrk' = [wrk EXCEPT ![t] = None]
            /\ step' = [step EXCEPT ![t] = "closed"]
            /\ todo' = [todo EXCEPT ![t] = {}]
            /\ new' = [new EXCEPT ![t] = NothingWritten]
            /\ owner' = [x \in Row |-> IF owner[x] = t THEN None ELSE owner[x]]

\* An exception, a return without a write, or a lost connection: the
\* transaction ends and leaves no trace.
Rollback(t) == Close(t) /\ UNCHANGED ledgerVars

\* A transaction opens with the call f on reservation r.
Open(t, f, r, w, first) ==
    /\ op[t] = "none"
    /\ op' = [op EXCEPT ![t] = f]
    /\ res' = [res EXCEPT ![t] = r]
    /\ wrk' = [wrk EXCEPT ![t] = w]
    /\ step' = [step EXCEPT ![t] = first]
    /\ UNCHANGED <<ledgerVars, owner, new>>

BeginReserve(t, r, w) == Open(t, "reserve", r, w, "seed") /\ UNCHANGED todo
BeginReactivate(t, r) == Open(t, "reactivate", r, None, "header") /\ UNCHANGED todo
BeginRelease(t, r)    == Open(t, "release", r, None, "header") /\ UNCHANGED todo

\* upsert_limit: with a committed row nothing happens and nothing is locked;
\* otherwise the row is inserted, after any other transaction that has done
\* so without being committed.
SeedWorker(t) ==
    LET w == wrk[t] IN
    /\ step[t] = "seed"
    /\ \/ /\ limit[w] # NoRow
          /\ UNCHANGED owner
       \/ /\ limit[w] = NoRow
          /\ owner[w] = None
          /\ owner' = [owner EXCEPT ![w] = t]
    /\ step' = [step EXCEPT ![t] = "insert"]
    /\ UNCHANGED <<ledgerVars, op, res, wrk, todo, new>>

\* reserve inserts the header: a committed one is an IntegrityError at once,
\* an uncommitted one is waited for.  Then the ceilings, which lock nothing.
InsertHeader(t) ==
    LET r == res[t] IN
    /\ step[t] = "insert"
    /\ \/ /\ hold[r] = "none"
          /\ owner[r] = None
          /\ r \notin OverCeiling
          /\ owner' = [owner EXCEPT ![r] = t]
          /\ step' = [step EXCEPT ![t] = "count"]
          /\ todo' = [todo EXCEPT ![t] = Items(r, wrk[t])]
          /\ UNCHANGED <<ledgerVars, op, res, wrk, new>>
       \/ /\ hold[r] # "none" \/ (owner[r] = None /\ r \in OverCeiling)
          /\ Rollback(t)

\* reactivate and release select the header FOR UPDATE.  They return when it
\* is not there, or not in the state they are for.
LockHeader(t) ==
    LET r == res[t]
        from == IF op[t] = "release" THEN "held" ELSE "released"
    IN
    /\ step[t] = "header"
    /\ \/ /\ hold[r] = from
          /\ owner[r] = None
          /\ owner' = [owner EXCEPT ![r] = t]
          /\ step' = [step EXCEPT ![t] = "count"]
          /\ todo' = [todo EXCEPT ![t] = Items(r, place[r])]
          /\ UNCHANGED <<ledgerVars, op, res, wrk, new>>
       \/ /\ hold[r] = "none" \/ (owner[r] = None /\ hold[r] # from)
          /\ Rollback(t)

\* The limit transaction t sees: its own insertion included.
SeenLimit(t) == IF op[t] = "reserve" THEN Seeded(wrk[t]) ELSE limit

\* The worker of the items t works on.
Site(t) == IF op[t] = "reserve" THEN wrk[t] ELSE place[res[t]]

Write(t, q, n) == new' = [new EXCEPT ![t][q] = n]

\* What is left of counter q without the item of t.
Left(t, q) == LET left == used[q] - Amount(res[t], Site(t), q)
              IN  IF left > 0 THEN left ELSE 0

\* The loop of _hold_items and of release: lock the next counter, then read
\* and write it.
LockCounter(t) ==
    /\ step[t] = "count" /\ op[t] # "reconcile"
    /\ \E q \in NextLock(t) :
         /\ owner[q] \in {None, t}
         /\ \/ /\ op[t] = "release" \/ Fits(res[t], Site(t), q, SeenLimit(t))
               /\ owner' = [owner EXCEPT ![q] = t]
               /\ todo' = [todo EXCEPT ![t] = @ \ {q}]
               /\ Write(t, q, IF op[t] = "release" THEN Left(t, q)
                              ELSE used[q] + Amount(res[t], Site(t), q))
               /\ UNCHANGED <<ledgerVars, op, res, wrk, step>>
            \/ /\ op[t] # "release" /\ ~ Fits(res[t], Site(t), q, SeenLimit(t))
               /\ Rollback(t)

\* reconcile_counters locks every row there is, in order ...
BeginReconcile(t) ==
    /\ Open(t, "reconcile", None, None, "lock")
    /\ todo' = [todo EXCEPT ![t] = {q \in Quota : limit[q] # NoRow}]

\* Mutant: the rows are read without FOR UPDATE.
LockRowPlainRead(t) ==
    /\ step[t] = "lock"
    /\ \E q \in NextLock(t) :
         /\ todo' = [todo EXCEPT ![t] = @ \ {q}]
         /\ Write(t, q, used[q])
    /\ UNCHANGED <<ledgerVars, owner, op, res, wrk, step>>

LockRow(t) ==
    /\ step[t] = "lock"
    /\ \E q \in NextLock(t) :
         /\ owner[q] = None
         /\ owner' = [owner EXCEPT ![q] = t]
         /\ todo' = [todo EXCEPT ![t] = @ \ {q}]
         /\ Write(t, q, used[q])
    /\ UNCHANGED <<ledgerVars, op, res, wrk, step>>

\* ... and only then sums the held items, in one statement.
SumHeld(t) ==
    /\ step[t] = "lock" /\ todo[t] = {}
    /\ step' = [step EXCEPT ![t] = "count"]
    /\ new' = [new EXCEPT ![t] = [q \in Quota |-> IF new[t][q] = NotWritten THEN NotWritten
                                               ELSE Cardinality(HeldUnits(q))]]
    /\ UNCHANGED <<ledgerVars, owner, op, res, wrk, todo>>

Commit(t) ==
    LET r == res[t] IN
    /\ step[t] = "count" /\ todo[t] = {}
    /\ used' = [q \in Quota |-> IF new[t][q] = NotWritten THEN used[q] ELSE new[t][q]]
    /\ hold' = CASE op[t] = "release"   -> [hold EXCEPT ![r] = "released"]
                 [] op[t] = "reconcile" -> hold
                 [] OTHER               -> [hold EXCEPT ![r] = "held"]
    /\ place' = IF op[t] = "reserve" THEN [place EXCEPT ![r] = wrk[t]] ELSE place
    /\ limit' = SeenLimit(t)
    /\ Close(t)
    /\ UNCHANGED lapsed

\* The connection is lost before the commit.
Abort(t) == op[t] # "none" /\ Rollback(t)

-----------------------------------------------------------------------------

LocksInit == /\ LedgerInit
             /\ owner = [x \in Row |-> None]
             /\ op = [t \in Tx |-> "none"]
             /\ res = [t \in Tx |-> None]
             /\ wrk = [t \in Tx |-> None]
             /\ step = [t \in Tx |-> "closed"]
             /\ todo = [t \in Tx |-> {}]
             /\ new = [t \in Tx |-> NothingWritten]

TxStep(t) == \/ SeedWorker(t) \/ InsertHeader(t) \/ LockHeader(t) \/ LockCounter(t)
             \/ LockRow(t) \/ SumHeld(t) \/ Commit(t) \/ Abort(t)

LocksNext == \E t \in Tx :
                \/ \E r \in Res : \/ \E w \in Worker : BeginReserve(t, r, w)
                                  \/ BeginReactivate(t, r)
                                  \/ BeginRelease(t, r)
                \/ BeginReconcile(t)
                \/ TxStep(t)

LocksSpec == LocksInit /\ [][LocksNext]_lockVars

-----------------------------------------------------------------------------
(* Properties. *)

\* The row t is about to lock, if another transaction can make it wait there.
Awaited(t) == CASE step[t] = "seed" /\ limit[wrk[t]] = NoRow       -> {wrk[t]}
                [] step[t] = "insert" /\ hold[res[t]] = "none"     -> {res[t]}
                [] step[t] = "header" /\ hold[res[t]] # "none"     -> {res[t]}
                [] step[t] \in {"count", "lock"}                   -> NextLock(t)
                [] OTHER                                           -> {}

WaitsFor(t, u) == t # u /\ \E x \in Awaited(t) : owner[x] = u

\* No set of transactions ever waits in a circle: the docstring of
\* sorted_items claims it of concurrent reserves; it holds of every mix of
\* reserve (with its insertion of the worker's row and of the header),
\* reactivate, release and reconcile_counters.
NoWaitCycle == \A S \in (SUBSET Tx) \ {{}} : \E t \in S : \A u \in S : ~ WaitsFor(t, u)

\* Locking rows one by one makes each call as good as atomic: the committed
\* rows behave as QuotaLedger says, so its theorems hold for them.
Atomic == LedgerSpec
=============================================================================
