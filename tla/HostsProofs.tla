---------------------------- MODULE HostsProofs ----------------------------
(* Theorems about what MCHosts composes.  QuotaLocks: transactions that take *)
(* their row locks one by one are as good as atomic, so the theorems about   *)
(* QuotaLedger hold of the committed rows, and they never wait in a circle.  *)
(* Docker: workers that share a host leave each other's containers alone, a  *)
(* stack is there as a whole or not at all, and no firewall rule leaks; for  *)
(* every number of transactions, workers, instances and services.            *)
EXTENDS QuotaLocks, Docker, QuotaLedgerProofs, WellFoundedInduction


-----------------------------------------------------------------------------
(* What the locks guarantee. *)

Call == {"none", "reserve", "reactivate", "release", "reconcile"}

\* The counters transaction t has written.
Written(t) == {q \in Quota : new[t][q] # NotWritten}

\* The transaction has taken its header and is at its counters.
Counting(t) == step[t] = "count" /\ op[t] # "reconcile"

\* What is due in counter q when t commits.
Due(t, q) == CASE op[t] = "reconcile" -> used[q]
               [] op[t] = "release"   -> Left(t, q)
               [] OTHER               -> used[q] + Amount(res[t], Site(t), q)

LocksTypeOK ==
    /\ owner \in [Row -> Tx \cup {None}]
    /\ op \in [Tx -> Call]
    /\ res \in [Tx -> Res \cup {None}]
    /\ wrk \in [Tx -> Worker \cup {None}]
    /\ step \in [Tx -> {"closed", "seed", "insert", "header", "count", "lock"}]
    /\ todo \in [Tx -> SUBSET Quota]
    /\ new \in [Tx -> [Quota -> Nat \cup {NotWritten}]]
    /\ lapsed = {}

\* Which statements belong to which call.
StepsOK(t) ==
    /\ op[t] = "none"                      => step[t] = "closed"
    /\ op[t] = "reserve"                   => step[t] \in {"seed", "insert", "count"} /\ wrk[t] \in Worker
    /\ op[t] \in {"reactivate", "release"} => step[t] \in {"header", "count"}
    /\ op[t] = "reconcile"                 => step[t] \in {"lock", "count"}
    /\ op[t] \in {"reserve", "reactivate", "release"} => res[t] \in Res
    /\ step[t] \in {"closed", "seed", "insert", "header"} => Written(t) = {}

\* A header that is locked stays as it was found, and the counters still to be
\* locked and those that are written make up its items.
HeaderOK(t) ==
    Counting(t) =>
      /\ owner[res[t]] = t
      /\ hold[res[t]] = CASE op[t] = "reserve" -> "none" [] op[t] = "release" -> "held" [] OTHER -> "released"
      /\ op[t] = "reserve" => res[t] \notin OverCeiling
      /\ todo[t] \cup Written(t) = Items(res[t], Site(t))

\* The limit a reserve works with is committed, or the row is its own.
SeedOK(t) ==
    op[t] = "reserve" /\ step[t] # "seed" => limit[wrk[t]] # NoRow \/ owner[wrk[t]] = t

\* What is written is locked, is what is due, fits, and comes before the rest.
WrittenOK(t) ==
    \A q \in Written(t) :
      /\ owner[q] = t
      /\ new[t][q] = Due(t, q)
      /\ op[t] \in {"reserve", "reactivate"} => Fits(res[t], Site(t), q, SeenLimit(t))
      /\ \A x \in todo[t] : Order[q] < Order[x]

\* Why a row is locked.
OwnerOK(t) ==
    /\ \A q \in Quota : owner[q] = t =>
         \/ q \in Written(t)
         \/ op[t] = "reserve" /\ step[t] \in {"insert", "count"} /\ q = wrk[t] /\ limit[q] = NoRow
    /\ \A r \in Res : owner[r] = t => Counting(t) /\ r = res[t]

\* The counters a transaction has yet to lock are committed rows, but for the
\* row a reserve has inserted itself.
RowsOK(t) == op[t] = "reconcile" => \A q \in todo[t] : limit[q] # NoRow

\* A reservation that was ever placed has its worker's counter.
Seated == \A r \in Res : hold[r] # "none" => limit[place[r]] # NoRow

TxOK(t) == StepsOK(t) /\ HeaderOK(t) /\ SeedOK(t) /\ WrittenOK(t) /\ OwnerOK(t) /\ RowsOK(t)

LocksInv == LocksTypeOK /\ LedgerInv /\ Seated /\ \A t \in Tx : TxOK(t)

-----------------------------------------------------------------------------
(* The transactions that stand by. *)

\* A step of t changes nothing that is private to the others, nor their locks.
Others(t) ==
    \A u \in Tx \ {t} :
      /\ op'[u] = op[u] /\ res'[u] = res[u] /\ wrk'[u] = wrk[u] /\ step'[u] = step[u]
      /\ todo'[u] = todo[u] /\ new'[u] = new[u]
      /\ \A x \in Row : owner'[x] = u <=> owner[x] = u

\* What t may change of the ledger beside transaction u.
Respects(u) ==
    /\ \A q \in Quota : owner[q] = u => used'[q] = used[q] /\ limit'[q] = limit[q]
    /\ Counting(u) => hold'[res[u]] = hold[res[u]] /\ place'[res[u]] = place[res[u]]
    /\ \A q \in Quota : limit[q] # NoRow => limit'[q] # NoRow

\* The limit of one counter as t sees it.
SeenAt(t, q) == IF op[t] = "reserve" /\ q = wrk[t] /\ limit[q] = NoRow THEN Capacity[q] ELSE limit[q]

LEMMA SeenLimitIs ==
    ASSUME LedgerTypeOK, NEW t \in Tx, StepsOK(t)
    PROVE  \A q \in Quota : SeenLimit(t)[q] = SeenAt(t, q)
  BY QuotaAssumption DEF LedgerTypeOK, StepsOK, SeenLimit, SeenAt, Seeded, Quota

LEMMA Bystander ==
    ASSUME LocksTypeOK, LedgerTypeOK, LedgerTypeOK', NEW t \in Tx, NEW u \in Tx \ {t},
           Others(t), Respects(u), TxOK(u)
    PROVE  TxOK(u)'
  <1>1. /\ op'[u] = op[u] /\ res'[u] = res[u] /\ wrk'[u] = wrk[u] /\ step'[u] = step[u]
        /\ todo'[u] = todo[u] /\ new'[u] = new[u]
        /\ \A x \in Row : owner'[x] = u <=> owner[x] = u
    BY DEF Others
  <1>2. Written(u)' = Written(u)
    BY <1>1 DEF Written
  <1>3. StepsOK(u)'
    BY <1>1, <1>2 DEF TxOK, StepsOK
  <1>4. Counting(u)' <=> Counting(u)
    BY <1>1 DEF Counting
  <1>5. Counting(u) => Site(u)' = Site(u)
    BY <1>1 DEF Site, Respects
  <1>6. HeaderOK(u)'
    <2>. SUFFICES ASSUME Counting(u)
                  PROVE  /\ owner'[res[u]] = u /\ hold'[res[u]] = hold[res[u]]
                         /\ Items(res[u], Site(u)') = Items(res[u], Site(u))
      BY <1>1, <1>2, <1>4 DEF TxOK, HeaderOK, Items
    <2>1. res[u] \in Row
      BY DEF TxOK, StepsOK, Counting, Row, LocksTypeOK, Call
    <2>. QED  BY <1>1, <1>5, <2>1 DEF TxOK, HeaderOK, Respects
  <1>7. SeedOK(u)'
    <2>. SUFFICES ASSUME op[u] = "reserve", step[u] # "seed"
                  PROVE  limit'[wrk[u]] # NoRow \/ owner'[wrk[u]] = u
      BY <1>1 DEF SeedOK
    <2>1. wrk[u] \in Quota /\ wrk[u] \in Row
      BY DEF TxOK, StepsOK, Quota, Row
    <2>. QED  BY <1>1, <2>1 DEF TxOK, SeedOK, Respects
  <1>8. WrittenOK(u)'
    <2>. SUFFICES ASSUME NEW q \in Written(u)
                  PROVE  /\ owner'[q] = u
                         /\ new[u][q] = Due(u, q)'
                         /\ op[u] \in {"reserve", "reactivate"} => Fits(res[u], Site(u), q, SeenLimit(u))'
                         /\ \A x \in todo[u] : Order[q] < Order[x]
      BY <1>1, <1>2 DEF WrittenOK
    <2>1. q \in Quota /\ q \in Row /\ owner[q] = u /\ used'[q] = used[q] /\ limit'[q] = limit[q]
      BY DEF Written, Row, TxOK, WrittenOK, Respects
    <2>2. op[u] # "reconcile" => Site(u)' = Site(u)
      BY <1>5 DEF TxOK, StepsOK, Counting, LocksTypeOK, Call
    <2>3. Due(u, q)' = Due(u, q)
      BY <1>1, <2>1, <2>2 DEF Due, Left
    <2>4. SeenAt(u, q)' = SeenAt(u, q)
      BY <1>1, <2>1 DEF SeenAt
    <2>5. op[u] \in {"reserve", "reactivate"} => Fits(res[u], Site(u), q, SeenLimit(u))'
      <3>1. TxOK(u) => StepsOK(u)
        BY DEF TxOK
      <3>2. op[u] \in {"reserve", "reactivate"} => Fits(res[u], Site(u), q, SeenLimit(u))
        BY DEF TxOK, WrittenOK
      <3>3. op[u] \in {"reserve", "reactivate"} => Amount(res[u], Site(u), q)' = Amount(res[u], Site(u), q)
        BY <1>1, <2>2 DEF Amount
      <3>4. SeenLimit(u)'[q] = SeenAt(u, q)'
        BY <1>3, <2>1, QuotaAssumption DEF LedgerTypeOK, StepsOK, SeenLimit, SeenAt, Seeded, Quota
      <3>5. SeenLimit(u)[q] = SeenAt(u, q)
        BY <2>1, <3>1, SeenLimitIs
      <3>. QED  BY <1>1, <2>1, <2>4, <3>2, <3>3, <3>4, <3>5 DEF Fits
    <2>. QED  BY <1>1, <2>1, <2>3, <2>5 DEF TxOK, WrittenOK
  <1>9. OwnerOK(u)'
    <2>1. ASSUME NEW q \in Quota, owner'[q] = u
          PROVE  \/ q \in Written(u)
                 \/ op[u] = "reserve" /\ step[u] \in {"insert", "count"} /\ q = wrk[u] /\ limit'[q] = NoRow
      <3>1. owner[q] = u /\ limit'[q] = limit[q]
        BY <1>1, <2>1 DEF Row, Respects
      <3>. QED  BY <3>1 DEF TxOK, OwnerOK
    <2>2. ASSUME NEW r \in Res, owner'[r] = u PROVE Counting(u) /\ r = res[u]
      BY <1>1, <2>2 DEF Row, TxOK, OwnerOK
    <2>. QED  BY <1>1, <1>2, <1>4, <2>1, <2>2 DEF OwnerOK
  <1>10. RowsOK(u)'
    BY <1>1 DEF TxOK, RowsOK, Respects, LocksTypeOK
  <1>. QED  BY <1>3, <1>6, <1>7, <1>8, <1>9, <1>10 DEF TxOK

LEMMA RespectsSame ==
    ASSUME UNCHANGED ledgerVars, NEW u
    PROVE  Respects(u)
  BY DEF Respects, ledgerVars

-----------------------------------------------------------------------------
(* The steps of a transaction. *)

\* A step that commits nothing.
LEMMA QuietStep ==
    ASSUME LocksInv, UNCHANGED ledgerVars, NEW t \in Tx, Others(t), LocksTypeOK', TxOK(t)'
    PROVE  LocksInv'
  <1>1. LedgerInv'
    BY LedgerStep DEF LocksInv
  <1>2. Seated'
    BY DEF LocksInv, Seated, ledgerVars
  <1>3. ASSUME NEW u \in Tx \ {t} PROVE TxOK(u)'
    <2>1. LedgerTypeOK /\ LedgerTypeOK' /\ LocksTypeOK /\ TxOK(u)
      BY <1>1 DEF LocksInv, LedgerInv
    <2>. QED  BY <2>1, Bystander, RespectsSame
  <1>. QED  BY <1>1, <1>2, <1>3 DEF LocksInv

\* The end of a transaction gives up its locks and leaves the others alone.
LEMMA CloseOK ==
    ASSUME LocksTypeOK, NEW t \in Tx, Close(t), UNCHANGED lapsed
    PROVE  LocksTypeOK' /\ Others(t) /\ TxOK(t)'
  <1>1. LocksTypeOK'
    BY OrderAssumption DEF LocksTypeOK, Close, Call, NothingWritten, NotWritten
  <1>2. /\ op'[t] = "none" /\ step'[t] = "closed" /\ new'[t] = NothingWritten
        /\ \A x \in Row : owner'[x] # t
    BY OrderAssumption DEF LocksTypeOK, Close
  <1>3. Others(t)
    BY OrderAssumption DEF LocksTypeOK, Close, Others
  <1>4. Written(t)' = {}
    BY <1>2 DEF Written, NothingWritten
  <1>5. TxOK(t)'
    BY <1>2, <1>4 DEF TxOK, StepsOK, HeaderOK, SeedOK, WrittenOK, OwnerOK, RowsOK, Counting, Row
  <1>. QED  BY <1>1, <1>3, <1>5

LEMMA RollbackInv ==
    ASSUME LocksInv, NEW t \in Tx, Rollback(t)
    PROVE  LocksInv'
  BY CloseOK, QuietStep DEF Rollback, ledgerVars, LocksInv

LEMMA OpenInv ==
    ASSUME LocksInv, NEW t \in Tx,
           \/ \E r \in Res : \/ \E w \in Worker : BeginReserve(t, r, w)
                             \/ BeginReactivate(t, r)
                             \/ BeginRelease(t, r)
           \/ BeginReconcile(t)
    PROVE  LocksInv' /\ UNCHANGED ledgerVars
  <1>1. PICK f \in Call \ {"none"}, r \in Res \cup {None}, w \in Worker \cup {None},
             first \in {"seed", "header", "lock"} :
          /\ Open(t, f, r, w, first)
          /\ f = "reserve" => first = "seed" /\ w \in Worker
          /\ f \in {"reactivate", "release"} => first = "header"
          /\ f \in {"reserve", "reactivate", "release"} => r \in Res
          /\ f = "reconcile" => first = "lock"
          /\ f = "reconcile" => todo' = [todo EXCEPT ![t] = {q \in Quota : limit[q] # NoRow}]
          /\ f # "reconcile" => UNCHANGED todo
    BY DEF BeginReserve, BeginReactivate, BeginRelease, BeginReconcile, Call
  <1>2. /\ \A u \in Tx \ {t} : todo'[u] = todo[u]
        /\ todo' \in [Tx -> SUBSET Quota]
        /\ f = "reconcile" => \A q \in todo'[t] : limit[q] # NoRow
    BY <1>1 DEF LocksInv, LocksTypeOK
  <1>3. /\ op[t] = "none" /\ op'[t] = f /\ res'[t] = r /\ wrk'[t] = w /\ step'[t] = first
        /\ UNCHANGED <<ledgerVars, owner, new>>
    BY <1>1 DEF Open, LocksInv, LocksTypeOK
  <1>4. LocksTypeOK'
    BY <1>1, <1>2, <1>3 DEF Open, LocksInv, LocksTypeOK, ledgerVars
  <1>5. Others(t)
    BY <1>1, <1>2, <1>3 DEF Open, LocksInv, LocksTypeOK, Others
  <1>6. TxOK(t)'
    <2>1. TxOK(t) /\ Written(t) = {} /\ Written(t)' = {}
      BY <1>3 DEF LocksInv, TxOK, StepsOK, Written
    <2>2. \A x \in Row : owner'[x] # t
      BY <1>3, <2>1 DEF TxOK, OwnerOK, Row, Counting, StepsOK
    <2>. QED  BY <1>1, <1>2, <1>3, <2>1, <2>2
              DEF TxOK, StepsOK, HeaderOK, SeedOK, WrittenOK, OwnerOK, RowsOK, Counting, Row, Call, ledgerVars
  <1>. QED  BY <1>3, <1>4, <1>5, <1>6, QuietStep

LEMMA SeedInv ==
    ASSUME LocksInv, NEW t \in Tx, SeedWorker(t)
    PROVE  LocksInv' /\ UNCHANGED ledgerVars
  <1>1. /\ step[t] = "seed" /\ step'[t] = "insert" /\ op[t] = "reserve" /\ wrk[t] \in Worker
        /\ UNCHANGED <<ledgerVars, op, res, wrk, todo, new>>
    BY DEF SeedWorker, LocksInv, LocksTypeOK, TxOK, StepsOK, Call
  <1>2. /\ limit[wrk[t]] # NoRow \/ owner'[wrk[t]] = t
        /\ \A x \in Row : owner'[x] # owner[x] => owner[x] = None /\ owner'[x] = t /\ x = wrk[t] /\ limit[x] = NoRow
        /\ owner' \in [Row -> Tx \cup {None}]
    BY <1>1 DEF SeedWorker, LocksInv, LocksTypeOK, Row, Quota
  <1>3. LocksTypeOK'
    BY <1>1, <1>2 DEF SeedWorker, LocksInv, LocksTypeOK, ledgerVars
  <1>4. Others(t)
    BY <1>1, <1>2, OrderAssumption DEF SeedWorker, LocksInv, LocksTypeOK, Others
  <1>5. TxOK(t)'
    <2>1. TxOK(t) /\ Written(t) = {} /\ Written(t)' = {} /\ ~Counting(t)
      BY <1>1 DEF LocksInv, TxOK, StepsOK, Written, Counting
    <2>2. \A x \in Row : owner[x] # t
      BY <1>1, <2>1 DEF TxOK, OwnerOK, Row
    <2>3. OwnerOK(t)'
      <3>1. \A q \in Quota : owner'[q] = t => q = wrk[t] /\ limit[q] = NoRow
        BY <1>2, <2>2 DEF Row
      <3>2. \A r \in Res : owner'[r] # t
        BY <1>1, <1>2, <2>2, OrderAssumption DEF Row, Quota
      <3>. QED  BY <1>1, <3>1, <3>2 DEF OwnerOK, ledgerVars
    <2>. QED  BY <1>1, <1>2, <2>1, <2>3
              DEF TxOK, StepsOK, HeaderOK, SeedOK, WrittenOK, RowsOK, Counting, ledgerVars
  <1>. QED  BY <1>1, <1>3, <1>4, <1>5, QuietStep

\* A transaction that takes its header r, free until then, and turns to the
\* items of the reservation.
LEMMA HeaderTaken ==
    ASSUME LocksInv, NEW t \in Tx, UNCHANGED <<ledgerVars, op, res, wrk, new>>,
           step[t] \in {"insert", "header"}, owner[res[t]] = None,
           owner' = [owner EXCEPT ![res[t]] = t],
           step' = [step EXCEPT ![t] = "count"],
           todo' = [todo EXCEPT ![t] = Items(res[t], Site(t))],
           op[t] = "reserve" => hold[res[t]] = "none" /\ res[t] \notin OverCeiling,
           op[t] = "release" => hold[res[t]] = "held",
           op[t] = "reactivate" => hold[res[t]] = "released"
    PROVE  LocksInv' /\ UNCHANGED ledgerVars
  <1>1. /\ op[t] \in {"reserve", "reactivate", "release"} /\ res[t] \in Res /\ res[t] \in Row
        /\ Written(t) = {} /\ ~ Counting(t)
        /\ op[t] = "reserve" => wrk[t] \in Worker /\ step[t] = "insert"
    BY DEF LocksInv, LocksTypeOK, TxOK, StepsOK, Call, Counting, Row
  <1>2. /\ owner'[res[t]] = t /\ step'[t] = "count" /\ todo'[t] = Items(res[t], Site(t))
        /\ owner' \in [Row -> Tx \cup {None}]
        /\ \A x \in Row \ {res[t]} : owner'[x] = owner[x]
    BY <1>1 DEF LocksInv, LocksTypeOK
  <1>3. Items(res[t], Site(t)) \subseteq Quota
    BY DEF Items
  <1>4. LocksTypeOK'
    BY <1>2, <1>3 DEF LocksInv, LocksTypeOK, ledgerVars
  <1>5. Others(t)
    BY <1>1, <1>2, OrderAssumption DEF LocksInv, LocksTypeOK, Others
  <1>6. TxOK(t)'
    <2>1. TxOK(t) /\ Written(t)' = {} /\ Counting(t)' /\ Site(t)' = Site(t)
      BY <1>1, <1>2 DEF LocksInv, Written, Counting, Site, ledgerVars
    <2>2. StepsOK(t)'
      BY <1>1, <1>2, <2>1 DEF TxOK, StepsOK
    <2>3. HeaderOK(t)'
      BY <1>1, <1>2, <2>1 DEF HeaderOK, Items, ledgerVars
    <2>4. SeedOK(t)'
      <3>. SUFFICES ASSUME op[t] = "reserve"
                    PROVE  limit[wrk[t]] # NoRow \/ owner'[wrk[t]] = t
        BY DEF SeedOK, ledgerVars
      <3>1. wrk[t] \in Row /\ wrk[t] # res[t]
        BY <1>1, OrderAssumption DEF Row, Quota
      <3>. QED  BY <1>1, <1>2, <2>1, <3>1 DEF TxOK, SeedOK
    <2>5. OwnerOK(t)'
      <3>1. ASSUME NEW q \in Quota, owner'[q] = t
            PROVE  op[t] = "reserve" /\ q = wrk[t] /\ limit[q] = NoRow
        <4>1. owner[q] = t
          BY <1>1, <1>2, <3>1, OrderAssumption DEF Row
        <4>. QED  BY <1>1, <2>1, <4>1 DEF TxOK, OwnerOK
      <3>2. ASSUME NEW r \in Res, owner'[r] = t PROVE r = res[t]
        BY <1>1, <1>2, <2>1, <3>2 DEF TxOK, OwnerOK, Row
      <3>. QED  BY <1>2, <2>1, <3>1, <3>2 DEF OwnerOK, ledgerVars
    <2>. QED  BY <1>1, <2>1, <2>2, <2>3, <2>4, <2>5 DEF TxOK, WrittenOK, RowsOK
  <1>. QED  BY <1>4, <1>5, <1>6, QuietStep

LEMMA InsertInv ==
    ASSUME LocksInv, NEW t \in Tx, InsertHeader(t)
    PROVE  LocksInv' /\ UNCHANGED ledgerVars
  <1>1. CASE Rollback(t)
    BY <1>1, RollbackInv DEF Rollback
  <1>2. CASE ~ Rollback(t)
    <2>1. op[t] = "reserve"
      BY DEF InsertHeader, LocksInv, LocksTypeOK, TxOK, StepsOK, Call
    <2>2. Site(t) = wrk[t]
      BY <2>1 DEF Site
    <2>. QED  BY <1>2, <2>1, <2>2, HeaderTaken DEF InsertHeader
  <1>. QED  BY <1>1, <1>2

LEMMA LockHeaderInv ==
    ASSUME LocksInv, NEW t \in Tx, LockHeader(t)
    PROVE  LocksInv' /\ UNCHANGED ledgerVars
  <1>1. CASE Rollback(t)
    BY <1>1, RollbackInv DEF Rollback
  <1>2. CASE ~ Rollback(t)
    <2>1. op[t] \in {"reactivate", "release"}
      BY DEF LockHeader, LocksInv, LocksTypeOK, TxOK, StepsOK, Call
    <2>2. Site(t) = place[res[t]]
      BY <2>1 DEF Site
    <2>. QED  BY <1>2, <2>1, <2>2, HeaderTaken DEF LockHeader
  <1>. QED  BY <1>1, <1>2

\* A transaction that locks its next counter q, free or its own until then,
\* and writes what is due there.
LEMMA CounterTaken ==
    ASSUME LocksInv, NEW t \in Tx, NEW q \in NextLock(t), NEW n,
           UNCHANGED <<ledgerVars, op, res, wrk, step>>,
           step[t] \in {"count", "lock"}, owner[q] \in {None, t},
           owner' = [owner EXCEPT ![q] = t],
           todo' = [todo EXCEPT ![t] = @ \ {q}],
           Write(t, q, n), n = Due(t, q),
           op[t] \in {"reserve", "reactivate"} => Fits(res[t], Site(t), q, SeenLimit(t))
    PROVE  LocksInv' /\ UNCHANGED ledgerVars
  <1>1. q \in Quota /\ q \in Row /\ q \in todo[t] /\ op[t] # "none"
    BY DEF NextLock, LocksInv, LocksTypeOK, Row, TxOK, StepsOK
  <1>2. n \in Nat /\ n # NotWritten
    <2>1. used[q] \in Nat
      BY <1>1 DEF LocksInv, LedgerInv, LedgerTypeOK
    <2>2. op[t] # "reconcile" => Amount(res[t], Site(t), q) \in Nat
      BY <1>1, AmountType DEF LocksInv, LocksTypeOK, TxOK, StepsOK, Call
    <2>3. n \in Nat
      BY <2>1, <2>2 DEF Due, Left
    <2>. QED  BY <2>3 DEF NotWritten
  <1>3. /\ owner'[q] = t /\ todo'[t] = todo[t] \ {q} /\ new'[t][q] = n
        /\ \A x \in Quota \ {q} : new'[t][x] = new[t][x]
        /\ \A x \in Row \ {q} : owner'[x] = owner[x]
        /\ owner' \in [Row -> Tx \cup {None}]
        /\ new' \in [Tx -> [Quota -> Nat \cup {NotWritten}]]
        /\ todo' \in [Tx -> SUBSET Quota]
    BY <1>1, <1>2 DEF LocksInv, LocksTypeOK, Write
  <1>4. LocksTypeOK'
    BY <1>3 DEF LocksInv, LocksTypeOK, ledgerVars
  <1>5. Others(t)
    <2>1. \A u \in Tx \ {t} : new'[u] = new[u] /\ todo'[u] = todo[u]
      BY DEF LocksInv, LocksTypeOK, Write
    <2>. QED  BY <1>1, <1>3, <2>1, OrderAssumption DEF Others
  <1>6. TxOK(t)'
    <2>1. TxOK(t)
      BY DEF LocksInv
    <2>2. Written(t)' = Written(t) \cup {q}
      BY <1>1, <1>2, <1>3 DEF Written
    <2>3. (Counting(t)' <=> Counting(t)) /\ Site(t)' = Site(t) /\ SeenLimit(t)' = SeenLimit(t)
      BY DEF Counting, Site, SeenLimit, Seeded, ledgerVars
    <2>4. StepsOK(t)'
      BY <2>1 DEF TxOK, StepsOK
    <2>5. HeaderOK(t)'
      <3>. SUFFICES ASSUME Counting(t)
                    PROVE  /\ owner'[res[t]] = t
                           /\ todo'[t] \cup Written(t)' = Items(res[t], Site(t))
        BY <2>1, <2>3 DEF TxOK, HeaderOK, Items, ledgerVars
      <3>1. res[t] \in Res
        BY <2>1 DEF TxOK, StepsOK, Counting, LocksInv, LocksTypeOK, Call
      <3>2. res[t] \in Row /\ res[t] # q
        BY <1>1, <3>1, OrderAssumption DEF Row
      <3>. QED  BY <1>1, <1>3, <2>1, <2>2, <3>2 DEF TxOK, HeaderOK
    <2>6. SeedOK(t)'
      <3>. SUFFICES ASSUME op[t] = "reserve"
                    PROVE  limit[wrk[t]] # NoRow \/ owner'[wrk[t]] = t
        BY DEF SeedOK, ledgerVars
      <3>1. wrk[t] \in Row
        BY <2>1 DEF TxOK, StepsOK, Row, Quota
      <3>. QED  BY <1>3, <2>1, <3>1 DEF TxOK, SeedOK
    <2>7. WrittenOK(t)'
      <3>1. ASSUME NEW x \in Quota PROVE Due(t, x)' = Due(t, x)
        BY <2>3 DEF Due, Left, ledgerVars, Amount
      <3>2. ASSUME NEW x \in Written(t)'
            PROVE  /\ owner'[x] = t
                   /\ new'[t][x] = Due(t, x)
                   /\ op[t] \in {"reserve", "reactivate"} => Fits(res[t], Site(t), x, SeenLimit(t))
                   /\ \A y \in todo'[t] : Order[x] < Order[y]
        <4>1. CASE x = q
          <5>1. \A y \in todo'[t] : Order[q] < Order[y]
            <6>. SUFFICES ASSUME NEW y \in todo'[t] PROVE Order[q] < Order[y]
              OBVIOUS
            <6>1. y \in Quota /\ y # q /\ Order[q] <= Order[y]
              BY <1>1, <1>3 DEF NextLock, LocksInv, LocksTypeOK
            <6>2. Order[q] \in Int /\ Order[y] \in Int /\ Order[q] # Order[y]
              BY <1>1, <6>1, OrderAssumption
            <6>. QED  BY <6>1, <6>2
          <5>. QED  BY <1>3, <4>1, <5>1
        <4>2. CASE x # q
          <5>1. x \in Written(t) /\ x \in Quota /\ x \in Row
            BY <2>2, <4>2 DEF Written, Row
          <5>. QED  BY <1>3, <2>1, <4>2, <5>1 DEF TxOK, WrittenOK
        <4>. QED  BY <4>1, <4>2
      <3>3. \A x \in Quota : Fits(res[t], Site(t), x, SeenLimit(t))' <=> Fits(res[t], Site(t), x, SeenLimit(t))
        BY <2>3 DEF Fits, Amount, ledgerVars
      <3>4. \A x \in Written(t)' : x \in Quota
        BY DEF Written
      <3>. QED  BY <3>1, <3>2, <3>3, <3>4 DEF WrittenOK
    <2>8. OwnerOK(t)'
      BY <1>1, <1>3, <2>1, <2>2, <2>3, OrderAssumption DEF TxOK, OwnerOK, Row, ledgerVars
    <2>9. RowsOK(t)'
      BY <1>3, <2>1 DEF TxOK, RowsOK, ledgerVars
    <2>. QED  BY <2>4, <2>5, <2>6, <2>7, <2>8, <2>9 DEF TxOK
  <1>. QED  BY <1>4, <1>5, <1>6, QuietStep

LEMMA LockCounterInv ==
    ASSUME LocksInv, NEW t \in Tx, LockCounter(t)
    PROVE  LocksInv' /\ UNCHANGED ledgerVars
  <1>1. CASE Rollback(t)
    BY <1>1, RollbackInv DEF Rollback
  <1>2. CASE ~ Rollback(t)
    <2>1. PICK q \in NextLock(t) :
            /\ owner[q] \in {None, t}
            /\ op[t] = "release" \/ Fits(res[t], Site(t), q, SeenLimit(t))
            /\ owner' = [owner EXCEPT ![q] = t]
            /\ todo' = [todo EXCEPT ![t] = @ \ {q}]
            /\ Write(t, q, IF op[t] = "release" THEN Left(t, q)
                           ELSE used[q] + Amount(res[t], Site(t), q))
            /\ UNCHANGED <<ledgerVars, op, res, wrk, step>>
            /\ step[t] = "count" /\ op[t] # "reconcile"
      BY <1>2 DEF LockCounter
    <2>2. Write(t, q, Due(t, q))
      BY <2>1 DEF Due
    <2>. QED  BY <2>1, <2>2, CounterTaken
  <1>. QED  BY <1>1, <1>2

LEMMA LockRowInv ==
    ASSUME LocksInv, NEW t \in Tx, LockRow(t)
    PROVE  LocksInv' /\ UNCHANGED ledgerVars
  <1>1. PICK q \in NextLock(t) :
          /\ owner[q] = None
          /\ owner' = [owner EXCEPT ![q] = t]
          /\ todo' = [todo EXCEPT ![t] = @ \ {q}]
          /\ Write(t, q, used[q])
          /\ UNCHANGED <<ledgerVars, op, res, wrk, step>>
          /\ step[t] = "lock"
    BY DEF LockRow
  <1>2. op[t] = "reconcile"
    BY <1>1 DEF LocksInv, LocksTypeOK, TxOK, StepsOK, Call
  <1>3. Write(t, q, Due(t, q))
    BY <1>1, <1>2 DEF Due
  <1>. QED  BY <1>1, <1>2, <1>3, CounterTaken

\* The sums find what the counters say.
LEMMA SumHeldInv ==
    ASSUME LocksInv, NEW t \in Tx, SumHeld(t)
    PROVE  LocksInv' /\ UNCHANGED ledgerVars
  <1>1. op[t] = "reconcile" /\ TxOK(t)
    BY DEF SumHeld, LocksInv, LocksTypeOK, TxOK, StepsOK, Call
  <1>2. \A q \in Quota : new[t][q] # NotWritten => new[t][q] = Cardinality(HeldUnits(q))
    BY <1>1 DEF TxOK, WrittenOK, Written, Due, LocksInv, LedgerInv, Conserved
  <1>3. new' = new
    BY <1>2 DEF SumHeld, LocksInv, LocksTypeOK
  <1>4. /\ UNCHANGED <<ledgerVars, owner, op, res, wrk, todo, new>>
        /\ step[t] = "lock" /\ step' = [step EXCEPT ![t] = "count"]
    BY <1>3 DEF SumHeld
  <1>5. LocksTypeOK' /\ Others(t) /\ step'[t] = "count"
    BY <1>4 DEF LocksInv, LocksTypeOK, Others, ledgerVars
  <1>6. TxOK(t)'
    <2>1. Written(t)' = Written(t) /\ ~ Counting(t) /\ ~ Counting(t)'
      BY <1>1, <1>4 DEF Written, Counting
    <2>2. StepsOK(t)' /\ HeaderOK(t)' /\ SeedOK(t)' /\ RowsOK(t)'
      BY <1>1, <1>4, <1>5, <2>1 DEF TxOK, StepsOK, HeaderOK, SeedOK, RowsOK, ledgerVars
    <2>3. WrittenOK(t)'
      BY <1>1, <1>4, <2>1 DEF TxOK, WrittenOK, Due, ledgerVars
    <2>4. OwnerOK(t)'
      BY <1>1, <1>4, <2>1 DEF TxOK, OwnerOK, ledgerVars
    <2>. QED  BY <2>2, <2>3, <2>4 DEF TxOK
  <1>. QED  BY <1>4, <1>5, <1>6, QuietStep

\* What a transaction has written when it has nothing left to lock are all its
\* items, and they fit.
LEMMA AllWritten ==
    ASSUME LocksInv, NEW t \in Tx, Counting(t), todo[t] = {}
    PROVE  /\ res[t] \in Res /\ op[t] \in {"reserve", "reactivate", "release"}
           /\ \A q \in Quota :
                (IF new[t][q] = NotWritten THEN used[q] ELSE new[t][q])
                = IF op[t] = "release" THEN Left(t, q) ELSE used[q] + Amount(res[t], Site(t), q)
           /\ op[t] # "release" => \A q \in Quota : Fits(res[t], Site(t), q, SeenLimit(t))
  <1>1. /\ TxOK(t) /\ res[t] \in Res /\ op[t] \in {"reserve", "reactivate", "release"}
        /\ Written(t) = Items(res[t], Site(t))
    <2>1. TxOK(t)
      BY DEF LocksInv
    <2>2. res[t] \in Res /\ op[t] \in {"reserve", "reactivate", "release"}
      BY <2>1 DEF LocksInv, LocksTypeOK, TxOK, StepsOK, Counting, Call
    <2>3. todo[t] \cup Written(t) = Items(res[t], Site(t))
      BY <2>1 DEF TxOK, HeaderOK
    <2>. QED  BY <2>1, <2>2, <2>3
  <1>2. ASSUME NEW q \in Quota, new[t][q] = NotWritten
        PROVE  /\ Amount(res[t], Site(t), q) = 0 /\ Left(t, q) = used[q]
               /\ used[q] + Amount(res[t], Site(t), q) = used[q]
               /\ Fits(res[t], Site(t), q, SeenLimit(t))
    <2>1. ~ (Amount(res[t], Site(t), q) > 0)
      BY <1>1, <1>2 DEF Written, Items
    <2>2. Amount(res[t], Site(t), q) \in Nat /\ used[q] \in Nat
      BY <1>1, <1>2, AmountType DEF LocksInv, LedgerInv, LedgerTypeOK
    <2>. QED  BY <2>1, <2>2 DEF Left, Fits
  <1>3. ASSUME NEW q \in Quota, new[t][q] # NotWritten
        PROVE  /\ new[t][q] = IF op[t] = "release" THEN Left(t, q) ELSE used[q] + Amount(res[t], Site(t), q)
               /\ op[t] # "release" => Fits(res[t], Site(t), q, SeenLimit(t))
    BY <1>1, <1>3 DEF TxOK, WrittenOK, Written, Due
  <1>. QED  BY <1>1, <1>2, <1>3

\* A commit does what the ledger's action does, or nothing.
LEMMA CommitIs ==
    ASSUME LocksInv, NEW t \in Tx, Commit(t)
    PROVE  [LedgerNext]_ledgerVars
  <1>1. TxOK(t) /\ step[t] = "count" /\ todo[t] = {} /\ lapsed = {} /\ lapsed' = {}
        /\ op[t] \in Call \ {"none"}
    BY DEF LocksInv, LocksTypeOK, Commit, TxOK, StepsOK
  <1>2. CASE op[t] = "reconcile"
    <2>1. \A q \in Quota : new[t][q] # NotWritten => new[t][q] = used[q]
      BY <1>1, <1>2 DEF TxOK, WrittenOK, Written, Due
    <2>2. used' = used
      BY <2>1 DEF Commit, LocksInv, LedgerInv, LedgerTypeOK
    <2>. QED  BY <1>1, <1>2, <2>2 DEF Commit, SeenLimit, ledgerVars
  <1>3. CASE op[t] = "reserve"
    <2>1. /\ Counting(t) /\ Site(t) = wrk[t] /\ SeenLimit(t) = Seeded(wrk[t]) /\ wrk[t] \in Worker
          /\ hold[res[t]] = "none" /\ res[t] \notin OverCeiling
      BY <1>1, <1>3 DEF Counting, Site, SeenLimit, TxOK, StepsOK, HeaderOK
    <2>2. HoldItems(res[t], wrk[t])
      BY <1>1, <1>3, <2>1, AllWritten DEF Commit, HoldItems
    <2>3. Reserve(res[t], wrk[t])
      BY <1>1, <1>3, <2>1, <2>2, AllWritten DEF Commit, Reserve
    <2>. QED  BY <1>1, <2>1, <2>3, AllWritten DEF LedgerNext
  <1>4. CASE op[t] = "reactivate"
    <2>1. /\ Counting(t) /\ Site(t) = place[res[t]] /\ SeenLimit(t) = limit
          /\ hold[res[t]] = "released"
      BY <1>1, <1>4 DEF Counting, Site, SeenLimit, TxOK, StepsOK, HeaderOK
    <2>2. HoldItems(res[t], place[res[t]])
      BY <1>1, <1>4, <2>1, AllWritten DEF Commit, HoldItems
    <2>3. Reactivate(res[t])
      BY <1>1, <1>4, <2>1, <2>2, AllWritten DEF Commit, Reactivate
    <2>. QED  BY <1>1, <2>1, <2>3, AllWritten DEF LedgerNext
  <1>5. CASE op[t] = "release"
    <2>1. /\ Counting(t) /\ Site(t) = place[res[t]] /\ SeenLimit(t) = limit
          /\ hold[res[t]] = "held"
      BY <1>1, <1>5 DEF Counting, Site, SeenLimit, TxOK, StepsOK, HeaderOK
    <2>2. used' = [q \in Quota |-> Left(t, q)]
      BY <1>1, <1>5, <2>1, AllWritten DEF Commit
    <2>3. Release(res[t])
      BY <1>1, <1>5, <2>1, <2>2 DEF Commit, Release, Left
    <2>. QED  BY <1>1, <2>1, <2>3, AllWritten DEF LedgerNext
  <1>. QED  BY <1>1, <1>2, <1>3, <1>4, <1>5 DEF Call

\* A commit changes no row another transaction has locked.
LEMMA CommitRespects ==
    ASSUME LocksInv, NEW t \in Tx, Commit(t), NEW u \in Tx \ {t}
    PROVE  Respects(u)
  <1>1. /\ TxOK(t) /\ TxOK(u) /\ step[t] = "count" /\ op[t] \in Call \ {"none"}
        /\ LedgerTypeOK /\ limit' = SeenLimit(t)
    BY DEF LocksInv, LocksTypeOK, LedgerInv, Commit, TxOK, StepsOK
  <1>2. \A q \in Quota : limit'[q] = SeenAt(t, q)
    BY <1>1, SeenLimitIs DEF TxOK
  <1>3. \A q \in Quota : limit'[q] # limit[q] => op[t] = "reserve" /\ q = wrk[t] /\ limit[q] = NoRow
    BY <1>2 DEF SeenAt
  <1>4. \A q \in Quota : limit[q] # NoRow => limit'[q] # NoRow
    BY <1>3
  <1>5. ASSUME NEW q \in Quota, owner[q] = u PROVE used'[q] = used[q] /\ limit'[q] = limit[q]
    <2>1. new[t][q] = NotWritten
      BY <1>1, <1>5 DEF TxOK, WrittenOK, Written
    <2>2. limit'[q] = limit[q]
      BY <1>1, <1>3, <1>5 DEF TxOK, SeedOK
    <2>. QED  BY <2>1, <2>2 DEF Commit
  <1>6. ASSUME Counting(u) PROVE hold'[res[u]] = hold[res[u]] /\ place'[res[u]] = place[res[u]]
    <2>1. owner[res[u]] = u /\ res[u] \in Res
      BY <1>1, <1>6 DEF TxOK, HeaderOK, StepsOK, Counting, LocksInv, LocksTypeOK, Call
    <2>2. op[t] # "reconcile" => res[u] # res[t]
      BY <1>1, <2>1 DEF TxOK, HeaderOK, Counting
    <2>. QED  BY <2>1, <2>2 DEF Commit, LocksInv, LedgerInv, LedgerTypeOK
  <1>. QED  BY <1>4, <1>5, <1>6 DEF Respects

LEMMA CommitInv ==
    ASSUME LocksInv, NEW t \in Tx, Commit(t)
    PROVE  LocksInv' /\ [LedgerNext]_ledgerVars
  <1>1. [LedgerNext]_ledgerVars
    BY CommitIs
  <1>2. LedgerInv'
    BY <1>1, LedgerStep DEF LocksInv
  <1>3. LocksTypeOK' /\ Others(t) /\ TxOK(t)'
    BY CloseOK DEF LocksInv, Commit
  <1>4. ASSUME NEW u \in Tx \ {t} PROVE TxOK(u)'
    <2>1. LocksTypeOK /\ LedgerTypeOK /\ LedgerTypeOK' /\ TxOK(u) /\ Respects(u)
      BY <1>2, CommitRespects DEF LocksInv, LedgerInv
    <2>. QED  BY <1>3, <2>1, Bystander
  <1>5. Seated'
    <2>1. /\ TxOK(t) /\ LedgerTypeOK /\ limit' = SeenLimit(t)
          /\ op[t] \in Call \ {"none"} /\ step[t] = "count"
      BY DEF LocksInv, LedgerInv, LocksTypeOK, Commit, TxOK, StepsOK
    <2>2. \A q \in Quota : limit'[q] = SeenAt(t, q)
      BY <2>1, SeenLimitIs DEF TxOK
    <2>3. \A q \in Quota : limit[q] # NoRow => limit'[q] # NoRow
      BY <2>2 DEF SeenAt
    <2>4. ASSUME NEW r \in Res, hold[r] # "none" PROVE place[r] \in Quota /\ limit[place[r]] # NoRow
      BY <2>1, <2>4, QuotaAssumption DEF LocksInv, Seated, LedgerTypeOK, Quota
    <2>5. CASE op[t] = "reserve"
      <3>1. wrk[t] \in Worker /\ limit'[wrk[t]] # NoRow
        BY <2>1, <2>2, <2>5, QuotaAssumption DEF TxOK, StepsOK, SeenAt, Quota, NoRow
      <3>2. hold' = [hold EXCEPT ![res[t]] = "held"] /\ place' = [place EXCEPT ![res[t]] = wrk[t]]
        BY <2>5 DEF Commit
      <3>. QED  BY <2>1, <2>3, <2>4, <3>1, <3>2 DEF Seated, LedgerTypeOK
    <2>6. CASE op[t] \in {"reactivate", "release"}
      <3>1. place' = place /\ hold[res[t]] # "none" /\ res[t] \in Res
        BY <2>1, <2>6 DEF Commit, TxOK, HeaderOK, StepsOK, Counting
      <3>2. \A r \in Res \ {res[t]} : hold'[r] = hold[r]
        BY <2>1, <2>6 DEF Commit, LedgerTypeOK
      <3>. QED  BY <2>3, <2>4, <3>1, <3>2 DEF Seated
    <2>7. CASE op[t] = "reconcile"
      <3>1. place' = place /\ hold' = hold
        BY <2>7 DEF Commit
      <3>. QED  BY <2>3, <2>4, <3>1 DEF Seated
    <2>. QED  BY <2>1, <2>5, <2>6, <2>7 DEF Call
  <1>. QED  BY <1>1, <1>2, <1>3, <1>4, <1>5 DEF LocksInv

-----------------------------------------------------------------------------
(* The invariant. *)

LEMMA LocksStart == LocksInit => LocksInv
  <1>. SUFFICES ASSUME LocksInit PROVE LocksInv
    OBVIOUS
  <1>1. LedgerInv
    BY LedgerStart DEF LocksInit
  <1>2. LocksTypeOK
    BY DEF LocksInit, LedgerInit, LocksTypeOK, Call, NothingWritten
  <1>3. Seated
    BY DEF LocksInit, LedgerInit, Seated
  <1>4. ASSUME NEW t \in Tx PROVE TxOK(t)
    <2>1. op[t] = "none" /\ step[t] = "closed" /\ new[t] = NothingWritten /\ \A x \in Row : owner[x] # t
      BY OrderAssumption DEF LocksInit
    <2>2. Written(t) = {}
      BY <2>1 DEF Written, NothingWritten
    <2>. QED  BY <2>1, <2>2 DEF TxOK, StepsOK, HeaderOK, SeedOK, WrittenOK, OwnerOK, RowsOK, Counting, Row
  <1>. QED  BY <1>1, <1>2, <1>3, <1>4 DEF LocksInv

LEMMA LocksStep ==
    ASSUME LocksInv, [LocksNext]_lockVars
    PROVE  LocksInv' /\ [LedgerNext]_ledgerVars
  <1>1. CASE UNCHANGED lockVars
    <2>1. LedgerInv'
      BY <1>1, LedgerStep DEF LocksInv, lockVars
    <2>2. LocksTypeOK' /\ Seated'
      BY <1>1 DEF LocksInv, lockVars, txVars, ledgerVars, LocksTypeOK, Seated
    <2>3. ASSUME NEW u \in Tx PROVE TxOK(u)'
      <3>1. Written(u)' = Written(u) /\ (Counting(u)' <=> Counting(u)) /\ Site(u)' = Site(u) /\ SeenLimit(u)' = SeenLimit(u)
        BY <1>1 DEF lockVars, txVars, ledgerVars, Written, Counting, Site, SeenLimit, Seeded
      <3>2. \A q \in Quota : Due(u, q)' = Due(u, q)
        BY <1>1, <3>1 DEF lockVars, txVars, ledgerVars, Due, Left, Amount
      <3>3. TxOK(u)
        BY DEF LocksInv
      <3>4. StepsOK(u)' /\ SeedOK(u)' /\ RowsOK(u)'
        BY <1>1, <3>1, <3>3 DEF TxOK, StepsOK, SeedOK, RowsOK, lockVars, txVars, ledgerVars
      <3>5. HeaderOK(u)'
        BY <1>1, <3>1, <3>3 DEF TxOK, HeaderOK, Items, lockVars, txVars, ledgerVars
      <3>6. WrittenOK(u)'
        BY <1>1, <3>1, <3>2, <3>3 DEF TxOK, WrittenOK, Written, Fits, Amount, lockVars, txVars, ledgerVars
      <3>7. OwnerOK(u)'
        BY <1>1, <3>1, <3>3 DEF TxOK, OwnerOK, lockVars, txVars, ledgerVars
      <3>. QED  BY <3>4, <3>5, <3>6, <3>7 DEF TxOK
    <2>. QED  BY <1>1, <2>1, <2>2, <2>3 DEF LocksInv, lockVars
  <1>2. ASSUME NEW t \in Tx, Abort(t) PROVE LocksInv' /\ UNCHANGED ledgerVars
    BY <1>2, RollbackInv DEF Abort, Rollback
  <1>. QED  BY <1>1, <1>2, OpenInv, SeedInv, InsertInv, LockHeaderInv, LockCounterInv, LockRowInv,
               SumHeldInv, CommitInv DEF LocksNext, TxStep

\* Row locks are held by those who need them, and what a transaction read under
\* a lock is still true when it commits.
THEOREM LocksInvariant == LocksSpec => []LocksInv
  BY LocksStart, LocksStep, PTL DEF LocksSpec

\* Locking rows one by one is as good as one atomic action per ledger call.
THEOREM AtomicHolds == LocksSpec => Atomic
  <1>1. LocksInit => LedgerInit
    BY DEF LocksInit
  <1>. QED  BY <1>1, LocksInvariant, LocksStep, PTL DEF LocksSpec, Atomic, LedgerSpec

\* So the counters equal what is held and never pass their limits, whatever
\* transactions are open.
THEOREM CommittedRowsSafe == LocksSpec => [](Conserved /\ NoOvercommit)
  BY LocksInvariant, PTL DEF LocksInv, LedgerInv

-----------------------------------------------------------------------------
(* No circle of waiting transactions. *)

\* t waits at row x for u.
WaitsAt(t, x, u) == t # u /\ x \in Awaited(t) /\ owner[x] = u

\* The place of that wait in the order of the locks: the insertion of the
\* worker's row, the header, then the counters.
Level(t, x) == IF step[t] = "seed" THEN 0 ELSE IF x \in Res THEN 1 ELSE 1 + Order[x]

LEMMA OrderRange == \A q \in Quota : Order[q] \in 1 .. Cardinality(Quota)
  BY OrderAssumption

\* A row that is awaited, by the statement the transaction is at.
LEMMA AwaitedIs ==
    ASSUME LocksInv, NEW t \in Tx, NEW x \in Awaited(t)
    PROVE  \/ step[t] = "seed" /\ x = wrk[t] /\ x \in Quota
           \/ step[t] \in {"insert", "header"} /\ x = res[t] /\ x \in Res
           \/ step[t] \in {"count", "lock"} /\ x \in NextLock(t) /\ x \in Quota /\ x \in todo[t]
  <1>1. TxOK(t) /\ step[t] \in {"closed", "seed", "insert", "header", "count", "lock"}
    BY DEF LocksInv, LocksTypeOK
  <1>2. CASE step[t] = "closed"
    BY <1>2 DEF Awaited
  <1>3. CASE step[t] = "seed"
    <2>1. wrk[t] \in Quota
      BY <1>1, <1>3 DEF LocksInv, LocksTypeOK, Call, TxOK, StepsOK, Quota
    <2>. QED  BY <1>3, <2>1 DEF Awaited
  <1>4. CASE step[t] \in {"insert", "header"}
    <2>1. res[t] \in Res
      BY <1>1, <1>4 DEF LocksInv, LocksTypeOK, Call, TxOK, StepsOK
    <2>. QED  BY <1>4, <2>1 DEF Awaited
  <1>5. CASE step[t] \in {"count", "lock"}
    <2>1. x \in NextLock(t)
      BY <1>5 DEF Awaited
    <2>. QED  BY <1>5, <2>1 DEF NextLock, LocksInv, LocksTypeOK
  <1>. QED  BY <1>1, <1>2, <1>3, <1>4, <1>5

\* Level is a natural number, at most one more than there are counters.
LEMMA LevelType ==
    ASSUME LocksInv, NEW t \in Tx, NEW x \in Awaited(t)
    PROVE  Level(t, x) \in 0 .. (Cardinality(Quota) + 1)
  <1>1. Cardinality(Quota) \in Nat
    BY OrderAssumption, FS_CardinalityType
  <1>2. x \notin Res /\ step[t] # "seed" => x \in Quota
    BY AwaitedIs
  <1>3. x \in Quota => Order[x] \in 1 .. Cardinality(Quota)
    BY OrderRange
  <1>. HIDE DEF Quota
  <1>. QED  BY <1>1, <1>2, <1>3 DEF Level

\* A counter that is inserted and not committed is awaited at the insertion
\* only.
LEMMA OwnInsertion ==
    ASSUME LocksInv, NEW t \in Tx, NEW x \in todo[t], step[t] \in {"count", "lock"},
           x \in Worker, limit[x] = NoRow
    PROVE  owner[x] = t
  <1>1. TxOK(t) /\ x \in Quota /\ op[t] \in Call \ {"none"}
    BY DEF LocksInv, LocksTypeOK, TxOK, StepsOK
  <1>2. op[t] # "reconcile"
    BY <1>1 DEF TxOK, RowsOK
  <1>3. res[t] \in Res /\ Counting(t)
    BY <1>1, <1>2 DEF TxOK, StepsOK, Counting, Call
  <1>4. x = Site(t)
    <2>1. Amount(res[t], Site(t), x) > 0
      BY <1>1, <1>3 DEF TxOK, HeaderOK, Items
    <2>2. x \notin Pool
      BY QuotaAssumption
    <2>. QED  BY <2>1, <2>2 DEF Amount
  <1>5. CASE op[t] = "reserve"
    BY <1>1, <1>3, <1>4, <1>5 DEF Site, TxOK, SeedOK, Counting
  <1>6. CASE op[t] # "reserve"
    <2>1. x = place[res[t]] /\ hold[res[t]] # "none"
      BY <1>1, <1>3, <1>4, <1>6 DEF Site, TxOK, HeaderOK
    <2>. QED  BY <1>3, <2>1 DEF LocksInv, Seated
  <1>. QED  BY <1>5, <1>6

\* Whoever is waited for waits, if at all, further down the order.
LEMMA WaitsDown ==
    ASSUME LocksInv, NEW t \in Tx, NEW u \in Tx, NEW x, WaitsAt(t, x, u), NEW y \in Awaited(u)
    PROVE  Level(t, x) < Level(u, y)
  <1>1. x \in Awaited(t) /\ owner[x] = u /\ t # u /\ TxOK(t) /\ TxOK(u)
    BY DEF WaitsAt, LocksInv
  <1>2. \A q \in Quota : Order[q] \in Nat \ {0} /\ q \notin Res
    BY OrderRange, OrderAssumption
  <1>3. x \in Quota => \/ x \in Written(u)
                      \/ /\ op[u] = "reserve" /\ step[u] \in {"insert", "count"}
                         /\ x = wrk[u] /\ x \in Worker /\ limit[x] = NoRow
    BY <1>1 DEF TxOK, OwnerOK, StepsOK
  <1>4. x \in Written(u) => step[u] \in {"count", "lock"}
    BY <1>1 DEF TxOK, StepsOK, LocksInv, LocksTypeOK
  <1>5. CASE step[t] = "seed"
    <2>1. x \in Quota
      BY <1>1, <1>5, AwaitedIs
    <2>2. step[u] # "seed"
      BY <1>3, <1>4, <2>1
    <2>3. y \in Res \/ y \in Quota
      BY <2>2, AwaitedIs
    <2>. QED  BY <1>2, <1>5, <2>2, <2>3 DEF Level
  <1>6. CASE step[t] \in {"insert", "header"}
    <2>1. x \in Res
      BY <1>1, <1>6, AwaitedIs
    <2>2. step[u] = "count"
      BY <1>1, <2>1 DEF TxOK, OwnerOK, Counting
    <2>3. y \in Quota
      BY <2>2, AwaitedIs
    <2>. QED  BY <1>2, <1>6, <2>1, <2>2, <2>3 DEF Level
  <1>7. CASE step[t] \in {"count", "lock"}
    <2>1. x \in Quota /\ x \in todo[t]
      BY <1>1, <1>7, AwaitedIs
    <2>2. x \in Written(u)
      <3>. SUFFICES ASSUME x \in Worker, limit[x] = NoRow PROVE FALSE
        BY <1>3, <2>1
      <3>. QED  BY <1>1, <1>7, <2>1, OwnInsertion
    <2>3. y \in Quota /\ y \in todo[u] /\ step[u] \in {"count", "lock"}
      BY <1>4, <2>2, AwaitedIs
    <2>4. Order[x] < Order[y]
      BY <1>1, <2>2, <2>3 DEF TxOK, WrittenOK
    <2>. QED  BY <1>2, <1>7, <2>1, <2>3, <2>4 DEF Level
  <1>. QED  BY <1>1, <1>5, <1>6, <1>7, AwaitedIs

\* Of any waiting transactions one waits furthest down, and nobody among them
\* can be the one it waits for.
LEMMA NoCircle == LocksInv => NoWaitCycle
  <1>. SUFFICES ASSUME LocksInv, NEW S \in SUBSET Tx, S # {},
                       \A t \in S : \E u \in S : WaitsFor(t, u)
                PROVE  FALSE
    BY DEF NoWaitCycle
  <1>. DEFINE top == Cardinality(Quota) + 1
              D == {d \in Nat : \E t, u \in S : \E x \in Awaited(t) :
                                   WaitsAt(t, x, u) /\ d = top - Level(t, x)}
  <1>1. top \in Nat
    BY OrderAssumption, FS_CardinalityType
  <1>2. \A t \in S : \E u \in S : \E x \in Awaited(t) : WaitsAt(t, x, u)
    BY DEF WaitsFor, WaitsAt
  <1>3. ASSUME NEW t \in S, NEW u \in S, NEW x \in Awaited(t), WaitsAt(t, x, u)
        PROVE  top - Level(t, x) \in D
    <2>1. Level(t, x) \in 0 .. top
      BY LevelType
    <2>2. top - Level(t, x) \in Nat
      BY <1>1, <2>1
    <2>. QED  BY <1>3, <2>2
  <1>4. D # {}
    BY <1>2, <1>3
  <1>5. D \subseteq Nat
    OBVIOUS
  <1>6. PICK m \in D : \A d \in D : ~ (d < m)
    <2>. HIDE DEF D
    <2>1. \E m \in D : \A d \in D : ~ (<<d, m>> \in OpToRel(<, Nat))
      BY <1>4, <1>5, NatLessThanWellFounded, WFMin, Zenon
    <2>2. \A m, d \in Nat : d < m => <<d, m>> \in OpToRel(<, Nat)
      BY DEF OpToRel
    <2>. QED  BY <1>5, <2>1, <2>2
  <1>6a. PICK t \in S, u \in S : \E x \in Awaited(t) : WaitsAt(t, x, u) /\ m = top - Level(t, x)
    OBVIOUS
  <1>7. PICK x \in Awaited(t) : WaitsAt(t, x, u) /\ m = top - Level(t, x)
    BY <1>6a
  <1>8. PICK v \in S, y \in Awaited(u) : WaitsAt(u, y, v)
    BY <1>2
  <1>9. Level(t, x) < Level(u, y)
    BY <1>7, WaitsDown
  <1>10. top - Level(u, y) \in D
    BY <1>3, <1>8
  <1>11. Level(t, x) \in 0 .. top /\ Level(u, y) \in 0 .. top
    BY LevelType
  <1>12. ~ (top - Level(u, y) < m)
    BY <1>6, <1>10
  <1>. HIDE DEF D, top
  <1>. QED  BY <1>1, <1>7, <1>9, <1>11, <1>12

\* The calls of the ledger never wait in a circle, whatever mix of them is
\* open: the lock order of sorted_items is one for all of them, and the rows
\* that are locked outside it come before it.
THEOREM NoWaitCycleHolds == LocksSpec => []NoWaitCycle
  BY LocksInvariant, NoCircle, PTL

-----------------------------------------------------------------------------
(* Docker on a host.  A worker of the host touches an instance only after it *)
(* is counted among its users; where there is one user, what a removal has   *)
(* seen of the rules and networks still holds at its next call.              *)

OnInstance == {"net", "block", "run", "settle", "launched", "remove", "unblock", "rmnet"}
Operation == [pc : OnInstance \cup {"idle", "restart", "reapnet", "sweep", "reaped"},
              inst : DkInstance \cup {"none"}, want : SUBSET (Service \cup {0}), todo : SUBSET (Service \cup {0}),
              made : BOOLEAN, mode : {"isolated", "none"}, reap : BOOLEAN,
              nets : SUBSET DkInstance, seen : SUBSET Subnet]

\* A container is labelled with the instance and the worker it was started for.
Container ==
    \A c \in ctr : c \in [inst : DkInstance, wk : DkWorker, svc : {c.svc}, up : BOOLEAN, net : BOOLEAN]

DkTypeOK ==
    /\ dkOp \in [DkWorker -> Operation]
    /\ net \in [DkInstance -> {NoNet} \cup [subnet : Subnet, wk : DkWorker]]
    /\ users \in [DkInstance -> SUBSET DkWorker]
    /\ rules \subseteq Subnet
    /\ Container

\* Whoever works on an instance, made its network or is about to reap it is
\* one of its users.
UsersKnown ==
    /\ \A w \in DkWorker :
         /\ dkOp[w].pc \in OnInstance => dkOp[w].inst \in DkInstance /\ w \in users[dkOp[w].inst]
         /\ \A i \in dkOp[w].nets : w \in users[i]
    /\ \A i \in DkInstance : /\ net[i] # NoNet => net[i].wk \in users[i]
                             /\ IsFiniteSet(users[i])

\* The services that were started and are not being removed run under the
\* worker's labels, those of a stack that is removed are gone.
StackKept ==
    \A w \in DkWorker :
      /\ dkOp[w].pc \in {"net", "block"} \/ dkOp[w].reap => dkOp[w].todo = dkOp[w].want
      /\ dkOp[w].pc \in {"reapnet", "sweep", "reaped"} => dkOp[w].reap
      /\ dkOp[w].reap => dkOp[w].pc \in {"reapnet", "sweep", "reaped", "unblock", "rmnet"}
      /\ dkOp[w].pc \in {"run", "settle", "launched"}
           => dkOp[w].want \ dkOp[w].todo \subseteq {c.svc : c \in Mine(w, dkOp[w].inst)}
      /\ dkOp[w].pc \in {"settle", "launched"} => dkOp[w].todo = {}
      /\ dkOp[w].pc \in {"unblock", "rmnet"} /\ Stack(w) /\ dkOp[w].todo # dkOp[w].want /\ w \notin dirty
           => Mine(w, dkOp[w].inst) = {}

Sole(i) == \A v, w \in users[i] : v = w

\* No two networks share a subnet; a sole user that is about to remove a network
\* has removed its rule.
RulesKept ==
    /\ \A i, j \in DkInstance : net[i] # NoNet /\ net[i].subnet = net[j].subnet => i = j
    /\ \A w \in DkWorker : ~stray /\ dkOp[w].pc = "rmnet" /\ Sole(dkOp[w].inst) => net[dkOp[w].inst].subnet \notin rules
    /\ ~stray /\ (\A i \in DkInstance : Sole(i)) => rules \subseteq Subnets

DockerInv == DkTypeOK /\ UsersKnown /\ StackKept /\ RulesKept

LEMMA SoleUser ==
    ASSUME UsersKnown, NEW i \in DkInstance, Cardinality(users[i]) <= 1
    PROVE  Sole(i)
  <1>. SUFFICES ASSUME NEW v \in users[i], NEW w \in users[i], v # w PROVE FALSE
    BY DEF Sole
  <1>1. IsFiniteSet({v, w}) /\ Cardinality({v, w}) = 2
    <2>1. IsFiniteSet({w}) /\ Cardinality({w}) = 1
      BY FS_Singleton
    <2>2. IsFiniteSet({w} \cup {v}) /\ Cardinality({w} \cup {v}) = Cardinality({w}) + 1
      BY <2>1, FS_AddElement
    <2>3. {w} \cup {v} = {v, w}
      OBVIOUS
    <2>. QED  BY <2>1, <2>2, <2>3
  <1>2. Cardinality({v, w}) <= Cardinality(users[i])
    BY FS_Subset DEF UsersKnown
  <1>3. Cardinality(users[i]) \in Nat
    BY FS_CardinalityType DEF UsersKnown
  <1>. QED  BY <1>1, <1>2, <1>3

LEMMA DockerStart == DkInit => DockerInv
  <1>. SUFFICES ASSUME DkInit PROVE DockerInv
    OBVIOUS
  <1>. USE DockerAssumption DEF DkInit, Idle, NoNet
  <1>1. DkTypeOK
    BY DEF DkTypeOK, Operation, OnInstance, Container
  <1>2. UsersKnown
    BY FS_EmptySet DEF UsersKnown, OnInstance
  <1>3. StackKept
    BY DEF StackKept
  <1>4. RulesKept
    BY DEF RulesKept
  <1>. QED  BY <1>1, <1>2, <1>3, <1>4 DEF DockerInv

\* One worker moves on in its operation.
LEMMA GoMoves ==
    ASSUME DkTypeOK, NEW w \in DkWorker,
           NEW pc \in OnInstance \cup {"idle", "restart", "reapnet", "sweep", "reaped"}, Go(w, pc)
    PROVE  /\ dkOp' \in [DkWorker -> Operation]
           /\ dkOp'[w].pc = pc /\ dkOp'[w].inst = dkOp[w].inst /\ dkOp'[w].nets = dkOp[w].nets
           /\ dkOp'[w].want = dkOp[w].want /\ dkOp'[w].todo = dkOp[w].todo /\ dkOp'[w].reap = dkOp[w].reap
           /\ \A v \in DkWorker : v # w => dkOp'[v] = dkOp[v]
  <1>1. dkOp[w] \in Operation
    BY DEF DkTypeOK
  <1>2. [dkOp[w] EXCEPT !.pc = pc] \in Operation
    BY <1>1 DEF Operation
  <1>3. dkOp' = [dkOp EXCEPT ![w] = [dkOp[w] EXCEPT !.pc = pc]]
    BY DEF Go
  <1>. QED  BY <1>1, <1>2, <1>3 DEF DkTypeOK, Operation

LEMMA OpMoves ==
    ASSUME DkTypeOK, NEW w \in DkWorker, NEW nxt \in Operation, dkOp' = [dkOp EXCEPT ![w] = nxt]
    PROVE  /\ dkOp' \in [DkWorker -> Operation]
           /\ dkOp'[w] = nxt /\ \A v \in DkWorker : v # w => dkOp'[v] = dkOp[v]
  BY DEF DkTypeOK

LEMMA IdleOp == Idle \in Operation
  BY DEF Idle, Operation

\* A worker that leaves the containers as they are keeps the others' stacks.
LEMMA ObjectsStay ==
    ASSUME DockerInv, NEW w \in DkWorker, UNCHANGED <<ctr, net, rules, dirty>>, stray' = stray,
           \A i \in DkInstance : users[i] \subseteq users'[i] /\ IsFiniteSet(users'[i]),
           users' \in [DkInstance -> SUBSET DkWorker],
           dkOp' \in [DkWorker -> Operation], \A v \in DkWorker : v # w => dkOp'[v] = dkOp[v],
           dkOp'[w].pc # "rmnet",
           dkOp'[w].pc \in OnInstance => dkOp'[w].inst \in DkInstance /\ w \in users'[dkOp'[w].inst],
           \A i \in dkOp'[w].nets : w \in users'[i],
           \/ /\ dkOp'[w].pc \notin {"settle", "launched"}
              /\ dkOp'[w].want = dkOp'[w].todo
              /\ dkOp'[w].pc \in {"reapnet", "sweep", "reaped"} => dkOp'[w].reap
              /\ dkOp'[w].reap => dkOp'[w].pc \in {"reapnet", "sweep", "reaped", "unblock", "rmnet"}
           \/ /\ dkOp[w].pc \in {"settle", "launched"} /\ dkOp'[w].pc \in {"settle", "launched", "remove"}
              /\ dkOp'[w].want = dkOp[w].want /\ dkOp'[w].todo = dkOp[w].todo
              /\ dkOp'[w].reap = dkOp[w].reap /\ dkOp'[w].inst = dkOp[w].inst
    PROVE  DockerInv'
  <1>. USE DEF DockerInv
  <1>1. DkTypeOK'
    BY DEF DkTypeOK, Container
  <1>2. UsersKnown'
    <2>1. ASSUME NEW v \in DkWorker
          PROVE  /\ dkOp'[v].pc \in OnInstance => dkOp'[v].inst \in DkInstance /\ v \in users'[dkOp'[v].inst]
                 /\ \A i \in dkOp'[v].nets : v \in users'[i]
      <3>1. v # w => dkOp[v] \in Operation /\ dkOp'[v] = dkOp[v]
        BY DEF DkTypeOK
      <3>2. v # w => dkOp[v].nets \subseteq DkInstance
        BY <3>1 DEF Operation
      <3>. QED  BY <3>1, <3>2 DEF UsersKnown
    <2>2. \A i \in DkInstance : net'[i] # NoNet => net'[i].wk \in users'[i]
      BY DEF UsersKnown
    <2>. QED  BY <2>1, <2>2 DEF UsersKnown
  <1>3. StackKept'
    <2>. SUFFICES ASSUME NEW v \in DkWorker PROVE StackKept!(v)'
      BY DEF StackKept
    <2>1. CASE v # w
      BY <2>1 DEF StackKept, Mine, Stack
    <2>2. CASE v = w
      BY <2>2 DEF StackKept, Mine, Stack
    <2>. QED  BY <2>1, <2>2
  <1>4. RulesKept'
    <2>1. \A i \in DkInstance : Sole(i)' => Sole(i)
      BY DEF Sole
    <2>2. \A v \in DkWorker : dkOp'[v].pc = "rmnet" => dkOp'[v] = dkOp[v] /\ dkOp[v].inst \in DkInstance
      BY DEF UsersKnown, OnInstance
    <2>. QED  BY <2>1, <2>2 DEF RulesKept, Subnets
  <1>. QED  BY <1>1, <1>2, <1>3, <1>4

LEMMA BeginStep ==
    ASSUME DockerInv, NEW w \in DkWorker, NEW i \in DkInstance,
           \/ Launch(w, i, Service, "isolated") \/ Launch(w, i, {0}, "isolated")
           \/ Launch(w, i, {0}, "none") \/ Remove(w, i)
    PROVE  DockerInv'
  <1>1. PICK nxt \in Operation :
            /\ dkOp' = [dkOp EXCEPT ![w] = nxt] /\ nxt.inst = i /\ nxt.nets = {}
            /\ nxt.pc \in {"net", "run", "remove"} /\ nxt.want = nxt.todo /\ ~nxt.reap
    <2>1. ASSUME NEW S \in SUBSET (Service \cup {0}), NEW mode \in {"isolated", "none"}, Launch(w, i, S, mode)
          PROVE  \E nxt \in Operation :
            /\ dkOp' = [dkOp EXCEPT ![w] = nxt] /\ nxt.inst = i /\ nxt.nets = {}
            /\ nxt.pc \in {"net", "run", "remove"} /\ nxt.want = nxt.todo /\ ~nxt.reap
      <3>1. [Idle EXCEPT !.pc = IF mode = "none" THEN "run" ELSE "net", !.mode = mode,
                         !.inst = i, !.want = S, !.todo = S] \in Operation
        BY DEF Idle, Operation, OnInstance
      <3>. QED  BY <2>1, <3>1 DEF Launch, Idle
    <2>2. ASSUME Remove(w, i)
          PROVE  \E nxt \in Operation :
            /\ dkOp' = [dkOp EXCEPT ![w] = nxt] /\ nxt.inst = i /\ nxt.nets = {}
            /\ nxt.pc \in {"net", "run", "remove"} /\ nxt.want = nxt.todo /\ ~nxt.reap
      <3>1. [Idle EXCEPT !.pc = "remove", !.inst = i] \in Operation
        BY DEF Idle, Operation, OnInstance
      <3>. QED  BY <2>2, <3>1 DEF Remove, Idle
    <2>. QED  BY <2>1, <2>2
  <1>2. UNCHANGED <<ctr, net, rules, dirty, stray>> /\ users' = [users EXCEPT ![i] = @ \cup {w}]
    BY DEF Launch, Remove, Objects
  <1>3. /\ users' \in [DkInstance -> SUBSET DkWorker] /\ w \in users'[i]
        /\ \A j \in DkInstance : users[j] \subseteq users'[j] /\ IsFiniteSet(users'[j])
    BY <1>2, FS_AddElement DEF DockerInv, DkTypeOK, UsersKnown
  <1>4. DkTypeOK
    BY DEF DockerInv
  <1>. QED  BY <1>1, <1>2, <1>3, <1>4, OpMoves, ObjectsStay

LEMMA WorkerOnStep ==
    ASSUME DockerInv, NEW w \in DkWorker,
           Settle(w) \/ DkReport(w) \/ ReapNetwork(w) \/ Reaped(w) \/ DkDies(w)
    PROVE  DockerInv'
  <1>. DkTypeOK /\ UsersKnown
    BY DEF DockerInv
  <1>0. UNCHANGED <<ctr, net, rules, dirty, users, stray>>
    BY DEF Settle, DkReport, ReapNetwork, Reaped, DkDies, Objects
  <1>a. /\ users' \in [DkInstance -> SUBSET DkWorker]
        /\ \A j \in DkInstance : users[j] \subseteq users'[j] /\ IsFiniteSet(users'[j])
    BY <1>0 DEF DkTypeOK, UsersKnown
  <1>b. /\ dkOp[w] \in Operation
        /\ dkOp[w].pc = "reapnet" => dkOp[w].reap /\ dkOp[w].todo = dkOp[w].want
        /\ dkOp[w].pc \in OnInstance => dkOp[w].inst \in DkInstance /\ w \in users[dkOp[w].inst]
        /\ \A i \in dkOp[w].nets : w \in users[i]
    BY DEF DkTypeOK, UsersKnown, DockerInv, StackKept
  <1>1. CASE Settle(w)
    <2>1. PICK pc \in {"launched", "remove"} : Go(w, pc)
      BY <1>1 DEF Settle
    <2>. QED  BY <1>0, <1>a, <1>b, <1>1, <2>1, GoMoves, ObjectsStay DEF Settle, At, OnInstance
  <1>2. CASE DkReport(w) /\ Go(w, "remove")
    BY <1>0, <1>a, <1>b, <1>2, GoMoves, ObjectsStay DEF DkReport, At, OnInstance
  <1>3. CASE Done(w)
    BY <1>0, <1>a, <1>3, OpMoves, IdleOp, ObjectsStay DEF Done, Idle, OnInstance
  <1>4. CASE DkDies(w)
    <2>1. [Idle EXCEPT !.pc = "restart"] \in Operation
      BY DEF Idle, Operation
    <2>. QED  BY <1>0, <1>a, <1>4, <2>1, OpMoves, ObjectsStay DEF DkDies, Idle, OnInstance
  <1>5. CASE ReapNetwork(w)
    <2>1. ASSUME NEW i \in dkOp[w].nets,
                 dkOp' = [dkOp EXCEPT ![w].pc = "unblock", ![w].inst = i, ![w].nets = @ \ {i}]
          PROVE  DockerInv'
      <3>1. i \in DkInstance
        BY <1>b DEF Operation
      <3>. DEFINE nxt == [dkOp[w] EXCEPT !.pc = "unblock", !.inst = i, !.nets = @ \ {i}]
      <3>2. nxt \in Operation
        BY <1>b, <3>1 DEF Operation, OnInstance
      <3>3. dkOp' = [dkOp EXCEPT ![w] = nxt]
        BY <2>1
      <3>4. nxt.pc = "unblock" /\ nxt.inst = i /\ nxt.nets \subseteq dkOp[w].nets
            /\ nxt.want = dkOp[w].want /\ nxt.todo = dkOp[w].todo /\ nxt.reap = dkOp[w].reap
        BY <1>b DEF Operation
      <3>5. dkOp[w].pc = "reapnet"
        BY <1>5 DEF ReapNetwork, At
      <3>. HIDE DEF nxt
      <3>6. dkOp' \in [DkWorker -> Operation] /\ dkOp'[w] = nxt /\ \A v \in DkWorker : v # w => dkOp'[v] = dkOp[v]
        BY <3>2, <3>3, OpMoves
      <3>7. users' = users
        BY <1>0
      <3>8. \A j \in dkOp'[w].nets : w \in users'[j]
        BY <1>b, <3>4, <3>6, <3>7
      <3>9. dkOp'[w].pc \in OnInstance => dkOp'[w].inst \in DkInstance /\ w \in users'[dkOp'[w].inst]
        BY <1>b, <3>1, <3>4, <3>6, <3>7 DEF OnInstance
      <3>. QED  BY <1>0, <1>a, <1>b, <3>4, <3>5, <3>6, <3>8, <3>9, ObjectsStay
    <2>2. ASSUME dkOp' = [dkOp EXCEPT ![w].pc = "sweep", ![w].seen = Subnets]
          PROVE  DockerInv'
      <3>. DEFINE nxt == [dkOp[w] EXCEPT !.pc = "sweep", !.seen = Subnets]
      <3>1. Subnets \in SUBSET Subnet
        BY DEF Subnets, DkTypeOK, NoNet
      <3>2. nxt \in Operation
        BY <1>b, <3>1 DEF Operation
      <3>3. dkOp' = [dkOp EXCEPT ![w] = nxt]
        BY <2>2
      <3>4. nxt.pc = "sweep" /\ nxt.nets = dkOp[w].nets
            /\ nxt.want = dkOp[w].want /\ nxt.todo = dkOp[w].todo /\ nxt.reap = dkOp[w].reap
        BY <1>b DEF Operation
      <3>5. dkOp[w].pc = "reapnet"
        BY <1>5 DEF ReapNetwork, At
      <3>. HIDE DEF nxt
      <3>6. dkOp' \in [DkWorker -> Operation] /\ dkOp'[w] = nxt /\ \A v \in DkWorker : v # w => dkOp'[v] = dkOp[v]
        BY <3>2, <3>3, OpMoves
      <3>7. users' = users
        BY <1>0
      <3>8. \A j \in dkOp'[w].nets : w \in users'[j]
        BY <1>b, <3>4, <3>6, <3>7
      <3>9. dkOp'[w].pc \in OnInstance => dkOp'[w].inst \in DkInstance /\ w \in users'[dkOp'[w].inst]
        BY <1>b, <3>4, <3>6, <3>7 DEF OnInstance
      <3>. QED  BY <1>0, <1>a, <1>b, <3>4, <3>5, <3>6, <3>8, <3>9, ObjectsStay
    <2>. QED  BY <1>5, <2>1, <2>2 DEF ReapNetwork
  <1>. QED  BY <1>1, <1>2, <1>3, <1>4, <1>5 DEF DkReport, Reaped

LEMMA RemoveContainersStep ==
    ASSUME DockerInv, NEW w \in DkWorker, RemoveContainers(w)
    PROVE  DockerInv'
  <1>. USE DockerAssumption DEF DockerInv, RemoveContainers, Labelled, Objects, DkFine, DkFault, Done, Go, At, Idle, NoNet
  <1>1. DkTypeOK'
    BY DEF DkTypeOK, Operation, OnInstance, Container, Subnets
  <1>2. UsersKnown'
    BY DEF DkTypeOK, Operation, OnInstance, UsersKnown
  <1>3. StackKept'
    BY DEF DkTypeOK, Operation, OnInstance, Container, StackKept, Mine, Stack
  <1>4. RulesKept'
    BY DEF DkTypeOK, Operation, OnInstance, UsersKnown, RulesKept, Sole, Subnets
  <1>. QED  BY <1>1, <1>2, <1>3, <1>4

LEMMA RemoveHostBlockStep ==
    ASSUME DockerInv, NEW w \in DkWorker, RemoveHostBlock(w)
    PROVE  DockerInv'
  <1>. USE DockerAssumption DEF DockerInv, RemoveHostBlock, Objects, DkFine, DkFault, Done, Go, At, Idle, NoNet
  <1>1. DkTypeOK'
    BY DEF DkTypeOK, Operation, OnInstance, Container, Subnets
  <1>2. UsersKnown'
    BY DEF DkTypeOK, Operation, OnInstance, UsersKnown
  <1>3. StackKept'
    BY DEF DkTypeOK, Operation, OnInstance, Container, StackKept, Mine, Stack
  <1>4. RulesKept'
    BY DEF DkTypeOK, Operation, OnInstance, UsersKnown, RulesKept, Sole, Subnets
  <1>. QED  BY <1>1, <1>2, <1>3, <1>4

LEMMA ReapStep ==
    ASSUME DockerInv, NEW w \in DkWorker, ReapManaged(w)
    PROVE  DockerInv'
  <1>. USE DockerAssumption DEF DockerInv, ReapManaged, OwnNets, Objects, DkFine, DkFault, Done, Go, At, Idle, NoNet
  <1>1. DkTypeOK'
    BY DEF DkTypeOK, Operation, OnInstance, Container, Subnets
  <1>2. UsersKnown'
    BY DEF DkTypeOK, Operation, OnInstance, UsersKnown
  <1>3. StackKept'
    BY DEF DkTypeOK, Operation, OnInstance, Container, StackKept, Mine, Stack
  <1>4. RulesKept'
    BY DEF DkTypeOK, Operation, OnInstance, UsersKnown, RulesKept, Sole, Subnets
  <1>. QED  BY <1>1, <1>2, <1>3, <1>4

LEMMA SweepStep ==
    ASSUME DockerInv, NEW w \in DkWorker, Sweep(w)
    PROVE  DockerInv'
  <1>. USE DockerAssumption DEF DockerInv, Sweep, Orphans, Objects, DkFine, DkFault, Done, Go, At, Idle, NoNet
  <1>1. DkTypeOK'
    BY DEF DkTypeOK, Operation, OnInstance, Container, Subnets
  <1>2. UsersKnown'
    BY DEF DkTypeOK, Operation, OnInstance, UsersKnown
  <1>3. StackKept'
    BY DEF DkTypeOK, Operation, OnInstance, Container, StackKept, Mine, Stack
  <1>4. RulesKept'
    BY DEF DkTypeOK, Operation, OnInstance, UsersKnown, RulesKept, Sole, Subnets
  <1>. QED  BY <1>1, <1>2, <1>3, <1>4

LEMMA HandStep ==
    ASSUME DockerInv, NEW i \in DkInstance, RemovedByHand(i)
    PROVE  DockerInv'
  <1>. USE DockerAssumption DEF DockerInv, RemovedByHand, Objects, DkFine, DkFault, Done, Go, At, Idle, NoNet
  <1>1. DkTypeOK'
    BY DEF DkTypeOK, Operation, OnInstance, Container, Subnets
  <1>2. UsersKnown'
    BY DEF DkTypeOK, Operation, OnInstance, UsersKnown
  <1>3. StackKept'
    BY DEF DkTypeOK, Operation, OnInstance, Container, StackKept, Mine, Stack
  <1>4. RulesKept'
    BY DEF DkTypeOK, Operation, OnInstance, UsersKnown, RulesKept, Sole, Subnets
  <1>. QED  BY <1>1, <1>2, <1>3, <1>4

LEMMA RemoveNetworkStep ==
    ASSUME DockerInv, NEW w \in DkWorker, RemoveNetwork(w)
    PROVE  DockerInv'
  <1>. USE DEF DockerInv
  <1>a. UNCHANGED <<ctr, rules, dirty, users, stray>> /\ At(w, "rmnet")
    BY DEF RemoveNetwork
  <1>b. net' \in [DkInstance -> {NoNet} \cup [subnet : Subnet, wk : DkWorker]]
        /\ \A i \in DkInstance : net'[i] = net[i] \/ (i = dkOp[w].inst /\ net'[i] = NoNet)
    <2>1. CASE Attached(dkOp[w].inst)
      BY <2>1 DEF RemoveNetwork, DkTypeOK
    <2>2. CASE ~Attached(dkOp[w].inst)
      BY <2>2 DEF RemoveNetwork, DkTypeOK
    <2>. QED  BY <2>1, <2>2
  <1>c. /\ dkOp' \in [DkWorker -> Operation] /\ \A v \in DkWorker : v # w => dkOp'[v] = dkOp[v]
        /\ \/ dkOp'[w] = Idle
           \/ /\ dkOp'[w].pc = "reapnet" /\ dkOp[w].reap
              /\ dkOp'[w].reap /\ dkOp'[w].nets = dkOp[w].nets
              /\ dkOp'[w].want = dkOp[w].want /\ dkOp'[w].todo = dkOp[w].todo
    <2>1. CASE dkOp[w].reap /\ Go(w, "reapnet")
      BY <2>1, GoMoves
    <2>2. CASE Done(w)
      BY <2>2, OpMoves, IdleOp DEF Done
    <2>. QED  BY <2>1, <2>2 DEF RemoveNetwork
  <1>1. DkTypeOK'
    BY <1>a, <1>b, <1>c DEF DkTypeOK, Container
  <1>2. UsersKnown'
    BY <1>a, <1>b, <1>c DEF DkTypeOK, UsersKnown, OnInstance, Operation, Idle
  <1>3. StackKept'
    BY <1>a, <1>b, <1>c DEF StackKept, Stack, Mine, Idle, At
  <1>4. RulesKept'
    <2>. DEFINE i == dkOp[w].inst
    <2>1. i \in DkInstance /\ w \in users[i]
      BY <1>a DEF UsersKnown, OnInstance, At
    <2>2. \A j, k \in DkInstance : net'[j] # NoNet /\ net'[j].subnet = net'[k].subnet => j = k
      BY <1>b, DockerAssumption DEF DkTypeOK, RulesKept, NoNet
    <2>3. \A v \in DkWorker : dkOp'[v].pc = "rmnet" =>
             v # w /\ dkOp'[v] = dkOp[v] /\ dkOp[v].inst \in DkInstance /\ (Sole(dkOp[v].inst) => dkOp[v].inst # i)
      BY <1>a, <1>c, <2>1 DEF UsersKnown, Sole, OnInstance, Idle
    <2>4. ~stray /\ Sole(i) => net[i].subnet \notin rules
      BY <1>a DEF RulesKept, At
    <2>5. \A s \in Subnets : s = net[i].subnet \/ s \in Subnets'
      BY <1>b DEF Subnets
    <2>6. RulesKept!1'
      BY <2>2
    <2>7. RulesKept!2'
      BY <1>a, <1>b, <2>3 DEF RulesKept, Sole
    <2>8. RulesKept!3'
      BY <1>a, <2>1, <2>4, <2>5 DEF RulesKept, Sole
    <2>. QED  BY <2>6, <2>7, <2>8 DEF RulesKept
  <1>. QED  BY <1>1, <1>2, <1>3, <1>4

LEMMA EnsureNetworkStep ==
    ASSUME DockerInv, NEW w \in DkWorker, EnsureNetwork(w)
    PROVE  DockerInv'
  <1>. USE DEF DockerInv
  <1>a. UNCHANGED <<ctr, rules, dirty, users, stray>> /\ dkOp[w].pc = "net" /\ dkOp[w] \in Operation
        /\ dkOp[w].inst \in DkInstance
    BY DEF EnsureNetwork, At, DkTypeOK, UsersKnown, OnInstance
  <1>. DEFINE i == dkOp[w].inst
  <1>b. /\ net' \in [DkInstance -> {NoNet} \cup [subnet : Subnet, wk : DkWorker]]
        /\ \A j \in DkInstance : j # i => net'[j] = net[j]
        /\ \/ net'[i] = net[i]
           \/ /\ net[i] = NoNet /\ net'[i].wk = w
              /\ net'[i].subnet \in Subnet /\ net'[i].subnet \notin Subnets
    <2>1. CASE net' = net
      BY <2>1 DEF DkTypeOK
    <2>2. ASSUME NEW s \in Subnet \ Subnets, net[i] = NoNet, net' = [net EXCEPT ![i] = [subnet |-> s, wk |-> w]]
          PROVE  <1>b
      <3>1. [subnet |-> s, wk |-> w] \in [subnet : Subnet, wk : DkWorker]
        OBVIOUS
      <3>. QED  BY <1>a, <2>2, <3>1 DEF DkTypeOK
    <2>. QED  BY <2>1, <2>2 DEF EnsureNetwork
  <1>c. /\ dkOp' \in [DkWorker -> Operation] /\ \A v \in DkWorker : v # w => dkOp'[v] = dkOp[v]
        /\ dkOp'[w].pc = "block" /\ dkOp'[w].inst = dkOp[w].inst /\ dkOp'[w].nets = dkOp[w].nets
        /\ dkOp'[w].want = dkOp[w].want /\ dkOp'[w].todo = dkOp[w].todo /\ dkOp'[w].reap = dkOp[w].reap
    <2>1. CASE Go(w, "block")
      BY <2>1, GoMoves DEF OnInstance
    <2>2. CASE dkOp' = [dkOp EXCEPT ![w].pc = "block", ![w].made = TRUE]
      <3>. DEFINE nxt == [dkOp[w] EXCEPT !.pc = "block", !.made = TRUE]
      <3>1. nxt \in Operation /\ nxt.pc = "block" /\ nxt.inst = dkOp[w].inst /\ nxt.nets = dkOp[w].nets
            /\ nxt.want = dkOp[w].want /\ nxt.todo = dkOp[w].todo /\ nxt.reap = dkOp[w].reap
        BY <1>a DEF Operation, OnInstance
      <3>2. dkOp' = [dkOp EXCEPT ![w] = nxt]
        BY <2>2
      <3>. HIDE DEF nxt
      <3>. QED  BY <3>1, <3>2, OpMoves
    <2>. QED  BY <2>1, <2>2 DEF EnsureNetwork
  <1>1. DkTypeOK'
    BY <1>a, <1>b, <1>c DEF DkTypeOK, Container
  <1>2. UsersKnown'
    BY <1>a, <1>b, <1>c DEF DkTypeOK, UsersKnown, OnInstance, Operation
  <1>3. StackKept'
    BY <1>a, <1>c DEF StackKept, Stack, Mine
  <1>4. RulesKept'
    <2>1. \A j \in DkInstance : net[j].subnet # 0 => net[j].subnet \in Subnets
      BY DEF Subnets
    <2>2. \A j, k \in DkInstance : net'[j] # NoNet /\ net'[j].subnet = net'[k].subnet => j = k
      BY <1>b, <2>1, DockerAssumption DEF DkTypeOK, RulesKept, NoNet
    <2>3. \A v \in DkWorker : dkOp'[v].pc = "rmnet" =>
             v # w /\ dkOp'[v] = dkOp[v] /\ dkOp[v].inst \in DkInstance /\ (Sole(dkOp[v].inst) => dkOp[v].inst # i)
      BY <1>a, <1>c DEF UsersKnown, Sole, OnInstance
    <2>4. Subnets \subseteq Subnets'
      BY <1>b DEF Subnets, NoNet
    <2>6. RulesKept!1'
      BY <2>2
    <2>7. RulesKept!2'
      BY <1>a, <1>b, <2>3 DEF RulesKept, Sole
    <2>8. RulesKept!3'
      BY <1>a, <2>4 DEF RulesKept, Sole
    <2>. QED  BY <2>6, <2>7, <2>8 DEF RulesKept
  <1>. QED  BY <1>1, <1>2, <1>3, <1>4

LEMMA InstallStep ==
    ASSUME DockerInv, NEW w \in DkWorker, InstallHostBlock(w)
    PROVE  DockerInv'
  <1>. USE DEF DockerInv
  <1>a. UNCHANGED <<ctr, net, dirty, users, stray>> /\ dkOp[w].pc = "block" /\ dkOp[w] \in Operation
        /\ dkOp[w].inst \in DkInstance /\ dkOp[w].todo = dkOp[w].want
    BY DEF InstallHostBlock, At, DkTypeOK, UsersKnown, OnInstance, StackKept
  <1>b. \/ rules' = rules
        \/ net[dkOp[w].inst] # NoNet /\ rules' = rules \cup {net[dkOp[w].inst].subnet}
    BY DEF InstallHostBlock
  <1>c. /\ dkOp' \in [DkWorker -> Operation] /\ \A v \in DkWorker : v # w => dkOp'[v] = dkOp[v]
        /\ \/ dkOp'[w] = Idle
           \/ /\ dkOp'[w].pc \in {"run", "unblock"} /\ dkOp'[w].inst = dkOp[w].inst /\ dkOp'[w].nets = dkOp[w].nets
              /\ dkOp'[w].want = dkOp[w].want /\ dkOp'[w].todo = dkOp[w].todo /\ dkOp'[w].reap = dkOp[w].reap
    <2>1. CASE \E pc \in {"run", "unblock"} : Go(w, pc)
      BY <2>1, GoMoves DEF OnInstance
    <2>2. CASE Done(w)
      BY <2>2, OpMoves, IdleOp DEF Done
    <2>. QED  BY <2>1, <2>2 DEF InstallHostBlock
  <1>1. DkTypeOK'
    BY <1>a, <1>b, <1>c DEF DkTypeOK, Container
  <1>2. UsersKnown'
    BY <1>a, <1>b, <1>c DEF DkTypeOK, UsersKnown, OnInstance, Operation, Idle
  <1>3. StackKept'
    BY <1>a, <1>c DEF StackKept, Stack, Mine, Idle
  <1>4. RulesKept'
    BY <1>a, <1>b, <1>c, DockerAssumption DEF DkTypeOK, UsersKnown, RulesKept, Sole, Subnets, NoNet, OnInstance, Idle
  <1>. QED  BY <1>1, <1>2, <1>3, <1>4

LEMMA ExitStep ==
    ASSUME DockerInv, NEW c \in ctr, ContainerExits(c)
    PROVE  DockerInv'
  <1>. USE DEF DockerInv
  <1>a. UNCHANGED <<net, rules, dkOp, dirty, users, stray>>
    BY DEF ContainerExits
  <1>. DEFINE d == [c EXCEPT !.up = FALSE]
  <1>b. ctr' = (ctr \ {c}) \cup {d}
    BY DEF ContainerExits
  <1>c. /\ d.inst = c.inst /\ d.wk = c.wk /\ d.svc = c.svc
        /\ d \in [inst : DkInstance, wk : DkWorker, svc : {d.svc}, up : BOOLEAN, net : BOOLEAN]
    BY DEF DkTypeOK, Container
  <1>. HIDE DEF d
  <1>1. DkTypeOK'
    BY <1>a, <1>b, <1>c DEF DkTypeOK, Container
  <1>2. UsersKnown'
    BY <1>a DEF UsersKnown
  <1>3. StackKept'
    <2>1. \A w, i : {e.svc : e \in Mine(w, i)'} = {e.svc : e \in Mine(w, i)} /\ (Mine(w, i) = {} => Mine(w, i)' = {})
      BY <1>b, <1>c DEF Mine
    <2>. QED  BY <1>a, <2>1 DEF StackKept, Stack
  <1>4. RulesKept'
    BY <1>a DEF RulesKept, Sole, Subnets
  <1>. QED  BY <1>1, <1>2, <1>3, <1>4

LEMMA RunStep ==
    ASSUME DockerInv, NEW w \in DkWorker, RunService(w)
    PROVE  DockerInv'
  <1>. USE DEF DockerInv
  <1>0. PICK i \in DkInstance : i = dkOp[w].inst
    BY DEF RunService, At, UsersKnown, OnInstance
  <1>. DEFINE s == NextService(w)
              born == [inst |-> i, wk |-> w, svc |-> s, up |-> TRUE, net |-> dkOp[w].mode # "none"]
  <1>a. UNCHANGED <<net, rules, dirty, users, stray>> /\ dkOp[w].pc = "run" /\ dkOp[w] \in Operation
        /\ dkOp[w].inst \in DkInstance
    BY DEF RunService, At, DkTypeOK, UsersKnown, OnInstance
  <1>b. ctr' \in {ctr, ctr \cup {born}}
    BY <1>0 DEF RunService
  <1>c. /\ dkOp' \in [DkWorker -> Operation] /\ \A v \in DkWorker : v # w => dkOp'[v] = dkOp[v]
        /\ \/ dkOp'[w] = Idle
           \/ /\ dkOp'[w].pc \in {"remove", "unblock"} /\ (dkOp'[w].pc = "unblock" => ~Stack(w))
              /\ dkOp'[w].inst = i /\ dkOp'[w].nets = dkOp[w].nets
              /\ dkOp'[w].want = dkOp[w].want /\ dkOp'[w].todo = dkOp[w].todo /\ dkOp'[w].reap = dkOp[w].reap
           \/ /\ dkOp'[w].pc \in {"run", "settle", "launched"} /\ ctr' = ctr \cup {born}
              /\ dkOp'[w].pc # "run" => dkOp[w].todo = {s}
              /\ dkOp'[w].inst = i /\ dkOp'[w].nets = dkOp[w].nets
              /\ dkOp'[w].want = dkOp[w].want /\ dkOp'[w].todo = dkOp[w].todo \ {s} /\ dkOp'[w].reap = dkOp[w].reap
    <2>1. CASE \E pc \in {"remove", "unblock"} : Go(w, pc) /\ (pc = "unblock" => ~Stack(w))
      BY <1>0, <2>1, GoMoves DEF OnInstance
    <2>2. CASE Done(w)
      BY <2>2, OpMoves, IdleOp DEF Done
    <2>3. CASE \E pc \in {"run", "settle", "launched"} :
                 /\ dkOp' = [dkOp EXCEPT ![w].todo = @ \ {s}, ![w].pc = pc]
                 /\ (pc # "run" => dkOp[w].todo = {s}) /\ ctr' = ctr \cup {born}
      <3>1. PICK pc \in {"run", "settle", "launched"} :
                 /\ dkOp' = [dkOp EXCEPT ![w].todo = @ \ {s}, ![w].pc = pc]
                 /\ (pc # "run" => dkOp[w].todo = {s}) /\ ctr' = ctr \cup {born}
        BY <2>3
      <3>. DEFINE nxt == [dkOp[w] EXCEPT !.todo = @ \ {s}, !.pc = pc]
      <3>2. nxt \in Operation /\ nxt.pc = pc /\ nxt.inst = i /\ nxt.nets = dkOp[w].nets
            /\ nxt.want = dkOp[w].want /\ nxt.todo = dkOp[w].todo \ {s} /\ nxt.reap = dkOp[w].reap
        BY <1>0, <1>a DEF Operation, OnInstance
      <3>3. dkOp' = [dkOp EXCEPT ![w] = nxt]
        BY <3>1
      <3>. HIDE DEF nxt, s, born
      <3>. QED  BY <3>1, <3>2, <3>3, OpMoves
    <2>. HIDE DEF s, born
    <2>. QED  BY <2>1, <2>2, <2>3, <1>0 DEF RunService, AfterFailedRun, AfterTimeout, Leave, s, born
  <1>. HIDE DEF s
  <1>1. DkTypeOK'
    <2>1. born \in [inst : DkInstance, wk : DkWorker, svc : {born.svc}, up : BOOLEAN, net : BOOLEAN]
      OBVIOUS
    <2>. HIDE DEF born
    <2>. QED  BY <1>a, <1>b, <1>c, <2>1 DEF DkTypeOK, Container
  <1>2. UsersKnown'
    BY <1>0, <1>a, <1>c DEF DkTypeOK, UsersKnown, OnInstance, Operation, Idle
  <1>3. StackKept'
    <2>1. /\ \A v \in DkWorker, j \in DkInstance : {c.svc : c \in Mine(v, j)} \subseteq {c.svc : c \in Mine(v, j)'}
          /\ \A v \in DkWorker : \A j : v # w => Mine(v, j)' = Mine(v, j)
          /\ ctr' = ctr \cup {born} => s \in {c.svc : c \in Mine(w, i)'}
      <3>1. ctr \subseteq ctr'
        BY <1>b
      <3>2. born.wk = w /\ born.inst = i /\ born.svc = s
        OBVIOUS
      <3>. HIDE DEF born
      <3>3. ctr' = ctr \cup {born} => s \in {c.svc : c \in Mine(w, i)'}
        <4>1. ctr' = ctr \cup {born} => born \in Mine(w, i)'
          BY <3>2 DEF Mine
        <4>. QED  BY <3>2, <4>1
      <3>4. \A v \in DkWorker : \A j : v # w => Mine(v, j)' = Mine(v, j)
        BY <1>b, <3>2 DEF Mine
      <3>. QED  BY <3>1, <3>3, <3>4 DEF Mine
    <2>2. ASSUME NEW v \in DkWorker, v # w PROVE StackKept!(v)'
      BY <1>a, <1>c, <2>1, <2>2 DEF StackKept, Stack
    <2>3. StackKept!(w)'
      <3>1. CASE dkOp'[w] = Idle
        BY <3>1 DEF Idle
      <3>2. CASE dkOp'[w].pc \in {"remove", "unblock"} /\ (dkOp'[w].pc = "unblock" => ~Stack(w))
                 /\ dkOp'[w].want = dkOp[w].want /\ dkOp'[w].todo = dkOp[w].todo /\ dkOp'[w].reap = dkOp[w].reap
        BY <1>a, <3>2 DEF StackKept, Stack
      <3>3. CASE /\ dkOp'[w].pc \in {"run", "settle", "launched"} /\ ctr' = ctr \cup {born}
                 /\ dkOp'[w].pc # "run" => dkOp[w].todo = {s}
                 /\ dkOp'[w].inst = i
                 /\ dkOp'[w].want = dkOp[w].want /\ dkOp'[w].todo = dkOp[w].todo \ {s} /\ dkOp'[w].reap = dkOp[w].reap
        <4>1. dkOp[w].want \ dkOp[w].todo \subseteq {c.svc : c \in Mine(w, i)'}
          BY <1>0, <1>a, <2>1 DEF StackKept
        <4>2. dkOp'[w].want \ dkOp'[w].todo \subseteq {c.svc : c \in Mine(w, dkOp[w].inst)}'
          BY <1>0, <2>1, <3>3, <4>1
        <4>3. ~dkOp[w].reap
          BY <1>a DEF StackKept
        <4>4. dkOp'[w].reap => dkOp'[w].todo = dkOp'[w].want
          BY <1>a, <3>3, <4>3 DEF StackKept
        <4>. QED  BY <3>3, <4>2, <4>4, <4>3
      <3>. QED  BY <1>c, <3>1, <3>2, <3>3
    <2>. QED  BY <2>2, <2>3 DEF StackKept
  <1>4. RulesKept'
    BY <1>0, <1>a, <1>c, DockerAssumption DEF DkTypeOK, UsersKnown, RulesKept, Sole, Subnets, NoNet, OnInstance, Idle
  <1>. QED  BY <1>1, <1>2, <1>3, <1>4

LEMMA DockerStep == DockerInv /\ [DkNext]_dkVars => DockerInv'
  <1>. SUFFICES ASSUME DockerInv, [DkNext]_dkVars PROVE DockerInv'
    OBVIOUS
  <1>1. CASE UNCHANGED dkVars
    BY <1>1 DEF dkVars, DockerInv, DkTypeOK, UsersKnown, StackKept, RulesKept, Container, Mine, Stack, Sole, Subnets
  <1>. QED  BY <1>1, BeginStep, WorkerOnStep, EnsureNetworkStep, InstallStep, RunStep, RemoveContainersStep,
              RemoveHostBlockStep, RemoveNetworkStep, ReapStep, SweepStep, ExitStep, HandStep DEF DkNext

THEOREM DockerInvariant == DkSpec => []DockerInv
  BY DockerStart, DockerStep, PTL DEF DkSpec

\* A stack is launched with all its services, and one whose launch failed is
\* removed with all of them; a rule without a network is left only where two
\* workers handled one instance, or after what the sweep is there for.
THEOREM DockerSafeHolds == DkSpec => []DockerSafe
  <1>1. DockerInv => AllOrNothing
    BY DEF DockerInv, StackKept, AllOrNothing
  <1>2. DockerInv => NoRuleLeaks
    BY SoleUser DEF DockerInv, RulesKept, NoRuleLeaks
  <1>. QED  BY <1>1, <1>2, DockerInvariant, PTL DEF DockerSafe

\* No worker takes a container away that another worker of the host started.
THEOREM PeersUntouchedHolds == DkSpec => PeersUntouched
  <1>1. ASSUME DockerInv, [DkNext]_dkVars
        PROVE  \A w \in DkWorker : dkOp'[w] # dkOp[w] => \A c \in ctr \ ctr' : c.wk = w
    <2>. SUFFICES ASSUME NEW v \in DkWorker, dkOp'[v] # dkOp[v], NEW c \in ctr, c \notin ctr' PROVE c.wk = v
      OBVIOUS
    <2>1. dkOp \in [DkWorker -> Operation]
      BY <1>1 DEF DockerInv, DkTypeOK
    <2>2. PICK w \in DkWorker : RemoveContainers(w) \/ ReapManaged(w)
      BY <1>1 DEF DkNext, dkVars, Launch, Remove, EnsureNetwork, InstallHostBlock, RunService, Settle, DkReport,
         RemoveHostBlock, RemoveNetwork, ReapNetwork, Sweep, Reaped, DkDies, ContainerExits, RemovedByHand, Objects
    <2>3. v = w
      BY <2>1, <2>2 DEF RemoveContainers, ReapManaged, Go
    <2>. QED  BY <2>2, <2>3 DEF RemoveContainers, ReapManaged, Labelled, Mine
  <1>. QED  BY <1>1, DockerInvariant, PTL DEF DkSpec, PeersUntouched
=============================================================================
