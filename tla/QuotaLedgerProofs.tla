------------------------- MODULE QuotaLedgerProofs -------------------------
(* Theorems about QuotaLedger: the counters never drift from what is held  *)
(* and never exceed their limits, for every set of reservations, workers   *)
(* and pools and every amount.                                             *)
EXTENDS QuotaLedger, FiniteSetTheorems, TLAPS

-----------------------------------------------------------------------------
(* Counting units. *)

\* The units of the reservations in H, f[r] for each.
Units(H, f) == UNION {{r} \X (1 .. f[r]) : r \in H}

\* A reservation of n units has n units.
LEMMA UnitsOfOne ==
    ASSUME NEW r, NEW n \in Nat
    PROVE  /\ IsFiniteSet({r} \X (1 .. n))
           /\ Cardinality({r} \X (1 .. n)) = n
  <1>1. IsFiniteSet({r}) /\ Cardinality({r}) = 1
    BY FS_Singleton
  <1>2. IsFiniteSet(1 .. n) /\ Cardinality(1 .. n) = n
    BY FS_Interval
  <1>3. /\ IsFiniteSet({r} \X (1 .. n))
        /\ Cardinality({r} \X (1 .. n)) = Cardinality({r}) * Cardinality(1 .. n)
    BY <1>1, <1>2, FS_Product, Zenon
  <1>. QED  BY <1>1, <1>2, <1>3

\* Disjoint finite sets add up.
LEMMA DisjointUnion ==
    ASSUME NEW S, IsFiniteSet(S), NEW T, IsFiniteSet(T), S \cap T = {}
    PROVE  /\ IsFiniteSet(S \cup T)
           /\ Cardinality(S \cup T) = Cardinality(S) + Cardinality(T)
  <1>. DEFINE s == Cardinality(S)
              t == Cardinality(T)
              both == Cardinality(S \cup T)
  <1>1. s \in Nat /\ t \in Nat
    BY FS_CardinalityType
  <1>2. IsFiniteSet(S \cup T) /\ both = s + t - Cardinality(S \cap T)
    BY FS_Union, Zenon
  <1>3. Cardinality(S \cap T) = 0
    BY FS_EmptySet, Zenon
  <1>4. both = s + t - 0
    BY <1>2, <1>3, Zenon
  <1>. HIDE DEF s, t, both
  <1>5. both = s + t
    BY <1>1, <1>4
  <1>. QED  BY <1>2, <1>5, Zenon DEF s, t, both

\* One more reservation adds exactly its units.
LEMMA AddUnits ==
    ASSUME NEW H, NEW r, r \notin H, NEW f, f[r] \in Nat, IsFiniteSet(Units(H, f))
    PROVE  /\ IsFiniteSet(Units(H \cup {r}, f))
           /\ Cardinality(Units(H \cup {r}, f)) = Cardinality(Units(H, f)) + f[r]
  <1>. DEFINE old == Units(H, f)
              new == {r} \X (1 .. f[r])
  <1>1. Units(H \cup {r}, f) = old \cup new
    BY DEF Units
  <1>2. old \cap new = {}
    BY DEF Units
  <1>3. IsFiniteSet(new) /\ Cardinality(new) = f[r]
    BY UnitsOfOne
  <1>4. IsFiniteSet(old \cup new) /\ Cardinality(old \cup new) = Cardinality(old) + Cardinality(new)
    BY <1>2, <1>3, DisjointUnion, Zenon
  <1>. HIDE DEF old, new
  <1>5. IsFiniteSet(old \cup new) /\ Cardinality(old \cup new) = Cardinality(old) + f[r]
    BY <1>3, <1>4, Zenon
  <1>. QED  BY <1>1, <1>5, Zenon DEF old

\* One reservation less takes away exactly its units.
LEMMA RemoveUnits ==
    ASSUME NEW H, NEW r \in H, NEW f, f[r] \in Nat, IsFiniteSet(Units(H, f))
    PROVE  /\ IsFiniteSet(Units(H \ {r}, f))
           /\ Cardinality(Units(H \ {r}, f)) = Cardinality(Units(H, f)) - f[r]
           /\ Cardinality(Units(H \ {r}, f)) \in Nat
  <1>. DEFINE rest == H \ {r}
              all  == Cardinality(Units(H, f))
              left == Cardinality(Units(rest, f))
  <1>1. Units(rest, f) \subseteq Units(H, f)
    BY DEF Units
  <1>2. IsFiniteSet(Units(rest, f))
    BY <1>1, FS_Subset
  <1>3. rest \cup {r} = H /\ r \notin rest
    OBVIOUS
  <1>4. left \in Nat
    BY <1>2, FS_CardinalityType
  <1>. HIDE DEF rest
  <1>5. all = left + f[r]
    <2>1. Cardinality(Units(rest \cup {r}, f)) = Cardinality(Units(rest, f)) + f[r]
      BY <1>2, <1>3, AddUnits, Zenon
    <2>. QED  BY <1>3, <2>1, Zenon
  <1>. HIDE DEF all, left
  <1>6. left = all - f[r]
    BY <1>4, <1>5
  <1>. QED  BY <1>2, <1>4, <1>6, Zenon DEF all, left, rest

\* What each reservation holds of counter q.
Share(q) == [r \in Res |-> Amount(r, place[r], q)]

LEMMA HeldUnitsAre == \A q \in Quota : HeldUnits(q) = Units(Held, Share(q))
  BY DEF HeldUnits, Units, Held, Share

\* An item is a natural number of units.
LEMMA AmountType == \A r \in Res, q \in Quota : \A w : Amount(r, w, q) \in Nat
  BY QuotaAssumption DEF Amount, Quota

-----------------------------------------------------------------------------
(* Types. *)

\* upsert_limit keeps the type of the limits, and never changes a limit that
\* is there.
LEMMA SeededType ==
    ASSUME LedgerTypeOK, NEW w \in Worker
    PROVE  /\ Seeded(w) \in [Quota -> Nat \cup {NoRow}]
           /\ \A q \in Quota : limit[q] # NoRow => Seeded(w)[q] = limit[q]
           /\ \A q \in Quota : q # w => Seeded(w)[q] = limit[q]
  BY QuotaAssumption DEF LedgerTypeOK, Seeded, NoRow, Quota

LEMMA LedgerTypeStep == LedgerTypeOK /\ [LedgerNext]_ledgerVars
                        /\ (\A q \in Quota : IsFiniteSet(HeldUnits(q))) => LedgerTypeOK'
  <1>. SUFFICES ASSUME LedgerTypeOK, [LedgerNext]_ledgerVars,
                       \A q \in Quota : IsFiniteSet(HeldUnits(q))
                PROVE  LedgerTypeOK'
    OBVIOUS
  <1>. USE QuotaAssumption DEF LedgerTypeOK
  <1>1. ASSUME NEW w \in Worker, EnsureCapacity(w) PROVE LedgerTypeOK'
    BY <1>1, SeededType DEF EnsureCapacity
  <1>2. ASSUME NEW r \in Res, NEW w \in Worker, Reserve(r, w) PROVE LedgerTypeOK'
    <2>1. used' \in [Quota -> Nat]
      BY <1>2, AmountType DEF Reserve, HoldItems
    <2>. QED  BY <1>2, <2>1, SeededType DEF Reserve
  <1>3. ASSUME NEW r \in Res, Reactivate(r) PROVE LedgerTypeOK'
    <2>1. used' \in [Quota -> Nat]
      BY <1>3, AmountType DEF Reactivate, HoldItems
    <2>. QED  BY <1>3, <2>1 DEF Reactivate
  <1>4. ASSUME NEW r \in Res, Renew(r) PROVE LedgerTypeOK'
    BY <1>4 DEF Renew
  <1>5. ASSUME NEW r \in Res, Release(r) PROVE LedgerTypeOK'
    <2>1. used' \in [Quota -> Nat]
      BY <1>5, AmountType DEF Release
    <2>. QED  BY <1>5, <2>1 DEF Release
  <1>6. ASSUME NEW r \in Res, Lapse(r) PROVE LedgerTypeOK'
    BY <1>6 DEF Lapse
  <1>7. CASE ReconcileCounters
    <2>1. \A q \in Quota : Cardinality(HeldUnits(q)) \in Nat
      BY FS_CardinalityType
    <2>. QED  BY <1>7, <2>1 DEF ReconcileCounters
  <1>8. CASE UNCHANGED ledgerVars
    BY <1>8 DEF ledgerVars
  <1>. QED  BY <1>1, <1>2, <1>3, <1>4, <1>5, <1>6, <1>7, <1>8 DEF LedgerNext

-----------------------------------------------------------------------------
(* The inductive invariant. *)

\* Conserved says something of a counter only while its units can be counted.
Countable == \A q \in Quota : IsFiniteSet(HeldUnits(q))

LedgerInv == LedgerTypeOK /\ Countable /\ Conserved /\ NoOvercommit

\* The state a step must reach for the counters to be right again.
Balanced(q) == IsFiniteSet(HeldUnits(q)) /\ used[q] = Cardinality(HeldUnits(q))

\* Holding a reservation that was not held keeps every counter right.
LEMMA HoldBalanced ==
    ASSUME LedgerInv, NEW r \in Res, NEW w \in Worker, hold[r] # "held",
           hold' = [hold EXCEPT ![r] = "held"],
           place' = [place EXCEPT ![r] = w], HoldItems(r, w), NEW q \in Quota
    PROVE  Balanced(q)'
  <1>1. Held' = Held \cup {r} /\ r \notin Held
    BY DEF Held, LedgerInv, LedgerTypeOK
  <1>2. \A x \in Held : Share(q)'[x] = Share(q)[x]
    BY <1>1 DEF Share, Held, LedgerInv, LedgerTypeOK
  <1>3. Share(q)'[r] = Amount(r, w, q)
    BY DEF Share, LedgerInv, LedgerTypeOK
  <1>4. Share(q)'[r] \in Nat
    BY <1>3, AmountType
  <1>5. HeldUnits(q) = Units(Held, Share(q))
    BY HeldUnitsAre
  <1>6. HeldUnits(q)' = Units(Held', Share(q)')
    BY DEF HeldUnits, Units, Held, Share
  <1>7. /\ IsFiniteSet(HeldUnits(q)')
        /\ Cardinality(HeldUnits(q)') = Cardinality(HeldUnits(q)) + Share(q)'[r]
    <2>1. Units(Held, Share(q)') = HeldUnits(q)
      BY <1>2, <1>5 DEF Units
    <2>2. IsFiniteSet(Units(Held, Share(q)'))
      BY <2>1 DEF LedgerInv, Countable
    <2>3. /\ IsFiniteSet(Units(Held \cup {r}, Share(q)'))
          /\ Cardinality(Units(Held \cup {r}, Share(q)'))
               = Cardinality(Units(Held, Share(q)')) + Share(q)'[r]
      BY <1>1, <1>4, <2>2, AddUnits, Zenon
    <2>. QED  BY <1>1, <1>6, <2>1, <2>3, Zenon
  <1>8. used'[q] = used[q] + Amount(r, w, q)
    BY DEF HoldItems
  <1>. QED  BY <1>3, <1>7, <1>8 DEF Balanced, LedgerInv, Conserved

\* Releasing a held reservation keeps every counter right: max(.., 0) has
\* nothing to cut off.
LEMMA ReleaseBalanced ==
    ASSUME LedgerInv, NEW r \in Res, Release(r), NEW q \in Quota
    PROVE  Balanced(q)' /\ used'[q] <= used[q]
  <1>1. Held' = Held \ {r} /\ r \in Held
    BY DEF Held, LedgerInv, LedgerTypeOK, Release
  <1>2. Share(q)' = Share(q) /\ Share(q)[r] = Amount(r, place[r], q)
    BY DEF Share, Release
  <1>3. Share(q)[r] \in Nat
    BY <1>2, AmountType
  <1>4. HeldUnits(q) = Units(Held, Share(q))
    BY HeldUnitsAre
  <1>5. HeldUnits(q)' = Units(Held \ {r}, Share(q))
    <2>1. HeldUnits(q)' = Units(Held', Share(q)')
      BY DEF HeldUnits, Units, Held, Share
    <2>. QED  BY <1>1, <1>2, <2>1
  <1>6. /\ IsFiniteSet(HeldUnits(q)')
        /\ Cardinality(HeldUnits(q)') = Cardinality(HeldUnits(q)) - Share(q)[r]
        /\ Cardinality(HeldUnits(q)') \in Nat
    <2>1. IsFiniteSet(Units(Held, Share(q)))
      BY <1>4 DEF LedgerInv, Countable
    <2>. QED  BY <1>1, <1>3, <1>4, <1>5, <2>1, RemoveUnits
  <1>7. used[q] = Cardinality(HeldUnits(q)) /\ used[q] \in Nat
    BY DEF LedgerInv, Conserved, LedgerTypeOK
  <1>8. used'[q] = LET left == used[q] - Amount(r, place[r], q)
                   IN  IF left > 0 THEN left ELSE 0
    BY DEF Release
  <1>. QED  BY <1>2, <1>3, <1>6, <1>7, <1>8 DEF Balanced

LEMMA LedgerStep == LedgerInv /\ [LedgerNext]_ledgerVars => LedgerInv'
  <1>. SUFFICES ASSUME LedgerInv, [LedgerNext]_ledgerVars PROVE LedgerInv'
    OBVIOUS
  <1>0. LedgerTypeOK'
    BY LedgerTypeStep DEF LedgerInv, Countable
  <1>. SUFFICES (\A q \in Quota : Balanced(q)') /\ NoOvercommit'
    BY <1>0 DEF LedgerInv, Balanced, Countable, Conserved
  <1>a. ASSUME UNCHANGED <<hold, place>>
        PROVE  \A q \in Quota : HeldUnits(q)' = HeldUnits(q)
    BY <1>a DEF HeldUnits, Held
  <1>1. ASSUME NEW w \in Worker, EnsureCapacity(w)
        PROVE  (\A q \in Quota : Balanced(q)') /\ NoOvercommit'
    <2>1. \A q \in Quota : Balanced(q)'
      BY <1>1, <1>a DEF EnsureCapacity, Balanced, LedgerInv, Countable, Conserved
    <2>2. NoOvercommit'
      BY <1>1, SeededType, QuotaAssumption
      DEF EnsureCapacity, LedgerInv, NoOvercommit, LedgerTypeOK, Seeded, NoRow, Quota
    <2>. QED  BY <2>1, <2>2
  <1>2. ASSUME NEW r \in Res, NEW w \in Worker, Reserve(r, w)
        PROVE  (\A q \in Quota : Balanced(q)') /\ NoOvercommit'
    <2>1. \A q \in Quota : Balanced(q)'
      BY <1>2, HoldBalanced DEF Reserve
    <2>2. ASSUME NEW q \in Quota
          PROVE  IF limit'[q] = NoRow THEN used'[q] = 0 ELSE used'[q] <= limit'[q]
      <3>1. /\ Amount(r, w, q) \in Nat
            /\ used[q] \in Nat
            /\ limit'[q] = Seeded(w)[q]
            /\ used'[q] = used[q] + Amount(r, w, q)
            /\ Fits(r, w, q, Seeded(w))
        BY <1>2, <2>2, AmountType DEF Reserve, HoldItems, LedgerInv, LedgerTypeOK
      <3>2. IF limit[q] = NoRow THEN used[q] = 0 ELSE used[q] <= limit[q]
        BY <2>2 DEF LedgerInv, NoOvercommit
      <3>3. Seeded(w)[q] \in Nat \cup {NoRow} /\ (limit[q] # NoRow => Seeded(w)[q] = limit[q])
        BY <2>2, SeededType DEF LedgerInv
      <3>. QED  BY <3>1, <3>2, <3>3 DEF Fits, NoRow
    <2>. QED  BY <2>1, <2>2 DEF NoOvercommit
  <1>3. ASSUME NEW r \in Res, Reactivate(r)
        PROVE  (\A q \in Quota : Balanced(q)') /\ NoOvercommit'
    <2>1. place[r] \in Worker /\ place' = [place EXCEPT ![r] = place[r]]
      BY <1>3, QuotaAssumption DEF Reactivate, LedgerInv, LedgerTypeOK
    <2>2. \A q \in Quota : Balanced(q)'
      BY <1>3, <2>1, HoldBalanced DEF Reactivate
    <2>3. ASSUME NEW q \in Quota
          PROVE  IF limit'[q] = NoRow THEN used'[q] = 0 ELSE used'[q] <= limit'[q]
      <3>1. /\ Amount(r, place[r], q) \in Nat
            /\ used[q] \in Nat
            /\ limit'[q] = limit[q]
            /\ used'[q] = used[q] + Amount(r, place[r], q)
            /\ Fits(r, place[r], q, limit)
        BY <1>3, <2>3, AmountType DEF Reactivate, HoldItems, LedgerInv, LedgerTypeOK
      <3>2. IF limit[q] = NoRow THEN used[q] = 0 ELSE used[q] <= limit[q]
        BY <2>3 DEF LedgerInv, NoOvercommit
      <3>. QED  BY <3>1, <3>2 DEF Fits
    <2>. QED  BY <2>2, <2>3 DEF NoOvercommit
  <1>4. ASSUME NEW r \in Res, Renew(r)
        PROVE  (\A q \in Quota : Balanced(q)') /\ NoOvercommit'
    BY <1>4, <1>a DEF Renew, Balanced, LedgerInv, Countable, Conserved, NoOvercommit
  <1>5. ASSUME NEW r \in Res, Release(r)
        PROVE  (\A q \in Quota : Balanced(q)') /\ NoOvercommit'
    <2>1. \A q \in Quota : Balanced(q)' /\ used'[q] <= used[q]
      BY <1>5, ReleaseBalanced
    <2>2. used' \in [Quota -> Nat] /\ used \in [Quota -> Nat]
          /\ limit \in [Quota -> Nat \cup {NoRow}] /\ limit' = limit
      BY <1>0, <1>5 DEF LedgerInv, LedgerTypeOK, Release
    <2>. QED  BY <2>1, <2>2 DEF LedgerInv, NoOvercommit, NoRow
  <1>6. ASSUME NEW r \in Res, Lapse(r)
        PROVE  (\A q \in Quota : Balanced(q)') /\ NoOvercommit'
    BY <1>6, <1>a DEF Lapse, Balanced, LedgerInv, Countable, Conserved, NoOvercommit
  <1>7. CASE ReconcileCounters
    <2>1. \A q \in Quota : used'[q] = used[q] /\ limit'[q] = limit[q]
      BY <1>7 DEF ReconcileCounters, LedgerInv, Conserved
    <2>2. \A q \in Quota : Balanced(q)'
      BY <1>7, <1>a, <2>1 DEF ReconcileCounters, Balanced, LedgerInv, Countable, Conserved
    <2>. QED  BY <2>1, <2>2 DEF LedgerInv, NoOvercommit
  <1>8. CASE UNCHANGED ledgerVars
    BY <1>8, <1>a DEF ledgerVars, Balanced, LedgerInv, Countable, Conserved, NoOvercommit
  <1>. QED  BY <1>1, <1>2, <1>3, <1>4, <1>5, <1>6, <1>7, <1>8 DEF LedgerNext

\* The empty ledger is in order.
LEMMA LedgerStart == LedgerInit => LedgerInv
  <1>. SUFFICES ASSUME LedgerInit PROVE LedgerInv
    OBVIOUS
  <1>1. LedgerTypeOK
    BY QuotaAssumption DEF LedgerInit, LedgerTypeOK, Quota
  <1>2. \A q \in Quota : HeldUnits(q) = {}
    BY DEF LedgerInit, HeldUnits, Held
  <1>3. Countable /\ Conserved
    BY <1>2, FS_EmptySet DEF Countable, Conserved, LedgerInit
  <1>4. NoOvercommit
    BY QuotaAssumption DEF NoOvercommit, LedgerInit, NoRow, Quota
  <1>. QED  BY <1>1, <1>3, <1>4 DEF LedgerInv

\* The whole invariant holds in every reachable state.
THEOREM LedgerInvariant == LedgerSpec => []LedgerInv
  BY LedgerStart, LedgerStep, PTL DEF LedgerSpec

\* Every reachable state of the ledger is well typed.
THEOREM LedgerTypeCorrect == LedgerSpec => []LedgerTypeOK
  BY LedgerInvariant, PTL DEF LedgerInv

\* The reserved_value counters always equal the units of the held
\* reservations.
THEOREM ConservedSafe == LedgerSpec => []Conserved
  BY LedgerInvariant, PTL DEF LedgerInv

\* No counter ever exceeds its limit.
THEOREM OvercommitSafe == LedgerSpec => []NoOvercommit
  BY LedgerInvariant, PTL DEF LedgerInv
============================================================================
