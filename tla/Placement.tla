----------------------------- MODULE Placement -----------------------------
(***************************************************************************)
(* SchedulingService over the quota ledger: select_and_reserve and         *)
(* release_expired are sequences of transactions, and other callers, the   *)
(* instance lifecycle and a second request for the same instance come in   *)
(* between.                                                                *)
(***************************************************************************)
EXTENDS QuotaLedger

CONSTANTS
    Caller,      \* threads that run select_and_reserve
    SweepLimit   \* limit of release_expired

ASSUME PlacementAssumption == SweepLimit \in Nat \ {0} /\ None \notin Res

VARIABLES
    at,      \* at[c]: where caller c is in select_and_reserve
    want,    \* want[c]: its reservation_id
    todo,    \* todo[c]: the candidates it has not tried yet
    told,    \* told[c]: the worker it was given
    listed   \* the reservations release_expired listed and has yet to release

callerVars  == <<at, want, todo, told>>
placeVars == <<ledgerVars, callerVars, listed>>

CallState == {"idle", "lookup", "reactivate", "list", "trying", "collapsed", "placed"}

Goto(c, l) == at' = [at EXCEPT ![c] = l]

\* select_and_reserve returns (reservation, w).
Answer(c, w) == /\ Goto(c, "placed")
                /\ todo' = [todo EXCEPT ![c] = {}]
                /\ told' = [told EXCEPT ![c] = w]
                /\ UNCHANGED <<want, listed>>

\* It raises, or the caller is done with the answer.
Raise(c) == /\ Goto(c, "idle")
            /\ want' = [want EXCEPT ![c] = None]
            /\ todo' = [todo EXCEPT ![c] = {}]
            /\ told' = [told EXCEPT ![c] = None]
            /\ UNCHANGED listed

-----------------------------------------------------------------------------
(* select_and_reserve *)

Call(c, r) ==
    /\ at[c] = "idle"
    /\ Goto(c, "lookup")
    /\ want' = [want EXCEPT ![c] = r]
    /\ UNCHANGED <<ledgerVars, todo, told, listed>>

\* get_reservation: a held header is a replay, a released one is re-held.
Lookup(c) ==
    LET r == want[c] IN
    /\ at[c] = "lookup"
    /\ UNCHANGED ledgerVars
    /\ \/ /\ hold[r] = "held"
          /\ Answer(c, place[r])
       \/ /\ hold[r] = "released"
          /\ Goto(c, "reactivate")
          /\ UNCHANGED <<want, todo, told, listed>>
       \/ /\ hold[r] = "none"
          /\ Goto(c, "list")
          /\ UNCHANGED <<want, todo, told, listed>>

\* _reactivate, in a transaction of its own: a rival may have re-held the
\* reservation first, and the old placement may be full.
TryReactivate(c) ==
    LET r == want[c] IN
    /\ at[c] = "reactivate"
    /\ \/ /\ hold[r] = "held"
          /\ UNCHANGED ledgerVars
          /\ Answer(c, place[r])
       \/ /\ Reactivate(r)
          /\ Answer(c, place[r])
       \/ /\ hold[r] = "released"
          /\ \E q \in Quota : ~ Fits(r, place[r], q, limit)
          /\ UNCHANGED ledgerVars
          /\ Raise(c)

\* candidate_workers: workers that are eligible (trusted, not draining, with
\* a recent heartbeat: any subset here) and had a free unit just now.
ListCandidates(c) ==
    /\ at[c] = "list"
    /\ \E eligible \in SUBSET Worker :
         LET free == {w \in eligible : Seeded(w)[w] - used[w] > 0} IN
         IF free = {} THEN Raise(c)
         ELSE /\ Goto(c, "trying")
              /\ todo' = [todo EXCEPT ![c] = free]
              /\ UNCHANGED <<want, told, listed>>
    /\ UNCHANGED ledgerVars

\* The transaction for candidate w succeeds.  The rank of the candidates is
\* left open.
TryReserve(c, w) ==
    /\ at[c] = "trying" /\ w \in todo[c]
    /\ Reserve(want[c], w)
    /\ Answer(c, w)

PoolRefuses(r) == \/ r \in OverCeiling
                  \/ \E p \in Pool : ~ Fits(r, None, p, limit)

\* A shared pool or a ceiling refuses: no other worker can help.  The scope
\* "worker" sorts last, so the pools are looked at first.
TryRefused(c) ==
    /\ at[c] = "trying"
    /\ hold[want[c]] = "none"
    /\ PoolRefuses(want[c])
    /\ UNCHANGED ledgerVars
    /\ Raise(c)

\* The worker is full by now: the next candidate, if there is one.
TryNext(c, w) ==
    LET r == want[c] IN
    /\ at[c] = "trying" /\ w \in todo[c]
    /\ hold[r] = "none"
    /\ ~ PoolRefuses(r)
    /\ ~ Fits(r, w, w, Seeded(w))
    /\ UNCHANGED ledgerVars
    /\ IF todo[c] = {w} THEN Raise(c)
       ELSE /\ todo' = [todo EXCEPT ![c] = @ \ {w}]
            /\ UNCHANGED <<at, want, told, listed>>

\* The header exists by now: an IntegrityError on its primary key.
TryConflict(c) ==
    /\ at[c] = "trying"
    /\ hold[want[c]] # "none"
    /\ Goto(c, "collapsed")
    /\ UNCHANGED <<ledgerVars, want, todo, told, listed>>

\* Mutant: the caller takes its own candidate for the placement.
CollapseToCandidate(c) ==
    /\ at[c] = "collapsed"
    /\ UNCHANGED ledgerVars
    /\ \E w \in todo[c] : Answer(c, w)

\* The rival's reservation is read and returned, whatever its state.
Collapse(c) ==
    /\ at[c] = "collapsed"
    /\ UNCHANGED ledgerVars
    /\ Answer(c, place[want[c]])

\* The caller takes the answer and goes on, or dies at any point before it.
Leave(c) ==
    /\ at[c] # "idle"
    /\ UNCHANGED ledgerVars
    /\ Raise(c)

-----------------------------------------------------------------------------
(* release_expired *)

IsExpired(r) == hold[r] = "held" /\ r \in lapsed

\* list_expired: as many as the limit allows, the oldest first (any here).
ListExpired ==
    LET expired == {r \in Res : IsExpired(r)} IN
    /\ listed = {}
    /\ listed' \in SUBSET expired
    /\ listed' # {}
    /\ Cardinality(listed') = SweepLimit \/ listed' = expired
    /\ Cardinality(listed') <= SweepLimit
    /\ UNCHANGED <<ledgerVars, callerVars>>

\* One release of the sweep.  It asks whether the reservation is still held,
\* not whether it is still expired.
SweepRelease(r) ==
    /\ r \in listed
    /\ \/ Release(r)
       \/ hold[r] # "held" /\ UNCHANGED ledgerVars
    /\ listed' = listed \ {r}
    /\ UNCHANGED callerVars

\* The sweep dies between two of its transactions.
SweepCrash ==
    /\ listed # {}
    /\ listed' = {}
    /\ UNCHANGED <<ledgerVars, callerVars>>

-----------------------------------------------------------------------------

PlacementInit == /\ LedgerInit
                 /\ at = [c \in Caller |-> "idle"]
                 /\ want = [c \in Caller |-> None]
                 /\ todo = [c \in Caller |-> {}]
                 /\ told = [c \in Caller |-> None]
                 /\ listed = {}

SelectAndReserve(c) == \/ \E r \in Res : Call(c, r)
                       \/ Lookup(c)
                       \/ TryReactivate(c)
                       \/ ListCandidates(c)
                       \/ \E w \in Worker : TryReserve(c, w) \/ TryNext(c, w)
                       \/ TryRefused(c)
                       \/ TryConflict(c)
                       \/ Collapse(c)
                       \/ Leave(c)

\* The instance lifecycle, the operator and time.
Others == /\ \/ \E w \in Worker : EnsureCapacity(w)
             \/ \E r \in Res : Reactivate(r) \/ Renew(r) \/ Release(r) \/ Lapse(r)
             \/ ReconcileCounters
          /\ UNCHANGED <<callerVars, listed>>

PlacementNext == \/ \E c \in Caller : SelectAndReserve(c)
                 \/ ListExpired
                 \/ \E r \in Res : SweepRelease(r)
                 \/ SweepCrash
                 \/ Others

PlacementSpec == PlacementInit /\ [][PlacementNext]_placeVars

\* The operator runs the sweep again and again, and it does not die before
\* each of its releases.
PlacementFair == /\ WF_placeVars(ListExpired)
                 /\ \A r \in Res : SF_placeVars(SweepRelease(r))

-----------------------------------------------------------------------------
(* Properties. *)

\* Whatever races select_and_reserve met, the worker it returns is the one
\* whose counter the reservation is charged to: the instance is assigned to
\* it and the release gives the unit back there.
CallersAgree == \A c \in Caller : at[c] = "placed" => told[c] = place[want[c]]

\* The service only uses the ledger the way QuotaLedger allows.
UsesLedger == LedgerSpec

\* The docstring of renew(): it keeps a still-running instance's hold alive
\* so that release_expired never reclaims capacity out from under it.
RenewedHoldKept ==
    [][\A r \in listed : /\ hold[r] = "held" /\ hold'[r] = "released"
                         /\ r \notin listed'
                         => r \in lapsed]_placeVars

\* The comment in select_and_reserve: an earlier reservation of this id is
\* returned when it is held and re-held when it was released, so a caller
\* never returns from it with a hold that is not held.
ReturnsHeld ==
    [][\A c \in Caller : at[c] # "placed" /\ at'[c] = "placed"
                         => hold'[want[c]] = "held"]_placeVars
============================================================================
