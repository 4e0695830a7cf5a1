-------------------------------- MODULE Edge --------------------------------
(***************************************************************************)
(* Two parts of the API that every request passes: the token bucket of the  *)
(* rate limiter (middleware/rate_limit.py), shared by the threads of one    *)
(* process, and the cursor of the list routes (pagination.py), followed     *)
(* page by page by ApiClient.list while rows come and go.                   *)
(***************************************************************************)
EXTENDS Naturals, Integers, Sequences, FiniteSets, FiniteSetsExt, SequencesExt

CONSTANTS
    LimThread,     \* threads that serve requests
    Peer,          \* addresses requests come from
    Forwarded,     \* what X-Forwarded-For may name
    Cost, Burst, Rate,   \* the units one request takes, of a full bucket, and per tick
    MaxLimNow,     \* bound: the clock
    ListKey,       \* the sort keys of rows
    MinLimit, MaxLimit, DefaultLimit,   \* of a page
    AskedLimit,    \* the page sizes a client asks for; 0 - 1 for none
    ListCap        \* the caps of ApiClient.list; 0 - 1 for none

ASSUME EdgeAssumption ==
    /\ {Cost, Burst, Rate, MinLimit} \subseteq Nat \ {0}
    /\ Cost <= Burst    \* a whole number of requests, and at least one
    /\ MinLimit <= DefaultLimit /\ DefaultLimit <= MaxLimit
    /\ DefaultLimit \in Nat /\ MaxLimit \in Nat
    /\ ListKey \subseteq Nat /\ IsFiniteSet(ListKey)
    /\ AskedLimit \subseteq Int /\ ListCap \subseteq Nat \cup {0 - 1}

VARIABLES
    trust,       \* trust_forwarded_for
    bucket,      \* _buckets: key -> tokens and time
    serving,     \* serving[t]: the request of thread t and the time it read
    limNow,      \* time.monotonic()
    admitted,    \* history: admitted[p]: requests of peer p that were let in
    refusal,     \* history: the last answer to a key if it was a refusal
    listed,      \* the rows of the listed table
    listing      \* the call of ApiClient.list, and the rows that were there all along

limVars  == <<trust, bucket, serving, limNow, admitted, refusal>>
listVars == <<listed, listing>>
edgeVars == <<limVars, listVars>>

No == 0 - 1     \* None, of an integer
IdleThread == [pc |-> "idle", peer |-> "none", key |-> "none", at |-> 0]
NoListing == [pc |-> "idle", cursor |-> No, got |-> <<>>, size |-> 1, cap |-> No, seen |-> {}, steady |-> {}]

EdgeInit ==
    /\ trust \in BOOLEAN
    /\ bucket = <<>> /\ refusal = <<>>
    /\ serving = [t \in LimThread |-> IdleThread]
    /\ limNow = 0 /\ admitted = [p \in Peer |-> 0]
    /\ listed \in SUBSET ListKey /\ listing = NoListing

-----------------------------------------------------------------------------
(* The limiter.  Its lock makes it safe for threads; the middleware calls it
   from the loop of the process. *)

\* Mutant: the header counts whether it is trusted or not.
_client_keyAsSent(p, fwd) == IF fwd # "none" THEN fwd ELSE p

_client_key(p, fwd) == IF trust /\ fwd # "none" THEN fwd ELSE p

\* The clock is read before the lock is taken.
Arrive(t, p, fwd) ==
    /\ serving[t] = IdleThread
    /\ serving' = [serving EXCEPT ![t] = [pc |-> "check", peer |-> p, key |-> _client_key(p, fwd), at |-> limNow]]
    /\ UNCHANGED <<trust, bucket, limNow, admitted, refusal, listVars>>

\* Another thread may have checked at a later time: then the time is negative.
Refilled(k, now) ==
    LET old == IF k \in DOMAIN bucket THEN bucket[k] ELSE [tokens |-> Burst, last |-> now]
        new == old.tokens + (now - old.last) * Rate
    IN  IF new < Burst THEN new ELSE Burst

With(f, k, x) == [j \in DOMAIN f \cup {k} |-> IF j = k THEN x ELSE f[j]]
Without(f, k) == [j \in DOMAIN f \ {k} |-> f[j]]

_retry_after(tokens) == Max({1, (Cost - tokens + Rate - 1) \div Rate})

check(t) ==
    LET k == serving[t].key
        now == serving[t].at
        tokens == Refilled(k, now)
    IN
    /\ serving[t].pc = "check"
    /\ IF tokens >= Cost
       THEN /\ bucket' = With(bucket, k, [tokens |-> tokens - Cost, last |-> now])
            /\ admitted' = [admitted EXCEPT ![serving[t].peer] = @ + 1]
            /\ refusal' = Without(refusal, k)
       ELSE /\ bucket' = With(bucket, k, [tokens |-> tokens, last |-> now])
            /\ refusal' = With(refusal, k, now + _retry_after(tokens))
            /\ UNCHANGED admitted
    /\ serving' = [serving EXCEPT ![t] = IdleThread]
    /\ UNCHANGED <<trust, limNow, listVars>>

LimTick == limNow < MaxLimNow /\ limNow' = limNow + 1
           /\ UNCHANGED <<trust, bucket, serving, admitted, refusal, listVars>>

LimNext ==
    \/ \E t \in LimThread : check(t) \/ \E p \in Peer, fwd \in Forwarded \cup {"none"} : Arrive(t, p, fwd)
    \/ LimTick

-----------------------------------------------------------------------------
(* The list *)

clamp_limit(n) == IF n = No THEN DefaultLimit ELSE Max({MinLimit, Min({MaxLimit, n})})

Sorted(rows) == 
    CHOOSE s \in [1..Cardinality(rows) -> rows] : Range(s) = rows /\ \A i, j \in DOMAIN s : i < j => s[i] < s[j]

\* The first row after the cursor, which itself may be gone.
Resume(items, cursor) == Min({i \in DOMAIN items : items[i] > cursor} \cup {Len(items) + 1})

paginate(rows, size, cursor) ==
    LET items == Sorted(rows)
        start == IF cursor = No THEN 1 ELSE Resume(items, cursor)
        page == SubSeq(items, start, Min({start + size - 1, Len(items)}))
    IN  [items |-> page,
         next_cursor |-> IF page # <<>> /\ start + size - 1 < Len(items) THEN Last(page) ELSE No]

StartList(n, cap) ==
    /\ listing = NoListing
    /\ listing' = [NoListing EXCEPT !.pc = "page", !.size = clamp_limit(n), !.cap = cap, !.steady = listed]
    /\ UNCHANGED <<limVars, listed>>

\* One page of ApiClient.list.
FetchPage ==
    LET page == paginate(listed, listing.size, listing.cursor)
        all == listing.got \o page.items
        full == listing.cap # No /\ Len(all) >= listing.cap
        done == full \/ page.next_cursor \in listing.seen \cup {No}
    IN
    /\ listing.pc = "page"
    /\ listing' = [listing EXCEPT !.pc = IF done THEN "done" ELSE "page", !.cursor = page.next_cursor,
                                  !.got = IF full THEN SubSeq(all, 1, listing.cap) ELSE all,
                                  !.seen = @ \cup {page.next_cursor}]
    /\ UNCHANGED <<limVars, listed>>

RowChanges(k) ==
    /\ listing.pc = "page"
    /\ IF k \in listed THEN listed' = listed \ {k} ELSE listed' = listed \cup {k}
    /\ listing' = [listing EXCEPT !.steady = @ \ {k}]
    /\ UNCHANGED limVars

ListNext ==
    \/ \E n \in AskedLimit, cap \in ListCap : StartList(n, cap)
    \/ FetchPage
    \/ \E k \in ListKey : RowChanges(k)

EdgeSpec == EdgeInit /\ [][LimNext \/ ListNext]_edgeVars

-----------------------------------------------------------------------------
(***************************************************************************)
(* Whatever threads check a bucket in whatever order, one peer is let in no *)
(* oftener than the burst and the rate allow, unless a proxy in front says  *)
(* whom it forwards for.  (TokenBucketLimiter.check, _client_key)           *)
(***************************************************************************)
LimitHeld == ~trust => \A p \in Peer : admitted[p] * Cost <= Burst + Rate * limNow

(***************************************************************************)
(* Who was refused and comes back when Retry-After says, with nobody else   *)
(* of the same key in between, is let in, though checks of later times may  *)
(* have gone before.  (TokenBucketLimiter.check)                            *)
(***************************************************************************)
RetrySuffices == \A k \in DOMAIN refusal : Refilled(k, refusal[k]) >= Cost

(***************************************************************************)
(* A list followed to its end has every row that was there all the time,    *)
(* and no row twice, though others were inserted and removed between its    *)
(* pages, the one the cursor names too; a cap leaves the first of them.     *)
(* (paginate, ApiClient.list)                                               *)
(***************************************************************************)
ListedOnce ==
    /\ \A i, j \in DOMAIN listing.got : i < j => listing.got[i] < listing.got[j]
    /\ listing.pc = "done" =>
         LET due == {k \in listing.steady : listing.cap = No \/ (listing.got # <<>> /\ k <= Last(listing.got))}
         IN  due \subseteq Range(listing.got)

\* What the edge of the API promises a client that keeps asking: a bound on
\* what is served, a wait that is long enough, and a list without gaps.
EdgeSafe ==
    /\ LimitHeld
    /\ RetrySuffices
    /\ ListedOnce
=============================================================================
