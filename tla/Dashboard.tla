----------------------------- MODULE Dashboard ------------------------------
(***************************************************************************)
(* dashboard_server over a JsonlEventStore: threads of one process share a *)
(* table of sessions and an event log that is kept in memory and in a      *)
(* file.  A POST spends the session token it came with and hands out       *)
(* another; reads extend it.  Pages follow the log with since(cursor).     *)
(***************************************************************************)
EXTENDS Naturals, Sequences, FiniteSets, SequencesExt

CONSTANTS DThread,     \* handler threads
          MaxTok,      \* bound: session tokens handed out
          MaxEvents,   \* bound: events appended
          MaxDNow,     \* bound: the clock
          Ttl          \* session_ttl_seconds

VARIABLES dsess,     \* live sessions: token -> expires_at
          dtok,      \* the last token handed out
          spent,     \* spent[k]: how many POSTs token k has admitted
          file,      \* the lines of the JSONL file: sequence numbers, Torn for a partial one
          mem,       \* the _events of the store
          nextSeq,   \* _next_seq
          thr,       \* thr[t]: where a handler is and the token it came with
          dlock,     \* the thread that holds the store's lock
          feed,      \* the sequence numbers a page has received
          dup,       \* the process is up
          dnow

dVars == <<dsess, dtok, spent, file, mem, nextSeq, thr, dlock, feed, dup, dnow>>

Token == 1..MaxTok
Nobody == "nobody"
ASSUME DashboardAssumption == Nobody \notin DThread
Torn == 0
Free == [pc |-> "free", tok |-> 0]

DInit ==
    /\ dsess = <<>> /\ dtok = 0 /\ spent = [k \in Token |-> 0]
    /\ file = <<>> /\ mem = <<>> /\ nextSeq = 1
    /\ thr = [t \in DThread |-> Free] /\ dlock = Nobody /\ feed = <<>> /\ dup = TRUE /\ dnow = 0

Live(k) == k \in DOMAIN dsess /\ dnow < dsess[k]
Without(f, k) == [j \in DOMAIN f \ {k} |-> f[j]]
With(f, k, x) == [j \in DOMAIN f \cup {k} |-> IF j = k THEN x ELSE f[j]]

To(t, pc, k) == thr' = [thr EXCEPT ![t] = [pc |-> pc, tok |-> k]]
StoreSame == UNCHANGED <<file, mem, nextSeq, dlock, feed>>
SessSame  == UNCHANGED <<dsess, dtok, spent>>

\* _handle_login with the right credentials, by whoever the thread serves.
HandleLogin(t) ==
    /\ dup /\ thr[t].pc = "free" /\ dtok < MaxTok
    /\ dtok' = dtok + 1 /\ dsess' = With(dsess, dtok + 1, dnow + Ttl)
    /\ StoreSame /\ UNCHANGED <<spent, thr, dup, dnow>>

\* _handle_logout
HandleLogout(t, k) ==
    /\ dup /\ thr[t].pc = "free" /\ dsess' = Without(dsess, k)
    /\ StoreSame /\ UNCHANGED <<dtok, spent, thr, dup, dnow>>

\* _handle_admin: the session is looked up first; a POST also brings the CSRF
\* token of its session.
HandleAdmin(t, k, method) ==
    /\ dup /\ thr[t].pc = "free" /\ Live(k)
    /\ To(t, IF method = "POST" THEN "rotate" ELSE "touch", k)
    /\ SessSame /\ StoreSame /\ UNCHANGED <<dup, dnow>>

\* A read slides the expiry if the session is still there; it is served anyway.
Touch(t) ==
    /\ dup /\ thr[t].pc = "touch" /\ To(t, "free", 0)
    /\ dsess' = IF thr[t].tok \in DOMAIN dsess THEN With(dsess, thr[t].tok, dnow + Ttl) ELSE dsess
    /\ StoreSame /\ UNCHANGED <<dtok, spent, dup, dnow>>

\* rotate pops the old token and stores the new one.
Rotated(k) == With(Without(dsess, k), dtok + 1, dnow + Ttl)

Rotate(t) ==
    /\ dup /\ thr[t].pc = "rotate"
    /\ IF thr[t].tok \notin DOMAIN dsess
       THEN To(t, "free", 0) /\ SessSame
       ELSE /\ dtok < MaxTok /\ dtok' = dtok + 1 /\ dsess' = Rotated(thr[t].tok)
            /\ spent' = [spent EXCEPT ![thr[t].tok] = @ + 1] /\ To(t, "event", thr[t].tok)
    /\ StoreSame /\ UNCHANGED <<dup, dnow>>

\* record_event, then JsonlEventStore.append under its lock.
MayAppend(t) == thr[t].pc = "event" /\ dlock = Nobody

\* The line is written with the number that is next ...
WriteLine(t) ==
    /\ dup /\ MayAppend(t) /\ Len(file) < MaxEvents
    /\ dlock' = t /\ file' = Append(file, nextSeq) /\ To(t, "publish", thr[t].tok)
    /\ SessSame /\ UNCHANGED <<mem, nextSeq, feed, dup, dnow>>

\* ... and then the event joins the list that readers see.
Publish(t) ==
    /\ dup /\ thr[t].pc = "publish"
    /\ dlock' = Nobody /\ mem' = Append(mem, nextSeq) /\ nextSeq' = nextSeq + 1 /\ To(t, "free", 0)
    /\ SessSame /\ UNCHANGED <<file, feed, dup, dnow>>

\* The events at the positions kept, in the order of the list.
Filtered(kept) ==
    LET Rank(i) == Cardinality({h \in kept : h <= i})
    IN  [j \in 1..Cardinality(kept) |-> mem[CHOOSE i \in kept : Rank(i) = j]]

\* Mutant: the cursor itself is included.
SinceInclusive(n) == Filtered({i \in DOMAIN mem : mem[i] >= n})

\* since(cursor): the cursor of a page is the last number it received.
Since(n) == Filtered({i \in DOMAIN mem : mem[i] > n})

Poll ==
    /\ dup /\ feed' = feed \o Since(IF feed = <<>> THEN 0 ELSE Last(feed))
    /\ SessSame /\ UNCHANGED <<file, mem, nextSeq, dlock, thr, dup, dnow>>

\* The process dies: the sessions and the list are gone, and the line that was
\* being written may be only partly there.
Die ==
    /\ dup /\ dup' = FALSE /\ dsess' = <<>> /\ mem' = <<>> /\ nextSeq' = 1 /\ dlock' = Nobody
    /\ thr' = [t \in DThread |-> Free]
    /\ file' \in {file} \cup (IF dlock = Nobody THEN {} ELSE {Front(file), Append(Front(file), Torn)})
    /\ UNCHANGED <<dtok, spent, feed, dnow>>

\* __init__ after _read_existing: numbering goes on after the last line.
Resume(lines) == IF lines = <<>> THEN 1 ELSE Last(lines) + 1

\* A torn line cannot be parsed, and the store cannot be opened.
Open ==
    /\ ~dup /\ ~(\E i \in 1..Len(file) : file[i] = Torn)
    /\ dup' = TRUE /\ mem' = file /\ nextSeq' = Resume(file)
    /\ SessSame /\ UNCHANGED <<file, thr, dlock, feed, dnow>>

DTick == dnow < MaxDNow /\ dnow' = dnow + 1 /\ SessSame /\ StoreSame /\ UNCHANGED <<thr, dup>>

DNext ==
    \/ \E t \in DThread :
         \/ HandleLogin(t) \/ Touch(t) \/ Rotate(t) \/ WriteLine(t) \/ Publish(t)
         \/ \E k \in Token : HandleLogout(t, k) \/ \E m \in {"GET", "POST"} : HandleAdmin(t, k, m)
    \/ Poll \/ Die \/ Open \/ DTick

DSpec == DInit /\ [][DNext]_dVars

-----------------------------------------------------------------------------
(* Properties *)

\* Two requests may carry one token at the same time: at most one of them is
\* let through to change anything.
TokenSpentOnce == \A k \in Token : spent[k] <= 1

\* Through races of threads and restarts of the process, the log is numbered
\* 1, 2, 3, ... without gap or repetition, in the file and in memory.
LogNumbered ==
    /\ \A i \in 1..Len(mem) : mem[i] = i
    /\ \A i \in 1..Len(file) : file[i] \in {i, Torn}

\* A page that polls with its cursor has received every event up to the last
\* one it knows of, each once.
FeedGapless == \A i \in 1..Len(feed) : feed[i] = i

\* Request threads, deaths and restarts leave sessions and the log in order.
DashboardSafe ==
    /\ TokenSpentOnce
    /\ LogNumbered
    /\ FeedGapless
=============================================================================
