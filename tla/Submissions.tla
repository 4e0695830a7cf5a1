---------------------------- MODULE Submissions -----------------------------
(***************************************************************************)
(* SubmissionProcessingService and ScoreProjector: one transaction per     *)
(* submission, which stores the submission, at most one solve per slot (a  *)
(* team and a challenge version of a competition) and one score event; the *)
(* outbox row a trigger adds for each event; and projectors that fold the  *)
(* whole ledger into the cached scoreboard.  Transactions run under READ   *)
(* COMMITTED: what one has written shows when it commits, but sequence     *)
(* numbers are handed out when a row is inserted and are never given back. *)
(***************************************************************************)
EXTENDS Naturals, FiniteSets, FiniteSetsExt

CONSTANTS Sub,          \* submission ids, chosen by clients
          Slot,         \* (competition, team, challenge version)
          Server,       \* requests that may be processed at once
          Projector,    \* projectors that may run at once
          MaxSeq,       \* bound: sequence numbers handed out
          MaxAttempts,  \* _MAX_TRANSIENT_ATTEMPTS
          MaxUpsets     \* bound: rebuilds and deaths of a projector

ASSUME SubmissionsAssumption ==
    /\ MaxSeq \in Nat \ {0} /\ MaxAttempts \in Nat \ {0} /\ MaxUpsets \in Nat
    /\ "none" \notin Sub \cup Slot

VARIABLES subs,     \* committed submissions
          solves,   \* committed solves: slot and submission
          events,   \* committed score events: seq, slot and submission
          seq,      \* the last sequence number handed out
          outbox,   \* outbox[n]: the row of event n: its status and attempts
          board,    \* the cached projection: as_of_seq and the events in it
          tx,       \* tx[v]: the submission transaction of v
          proj,     \* proj[q]: the projection transaction of q
          told,     \* outcomes returned to clients
          upsets    \* how many rebuilds and deaths there were

ledgerVars == <<subs, solves, events, seq, told>>
projVars   == <<board, proj, upsets>>
subVars    == <<ledgerVars, outbox, tx, projVars>>

SeqNo == 1..MaxSeq

\* A row of submissions, of solves, of score_events and of the outbox.
Submission == [slot : Slot, correct : BOOLEAN]
Solve      == [slot : Slot, sub : Sub]
ScoreEvent == [seq : SeqNo, slot : Slot, sub : Sub]
OutboxRow  == [status : {"none", "pending", "failed"}, attempts : 0..(MaxAttempts + MaxUpsets)]

\* The cached scoreboard of the competition.
Projection == [asOf : SeqNo \cup {0}, folded : SUBSET ScoreEvent]

\* A transaction of process_submission and one of run_once under way.
Transaction   == [pc : {"insert", "award", "commit"}, sub : Sub, slot : Slot,
                  correct : BOOLEAN, seq : SeqNo \cup {0}]
ProjectionRun == [pc : {"idle", "lock", "store", "mark", "poison"}, rows : SUBSET SeqNo,
                  marks : SUBSET SeqNo, fold : Projection]

NoSub == [slot |-> "none", correct |-> FALSE]
NoTx == [pc |-> "idle", sub |-> "none", slot |-> "none", correct |-> FALSE, seq |-> 0]
NoRow == [status |-> "none", attempts |-> 0]
NoBoard == [asOf |-> 0, folded |-> {}]
NoProj == [pc |-> "idle", rows |-> {}, marks |-> {}, fold |-> NoBoard]

SubInit ==
    /\ subs = [s \in Sub |-> NoSub] /\ solves = {} /\ events = {} /\ seq = 0
    /\ outbox = [n \in SeqNo |-> NoRow] /\ board = NoBoard
    /\ tx = [v \in Server |-> NoTx] /\ proj = [q \in Projector |-> NoProj]
    /\ told = {} /\ upsets = 0

-----------------------------------------------------------------------------
(* process_submission *)

TxAt(v, pc) == tx[v].pc = pc
TxTo(v, pc) == tx' = [tx EXCEPT ![v].pc = pc]
OnlyTx == UNCHANGED <<subs, solves, events, seq, told, outbox, projVars>>

\* acquire_submission_lock: one transaction per slot.
SlotFree(i) == \A u \in Server : tx[u].pc = "idle" \/ tx[u].slot # i

\* No publication, a draft, a seed that the client may not send, a candidate
\* that cannot be a flag, a version without a flag; or the process dies.  A
\* sequence number that was taken stays taken.
RollBack(v) == ~TxAt(v, "idle") /\ tx' = [tx EXCEPT ![v] = NoTx] /\ OnlyTx

\* get_by_submission
FirstSolve(s) == \E x \in solves : x.sub = s

Outcome(s, i, accepted, first) == [sub |-> s, slot |-> i, accepted |-> accepted, first |-> first]

\* _replay: the stored outcome, or a conflict, which writes nothing.
Replay(v, s, i) ==
    /\ told' = IF subs[s].slot = i
               THEN told \cup {Outcome(s, subs[s].slot, subs[s].correct, FirstSolve(s))}
               ELSE told
    /\ tx' = [tx EXCEPT ![v] = NoTx]
    /\ UNCHANGED <<subs, solves, events, seq, outbox, projVars>>

\* A request takes the lock of its slot and looks its id up.  Whether its
\* candidate flag is right is settled by the verifier.
Submit(v, s, i, correct) ==
    /\ TxAt(v, "idle") /\ SlotFree(i)
    /\ IF subs[s] # NoSub THEN Replay(v, s, i)
       ELSE /\ tx' = [tx EXCEPT ![v] = [pc |-> "insert", sub |-> s, slot |-> i, correct |-> correct, seq |-> 0]]
            /\ OnlyTx

\* Mutant: the slot counts as solved only by the same submission.
SolvedBySame(v) == \E x \in solves : x.slot = tx[v].slot /\ x.sub = tx[v].sub

\* get_for_challenge, and the UNIQUE constraint behind it.
Solved(v) == \E x \in solves : x.slot = tx[v].slot

\* The insert waits for a rival that has inserted the same id under another
\* slot; when that one commits, the primary key turns this one into a replay.
\* Then a correct submission looks for an earlier solve of its slot.
InsertSubmission(v) ==
    /\ TxAt(v, "insert")
    /\ \A u \in Server \ {v} : tx[u].sub = tx[v].sub => tx[u].pc \notin {"award", "commit"}
    /\ IF subs[tx[v].sub] # NoSub THEN Replay(v, tx[v].sub, tx[v].slot)
       ELSE TxTo(v, IF tx[v].correct /\ ~Solved(v) THEN "award" ELSE "commit") /\ OnlyTx

\* The solve and its event, in a savepoint: both or none.  Bound: MaxSeq.
Award(v) ==
    /\ TxAt(v, "award") /\ seq < MaxSeq
    /\ IF Solved(v) THEN TxTo(v, "commit") /\ UNCHANGED seq
       ELSE /\ seq' = seq + 1
            /\ tx' = [tx EXCEPT ![v].pc = "commit", ![v].seq = seq + 1]
    /\ UNCHANGED <<subs, solves, events, told, outbox, projVars>>

\* The trigger adds the outbox row in the transaction of the event.
Enqueue(n) == [outbox EXCEPT ![n] = [status |-> "pending", attempts |-> 0]]

AwardCommit(v) ==
    /\ TxAt(v, "commit")
    /\ LET t == tx[v] IN
       /\ subs' = [subs EXCEPT ![t.sub] = [slot |-> t.slot, correct |-> t.correct]]
       /\ IF t.seq = 0 THEN UNCHANGED <<solves, events, outbox>>
          ELSE /\ solves' = solves \cup {[slot |-> t.slot, sub |-> t.sub]}
               /\ events' = events \cup {[seq |-> t.seq, slot |-> t.slot, sub |-> t.sub]}
               /\ outbox' = Enqueue(t.seq)
       /\ told' = told \cup {Outcome(t.sub, t.slot, t.correct, t.seq # 0)}
    /\ tx' = [tx EXCEPT ![v] = NoTx]
    /\ UNCHANGED <<seq, projVars>>

-----------------------------------------------------------------------------
(* ScoreProjector *)

Upset == upsets < MaxUpsets /\ upsets' = upsets + 1
OnlyProj == UNCHANGED <<ledgerVars, tx, outbox, board, upsets>>

Pending == {n \in SeqNo : outbox[n].status = "pending"}
Claimed == UNION {proj[q].rows : q \in Projector}

\* Mutant: only rows beyond the cached position are claimed.
ClaimableAfterCursor == {n \in Pending \ Claimed : n > board.asOf}

\* claim_pending: FOR UPDATE SKIP LOCKED.  The batch holds all of them.
Claimable == Pending \ Claimed

ClaimRows(q) ==
    /\ proj[q] = NoProj /\ Claimable # {}
    /\ proj' = [proj EXCEPT ![q].pc = "lock", ![q].rows = Claimable]
    /\ OnlyProj

\* Mutant: refolds of one competition may run at once.
MayFoldAlways(q) == proj[q].pc = "lock"

\* acquire_competition_lock: one refold at a time.
MayFold(q) == proj[q].pc = "lock" /\ \A r \in Projector : proj[r].pc # "store"

\* _refold: the committed events, and the largest sequence number among them.
Refold(q) ==
    /\ MayFold(q)
    /\ proj' = [proj EXCEPT ![q].pc = "store",
                            ![q].fold = [asOf |-> Max({e.seq : e \in events} \cup {0}), folded |-> events]]
    /\ OnlyProj

\* upsert: not by an earlier one.
Upsert(old, new) == IF new.asOf >= old.asOf THEN new ELSE old

\* The upsert and the deletion of the claimed rows commit together.
Store(q) ==
    /\ proj[q].pc = "store"
    /\ board' = Upsert(board, proj[q].fold)
    /\ outbox' = [n \in SeqNo |-> IF n \in proj[q].rows THEN NoRow ELSE outbox[n]]
    /\ proj' = [proj EXCEPT ![q] = NoProj]
    /\ UNCHANGED <<ledgerVars, tx, upsets>>

\* A failure rolls back, which gives up the rows.  One of the fold itself (an
\* event it does not know or cannot read) will come again: it is a poison.
ProjectorFails(q, pc) ==
    /\ proj[q].pc \in IF pc = "poison" THEN {"store"} ELSE {"lock", "store"}
    /\ proj' = [proj EXCEPT ![q] = [NoProj EXCEPT !.pc = pc, !.marks = proj[q].rows]]
    /\ OnlyProj

\* The rows of the failed batch that are still pending.
Marked(q) == proj[q].marks \cap Pending

\* mark_transient and fail, in a transaction of their own: it waits for whoever
\* has claimed the rows since.  fail gives the rows up at once.
MarkRows(q) ==
    /\ proj[q].pc \in {"mark", "poison"} /\ proj[q].marks \cap Claimed = {}
    /\ outbox' = [n \in SeqNo |->
         IF n \in Marked(q)
         THEN [status |-> IF proj[q].pc = "poison" \/ outbox[n].attempts + 1 >= MaxAttempts
                          THEN "failed" ELSE "pending",
               attempts |-> outbox[n].attempts + 1]
         ELSE outbox[n]]
    /\ proj' = [proj EXCEPT ![q] = NoProj]
    /\ UNCHANGED <<ledgerVars, tx, board, upsets>>

\* The process dies, before or after the rollback.
ProjectorDies(q) ==
    /\ proj[q] # NoProj /\ Upset
    /\ proj' = [proj EXCEPT ![q] = NoProj]
    /\ UNCHANGED <<ledgerVars, tx, outbox, board>>

\* rebuild: drop the cache, and a row for every event again.
Rebuild ==
    /\ Upset
    /\ board' = NoBoard
    /\ outbox' = [n \in SeqNo |-> IF \E e \in events : e.seq = n
                                THEN [outbox[n] EXCEPT !.status = "pending"] ELSE outbox[n]]
    /\ UNCHANGED <<ledgerVars, tx, proj>>

-----------------------------------------------------------------------------

SubNext ==
    \/ \E v \in Server :
         \/ \E s \in Sub, i \in Slot, c \in BOOLEAN : Submit(v, s, i, c)
         \/ InsertSubmission(v) \/ Award(v) \/ AwardCommit(v) \/ RollBack(v)
    \/ \E q \in Projector :
         \/ ClaimRows(q) \/ Refold(q) \/ Store(q)
         \/ ProjectorFails(q, "mark") \/ ProjectorFails(q, "poison") \/ MarkRows(q) \/ ProjectorDies(q)
    \/ Rebuild

\* A projector is run again and again.
SubFair == \A q \in Projector :
             WF_subVars(ClaimRows(q) \/ Refold(q) \/ Store(q) \/ MarkRows(q))

SubSpec == SubInit /\ [][SubNext]_subVars /\ SubFair

-----------------------------------------------------------------------------
(* Properties *)

\* The variables keep their types; a row is tried at most MaxAttempts times,
\* and once more for every rebuild.
SubTypeOK ==
    /\ subs \in [Sub -> Submission \cup {NoSub}] /\ solves \subseteq Solve /\ events \subseteq ScoreEvent
    /\ seq \in 0..MaxSeq /\ told \subseteq [sub : Sub, slot : Slot, accepted : BOOLEAN, first : BOOLEAN]
    /\ outbox \in [SeqNo -> OutboxRow] /\ board \in Projection /\ upsets \in 0..MaxUpsets
    /\ tx \in [Server -> Transaction \cup {NoTx}] /\ proj \in [Projector -> ProjectionRun]

\* However submissions race, a slot has at most one solve; it comes from a
\* correct submission for that slot and is worth exactly one score event.
OneAward ==
    /\ \A x, y \in solves : x.slot = y.slot => x = y
    /\ \A x \in solves : subs[x.sub] = [slot |-> x.slot, correct |-> TRUE]
    /\ {[slot |-> e.slot, sub |-> e.sub] : e \in events} = solves
    /\ Cardinality(events) = Cardinality(solves)

\* A client that sends a submission again is told what it was told before.
RetriesAgree == \A a, b \in told : a.sub = b.sub => a = b

\* What a client can tell of the submissions: a slot is awarded once, and a
\* client that asks again hears the same.
SubmissionsSafe ==
    /\ OneAward
    /\ RetriesAgree

\* No committed event is missing from the scoreboard without a row in the
\* outbox that says so, although events commit out of sequence, projectors
\* race and the cache is rebuilt.
NothingSkipped ==
    \A e \in events : e \in board.folded \/ outbox[e.seq].status # "none"

\* A pending row is folded, or given up after its attempts.
PendingServed == \A n \in SeqNo :
    (outbox[n].status = "pending") ~> (outbox[n].status # "pending")
=============================================================================
