------------------------- MODULE SubmissionsProofs -------------------------
(***************************************************************************)
(* Theorems about Submissions, for every set of submissions, slots, servers *)
(* and projectors: a slot is awarded once, a retry hears the same outcome,  *)
(* and no committed event is missing from the scoreboard unnoticed; and     *)
(* about Dashboard: tokens are spent once and the log has no gap; and about *)
(* Scoreboard: the fold of any log into scores is fair to every team.       *)
(***************************************************************************)
EXTENDS Submissions, Scoreboard, Dashboard, FiniteSetTheorems, SequenceTheorems, WellFoundedInduction, TLAPS

-----------------------------------------------------------------------------
(* The inductive invariant. *)

Busy(v) == tx[v].pc # "idle"
\* The row of the submission has been inserted and not committed.
Inserted(v) == tx[v].pc \in {"award", "commit"}

\* acquire_submission_lock: one transaction per slot.
LockInv == \A u, v \in Server : Busy(u) /\ Busy(v) /\ tx[u].slot = tx[v].slot => u = v

\* The primary key: an inserted id is inserted once and not committed yet.
RowInv ==
    /\ \A u, v \in Server : Inserted(u) /\ Inserted(v) /\ tx[u].sub = tx[v].sub => u = v
    /\ \A v \in Server : Inserted(v) => subs[tx[v].sub] = NoSub

\* A transaction that was given a number is about to commit a first solve.
NumberInv ==
    \A v \in Server :
      /\ tx[v].pc = "award" => tx[v].correct
      /\ tx[v].seq # 0 => tx[v].pc = "commit" /\ tx[v].correct /\ ~Solved(v)

\* Sequence numbers are used once.
SeqInv ==
    /\ \A e \in events : e.seq <= seq
    /\ \A v \in Server : tx[v].seq <= seq
    /\ \A v \in Server : tx[v].seq # 0 => \A e \in events : e.seq # tx[v].seq
    /\ \A u, v \in Server : tx[u].seq # 0 /\ tx[u].seq = tx[v].seq => u = v
    /\ \A e, f \in events : e.seq = f.seq => e = f

\* What was told is what the tables say.
ToldInv ==
    \A a \in told :
      /\ subs[a.sub] # NoSub
      /\ a = Outcome(a.sub, subs[a.sub].slot, subs[a.sub].correct, FirstSolve(a.sub))

AwardInv == OneAward /\ IsFiniteSet(events) /\ IsFiniteSet(solves)

LedgerInv == LockInv /\ RowInv /\ NumberInv /\ SeqInv /\ AwardInv /\ ToldInv

\* A row of the outbox stands for a committed event, and its attempts are
\* within the budget.
OutboxInv ==
    \A n \in SeqNo :
      /\ outbox[n].status # "none" => \E e \in events : e.seq = n
      /\ outbox[n].attempts <= MaxAttempts + upsets - (IF outbox[n].status = "failed" THEN 0 ELSE 1)

\* The cache holds committed events, up to its position.
BoardInv ==
    /\ board.folded \subseteq events
    /\ board.asOf # 0 => \E e \in events : e.seq = board.asOf

\* The committed events have a largest number.
LargestInv == \E m \in {e.seq : e \in events} \cup {0} : \A e \in events : e.seq <= m

\* The competition lock: one refold is being stored; the claimed rows are of
\* committed events, the fold has those, and all that the cache has.
FoldInv ==
    /\ \A q, r \in Projector : proj[q].pc = "store" /\ proj[r].pc = "store" => q = r
    /\ \A q \in Projector :
         /\ \A n \in proj[q].rows : \E e \in events : e.seq = n
         /\ proj[q].pc = "store" =>
              /\ proj[q].fold.folded \subseteq events
              /\ proj[q].fold.asOf # 0 => \E e \in events : e.seq = proj[q].fold.asOf
              /\ \A e \in events : e.seq \in proj[q].rows => e \in proj[q].fold.folded
              /\ board.folded \subseteq proj[q].fold.folded
              /\ board.asOf <= proj[q].fold.asOf

CacheInv == OutboxInv /\ BoardInv /\ LargestInv /\ FoldInv /\ NothingSkipped

SubInv == SubTypeOK /\ LedgerInv /\ CacheInv

-----------------------------------------------------------------------------
(* Types. *)

LEMMA NoneIsNone ==
    /\ NoSub \notin Submission /\ NoTx \notin Transaction
    /\ NoRow \in OutboxRow /\ NoBoard \in Projection /\ NoProj \in ProjectionRun
  BY SubmissionsAssumption
     DEF NoSub, Submission, NoTx, Transaction, NoRow, OutboxRow, NoBoard, Projection, NoProj, ProjectionRun

\* A transaction that is not idle has a submission, a slot and a verdict.
LEMMA BusyType ==
    ASSUME SubTypeOK, NEW v \in Server, tx[v].pc # "idle"
    PROVE  tx[v] \in Transaction
  BY DEF SubTypeOK, NoTx

\* _replay keeps the types.
LEMMA ReplayType ==
    ASSUME SubTypeOK, NEW v \in Server, NEW s \in Sub, NEW i, subs[s] # NoSub, Replay(v, s, i)
    PROVE  SubTypeOK'
  <1>1. subs[s] \in Submission
    BY DEF SubTypeOK
  <1>2. FirstSolve(s) \in BOOLEAN
    BY DEF FirstSolve
  <1>3. Outcome(s, subs[s].slot, subs[s].correct, FirstSolve(s)) \in
          [sub : Sub, slot : Slot, accepted : BOOLEAN, first : BOOLEAN]
    BY <1>1, <1>2 DEF Outcome, Submission
  <1>. QED  BY <1>3 DEF Replay, SubTypeOK, projVars

\* The position of a fold is the number of a committed event, or 0, and no
\* event is beyond it.
LEMMA LargestIsMax ==
    ASSUME LargestInv, SubTypeOK
    PROVE  LET m == Max({e.seq : e \in events} \cup {0})
           IN  m \in {e.seq : e \in events} \cup {0} /\ \A e \in events : e.seq <= m
  <1>. DEFINE S == {e.seq : e \in events} \cup {0}
  <1>1. \A x \in S : x \in Nat
    BY SubmissionsAssumption DEF SubTypeOK, ScoreEvent, SeqNo
  <1>2. \E m \in S : \A y \in S : m >= y
    BY <1>1 DEF LargestInv
  <1>3. Max(S) \in S /\ \A y \in S : Max(S) >= y
    BY <1>2 DEF Max
  <1>. QED  BY <1>1, <1>3

LEMMA TypeStep == SubInv /\ [SubNext]_subVars => SubTypeOK'
  <1>. SUFFICES ASSUME SubInv, [SubNext]_subVars
                PROVE  SubTypeOK'
    OBVIOUS
  <1>. USE SubmissionsAssumption, NoneIsNone
  <1>0. SubTypeOK /\ OutboxInv
    BY DEF SubInv, CacheInv
  <1>. USE <1>0
  <1>1. ASSUME NEW v \in Server, NEW s \in Sub, NEW i \in Slot, NEW c \in BOOLEAN, Submit(v, s, i, c)
        PROVE  SubTypeOK'
    <2>1. CASE subs[s] # NoSub
      BY <1>1, <2>1, ReplayType DEF Submit
    <2>2. CASE subs[s] = NoSub
      BY <1>1, <2>2 DEF Submit, OnlyTx, projVars, SubTypeOK, Transaction
    <2>. QED  BY <2>1, <2>2
  <1>2. ASSUME NEW v \in Server, InsertSubmission(v) PROVE SubTypeOK'
    <2>1. tx[v] \in Transaction
      BY <1>2, BusyType DEF InsertSubmission, TxAt
    <2>2. CASE subs[tx[v].sub] # NoSub
      BY <1>2, <2>1, <2>2, ReplayType DEF InsertSubmission, Transaction
    <2>3. CASE subs[tx[v].sub] = NoSub
      BY <1>2, <2>1, <2>3 DEF InsertSubmission, TxTo, OnlyTx, projVars, SubTypeOK, Transaction
    <2>. QED  BY <2>2, <2>3
  <1>3. ASSUME NEW v \in Server, Award(v) PROVE SubTypeOK'
    <2>1. tx[v] \in Transaction
      BY <1>3, BusyType DEF Award, TxAt
    <2>2. seq' \in 0..MaxSeq
      BY <1>3 DEF Award, SubTypeOK
    <2>3. tx' \in [Server -> Transaction \cup {NoTx}]
      <3>1. CASE Solved(v)
        BY <1>3, <2>1, <3>1 DEF Award, TxTo, SubTypeOK, Transaction
      <3>2. CASE ~Solved(v)
        <4>1. seq + 1 \in SeqNo
          BY <1>3 DEF Award, SubTypeOK, SeqNo
        <4>. QED  BY <1>3, <2>1, <3>2, <4>1 DEF Award, SubTypeOK, Transaction
      <3>. QED  BY <3>1, <3>2
    <2>. QED  BY <1>3, <2>2, <2>3 DEF Award, projVars, SubTypeOK
  <1>4. ASSUME NEW v \in Server, AwardCommit(v) PROVE SubTypeOK'
    <2>1. tx[v] \in Transaction
      BY <1>4, BusyType DEF AwardCommit, TxAt
    <2>2. subs' \in [Sub -> Submission \cup {NoSub}] /\ solves' \subseteq Solve /\ events' \subseteq ScoreEvent
      BY <1>4, <2>1 DEF AwardCommit, SubTypeOK, Transaction, Submission, Solve, ScoreEvent
    <2>3. outbox' \in [SeqNo -> OutboxRow]
      BY <1>4, <2>1 DEF AwardCommit, SubTypeOK, Transaction, Enqueue, OutboxRow
    <2>4. told' \subseteq [sub : Sub, slot : Slot, accepted : BOOLEAN, first : BOOLEAN]
      <3>. DEFINE first == tx[v].seq # 0
      <3>1. first \in BOOLEAN
        OBVIOUS
      <3>. HIDE DEF first
      <3>2. Outcome(tx[v].sub, tx[v].slot, tx[v].correct, first)
              \in [sub : Sub, slot : Slot, accepted : BOOLEAN, first : BOOLEAN]
        BY <2>1, <3>1 DEF Transaction, Outcome
      <3>. QED  BY <1>4, <3>2 DEF AwardCommit, SubTypeOK, first
    <2>. QED  BY <1>4, <2>2, <2>3, <2>4 DEF AwardCommit, SubTypeOK, projVars
  <1>5. ASSUME NEW v \in Server, RollBack(v) PROVE SubTypeOK'
    BY <1>5 DEF RollBack, OnlyTx, projVars, SubTypeOK
  <1>6. ASSUME NEW q \in Projector, ClaimRows(q) PROVE SubTypeOK'
    BY <1>6 DEF ClaimRows, Claimable, Pending, OnlyProj, ledgerVars, SubTypeOK, ProjectionRun
  <1>7. ASSUME NEW q \in Projector, Refold(q) PROVE SubTypeOK'
    <2>1. Max({e.seq : e \in events} \cup {0}) \in SeqNo \cup {0}
      BY LargestIsMax DEF SubInv, CacheInv, SubTypeOK, ScoreEvent
    <2>. QED  BY <1>7, <2>1 DEF Refold, OnlyProj, ledgerVars, SubTypeOK, ProjectionRun, Projection
  <1>8. ASSUME NEW q \in Projector, Store(q) PROVE SubTypeOK'
    <2>1. board' \in Projection
      BY <1>8 DEF Store, Upsert, SubTypeOK, ProjectionRun
    <2>. QED  BY <1>8, <2>1 DEF Store, ledgerVars, SubTypeOK
  <1>9. ASSUME NEW q \in Projector, NEW pc \in {"mark", "poison"}, ProjectorFails(q, pc) PROVE SubTypeOK'
    BY <1>9 DEF ProjectorFails, OnlyProj, ledgerVars, SubTypeOK, NoProj, ProjectionRun
  <1>10. ASSUME NEW q \in Projector, MarkRows(q) PROVE SubTypeOK'
    <2>1. ASSUME NEW n \in Marked(q) PROVE outbox[n].attempts + 1 \in 0..(MaxAttempts + MaxUpsets)
      BY <2>1 DEF Marked, Pending, OutboxInv, SubTypeOK, OutboxRow
    <2>2. outbox' \in [SeqNo -> OutboxRow]
      BY <1>10, <2>1 DEF MarkRows, SubTypeOK, OutboxRow
    <2>. QED  BY <1>10, <2>2 DEF MarkRows, ledgerVars, SubTypeOK
  <1>11. ASSUME NEW q \in Projector, ProjectorDies(q) PROVE SubTypeOK'
    BY <1>11 DEF ProjectorDies, Upset, ledgerVars, SubTypeOK
  <1>12. ASSUME Rebuild PROVE SubTypeOK'
    <2>1. outbox' \in [SeqNo -> OutboxRow]
      BY <1>12 DEF Rebuild, SubTypeOK, OutboxRow
    <2>. QED  BY <1>12, <2>1 DEF Rebuild, Upset, ledgerVars, SubTypeOK
  <1>13. CASE UNCHANGED subVars
    BY <1>13 DEF subVars, ledgerVars, projVars, SubTypeOK
  <1>. QED
    BY <1>1, <1>2, <1>3, <1>4, <1>5, <1>6, <1>7, <1>8, <1>9, <1>10, <1>11, <1>12, <1>13 DEF SubNext

-----------------------------------------------------------------------------
(* The ledger. *)

TxInv == LockInv /\ RowInv /\ NumberInv /\ SeqInv

\* A transaction that ends without a commit leaves the others as they were.
LEMMA GiveUp ==
    ASSUME SubTypeOK, LedgerInv, NEW v \in Server, tx' = [tx EXCEPT ![v] = NoTx],
           UNCHANGED <<subs, solves, events, seq>>
    PROVE  TxInv' /\ AwardInv'
  <1>. USE DEF SubTypeOK, LedgerInv
  <1>1. \A u \in Server : tx'[u] = IF u = v THEN NoTx ELSE tx[u]
    OBVIOUS
  <1>2. LockInv'
    BY <1>1 DEF LockInv, Busy, NoTx
  <1>3. RowInv'
    BY <1>1 DEF RowInv, Inserted, NoTx
  <1>4. NumberInv'
    BY <1>1 DEF NumberInv, Solved, NoTx
  <1>5. SeqInv'
    BY <1>1 DEF SeqInv, NoTx
  <1>6. AwardInv'
    BY DEF AwardInv, OneAward
  <1>. QED  BY <1>2, <1>3, <1>4, <1>5, <1>6 DEF TxInv

\* What is said of the tables alone stays true while they stay as they are.
LEMMA TablesSame ==
    ASSUME AwardInv, ToldInv, UNCHANGED <<subs, solves, events, told>>
    PROVE  AwardInv' /\ ToldInv'
  BY DEF AwardInv, OneAward, ToldInv, FirstSolve

\* _replay answers from the tables and writes nothing.
LEMMA ReplayLedger ==
    ASSUME SubTypeOK, LedgerInv, NEW v \in Server, NEW s \in Sub, NEW i, subs[s] # NoSub, Replay(v, s, i)
    PROVE  LedgerInv'
  <1>1. TxInv' /\ AwardInv'
    BY GiveUp DEF Replay
  <1>2. ToldInv'
    <2>. SUFFICES ASSUME NEW a \in told'
                  PROVE  /\ subs[a.sub] # NoSub
                         /\ a = Outcome(a.sub, subs[a.sub].slot, subs[a.sub].correct, FirstSolve(a.sub))
      <3>1. subs' = subs /\ \A x : FirstSolve(x)' = FirstSolve(x)
        BY DEF Replay, FirstSolve
      <3>. QED  BY <3>1, Zenon DEF ToldInv, Outcome
    <2>1. CASE a \in told
      BY <2>1 DEF LedgerInv, ToldInv
    <2>2. CASE a = Outcome(s, subs[s].slot, subs[s].correct, FirstSolve(s))
      <3>1. a.sub = s
        BY <2>2 DEF Outcome
      <3>. QED  BY <2>2, <3>1
    <2>. QED  BY <2>1, <2>2 DEF Replay
  <1>. QED  BY <1>1, <1>2 DEF LedgerInv, TxInv

LEMMA SubmitLedger ==
    ASSUME SubTypeOK, LedgerInv, NEW v \in Server, NEW s \in Sub, NEW i \in Slot, NEW c \in BOOLEAN,
           Submit(v, s, i, c)
    PROVE  LedgerInv'
  <1>. DEFINE new == [pc |-> "insert", sub |-> s, slot |-> i, correct |-> c, seq |-> 0]
  <1>1. CASE subs[s] # NoSub
    BY <1>1, ReplayLedger DEF Submit
  <1>2. CASE subs[s] = NoSub
    <2>. USE <1>2 DEF Submit, OnlyTx
    <2>1. \A u \in Server : tx'[u] = IF u = v THEN new ELSE tx[u]
      BY DEF SubTypeOK
    <2>2. LockInv'
      BY <2>1 DEF LedgerInv, LockInv, Busy, SlotFree, TxAt
    <2>3. RowInv'
      BY <2>1 DEF LedgerInv, RowInv, Inserted
    <2>4. NumberInv'
      BY <2>1 DEF LedgerInv, NumberInv, Solved
    <2>5. SeqInv'
      BY <2>1 DEF LedgerInv, SeqInv, SubTypeOK
    <2>6. AwardInv' /\ ToldInv'
      BY TablesSame DEF LedgerInv
    <2>. QED  BY <2>2, <2>3, <2>4, <2>5, <2>6 DEF LedgerInv
  <1>. QED  BY <1>1, <1>2

LEMMA InsertLedger ==
    ASSUME SubTypeOK, LedgerInv, NEW v \in Server, InsertSubmission(v)
    PROVE  LedgerInv'
  <1>1. tx[v] \in Transaction
    BY BusyType DEF InsertSubmission, TxAt
  <1>2. CASE subs[tx[v].sub] # NoSub
    BY <1>1, <1>2, ReplayLedger DEF InsertSubmission, Transaction
  <1>3. CASE subs[tx[v].sub] = NoSub
    <2>. DEFINE next == IF tx[v].correct /\ ~Solved(v) THEN "award" ELSE "commit"
    <2>. USE <1>1, <1>3 DEF InsertSubmission, TxTo, OnlyTx
    <2>1. \A u \in Server : tx'[u] = IF u = v THEN [tx[v] EXCEPT !.pc = next] ELSE tx[u]
      BY DEF SubTypeOK
    <2>2. /\ tx'[v].pc = next /\ next \in {"award", "commit"} /\ (next = "award" => tx[v].correct)
          /\ tx'[v].sub = tx[v].sub /\ tx'[v].slot = tx[v].slot
          /\ tx'[v].correct = tx[v].correct /\ tx'[v].seq = tx[v].seq
      BY <2>1 DEF Transaction
    <2>3. \A u \in Server \ {v} : tx'[u] = tx[u]
      BY <2>1
    <2>. HIDE DEF next
    <2>4. tx[v].seq = 0 /\ tx[v].pc = "insert"
      BY DEF LedgerInv, NumberInv, TxAt
    <2>5. LockInv'
      BY <2>2, <2>3, <2>4 DEF LedgerInv, LockInv, Busy
    <2>6. RowInv'
      BY <2>2, <2>3 DEF LedgerInv, RowInv, Inserted
    <2>7. NumberInv'
      BY <2>2, <2>3, <2>4 DEF LedgerInv, NumberInv, Solved
    <2>8. SeqInv'
      BY <2>2, <2>3 DEF LedgerInv, SeqInv
    <2>9. AwardInv' /\ ToldInv'
      BY TablesSame DEF LedgerInv
    <2>. QED  BY <2>5, <2>6, <2>7, <2>8, <2>9 DEF LedgerInv
  <1>. QED  BY <1>2, <1>3

LEMMA AwardLedger ==
    ASSUME SubTypeOK, LedgerInv, NEW v \in Server, Award(v)
    PROVE  LedgerInv'
  <1>1. tx[v] \in Transaction /\ tx[v].pc = "award"
    BY BusyType DEF Award, TxAt
  <1>. DEFINE n == IF Solved(v) THEN tx[v].seq ELSE seq + 1
  <1>. USE SubmissionsAssumption, <1>1
  <1>2. /\ tx'[v].pc = "commit" /\ tx'[v].seq = n
        /\ tx'[v].sub = tx[v].sub /\ tx'[v].slot = tx[v].slot /\ tx'[v].correct = tx[v].correct
    <2>1. CASE Solved(v)
      BY <2>1 DEF Award, TxTo, SubTypeOK, Transaction
    <2>2. CASE ~Solved(v)
      BY <2>2 DEF Award, SubTypeOK, Transaction
    <2>. QED  BY <2>1, <2>2
  <1>3. \A u \in Server \ {v} : tx'[u] = tx[u]
    BY DEF Award, TxTo, SubTypeOK
  <1>4. tx[v].seq = 0 /\ tx[v].correct
    BY DEF LedgerInv, NumberInv
  <1>5. /\ seq \in Nat /\ seq' \in Nat /\ seq <= seq' /\ n \in Nat /\ n <= seq'
        /\ (n # 0 => n > seq /\ ~Solved(v))
    BY <1>4 DEF Award, SubTypeOK
  <1>6. UNCHANGED <<subs, solves, events, told>>
    BY DEF Award
  <1>. HIDE DEF n
  <1>7. LockInv'
    BY <1>2, <1>3 DEF LedgerInv, LockInv, Busy
  <1>8. RowInv'
    BY <1>2, <1>3, <1>6 DEF LedgerInv, RowInv, Inserted
  <1>9. NumberInv'
    BY <1>2, <1>3, <1>4, <1>5, <1>6 DEF LedgerInv, NumberInv, Solved
  <1>10. SeqInv'
    <2>1. \A e \in events : e.seq \in Nat
      BY DEF SubTypeOK, ScoreEvent, SeqNo
    <2>2. \A u \in Server : tx[u].seq \in Nat
      BY DEF SubTypeOK, Transaction, NoTx, SeqNo
    <2>3. \A u \in Server : tx'[u].seq = IF u = v THEN n ELSE tx[u].seq
      BY <1>2, <1>3
    <2>4. \A u \in Server : tx[u].seq <= seq
      BY DEF LedgerInv, SeqInv
    <2>5. \A u, w \in Server : tx'[u].seq # 0 /\ tx'[u].seq = tx'[w].seq => u = w
      <3>. SUFFICES ASSUME NEW u \in Server, NEW w \in Server, tx'[u].seq # 0, tx'[u].seq = tx'[w].seq
                    PROVE  u = w
        OBVIOUS
      <3>1. CASE u # v /\ w # v
        BY <2>3, <3>1 DEF LedgerInv, SeqInv
      <3>2. CASE u = v \/ w = v
        BY <1>5, <2>2, <2>3, <2>4, <3>2
      <3>. QED  BY <3>1, <3>2
    <2>6. \A u \in Server : tx'[u].seq <= seq'
      BY <1>5, <2>2, <2>3, <2>4
    <2>7. \A u \in Server : tx'[u].seq # 0 => \A e \in events' : e.seq # tx'[u].seq
      BY <1>5, <1>6, <2>1, <2>3 DEF LedgerInv, SeqInv
    <2>8. (\A e \in events' : e.seq <= seq') /\ (\A e, f \in events' : e.seq = f.seq => e = f)
      BY <1>5, <1>6, <2>1 DEF LedgerInv, SeqInv
    <2>. QED  BY <2>5, <2>6, <2>7, <2>8 DEF SeqInv
  <1>11. AwardInv' /\ ToldInv'
    BY <1>6, TablesSame DEF LedgerInv
  <1>. QED  BY <1>7, <1>8, <1>9, <1>10, <1>11 DEF LedgerInv

\* The submission of a commit is new, so nothing was solved by it or told of it.
LEMMA CommitNew ==
    ASSUME SubTypeOK, LedgerInv, NEW v \in Server, AwardCommit(v)
    PROVE  /\ tx[v] \in Transaction /\ tx[v].pc = "commit"
           /\ subs[tx[v].sub] = NoSub
           /\ \A x \in solves : x.sub # tx[v].sub
           /\ \A a \in told : a.sub # tx[v].sub
           /\ tx[v].seq # 0 => tx[v].correct /\ \A x \in solves : x.slot # tx[v].slot
  <1>1. tx[v] \in Transaction /\ tx[v].pc = "commit"
    BY BusyType DEF AwardCommit, TxAt
  <1>2. subs[tx[v].sub] = NoSub
    BY <1>1 DEF LedgerInv, RowInv, Inserted
  <1>3. \A x \in solves : x.sub # tx[v].sub
    <2>. SUFFICES ASSUME NEW x \in solves PROVE x.sub # tx[v].sub
      OBVIOUS
    <2>1. x.slot \in Slot
      BY DEF SubTypeOK, Solve
    <2>2. subs[x.sub] = [slot |-> x.slot, correct |-> TRUE]
      BY DEF LedgerInv, AwardInv, OneAward
    <2>3. subs[x.sub].slot = x.slot
      BY <2>2
    <2>. QED  BY <1>2, <2>1, <2>3, SubmissionsAssumption DEF NoSub
  <1>4. \A a \in told : a.sub # tx[v].sub
    BY <1>2 DEF LedgerInv, ToldInv
  <1>5. tx[v].seq # 0 => tx[v].correct /\ \A x \in solves : x.slot # tx[v].slot
    BY DEF LedgerInv, NumberInv, Solved
  <1>. QED  BY <1>1, <1>2, <1>3, <1>4, <1>5

LEMMA CommitAward ==
    ASSUME SubTypeOK, LedgerInv, NEW v \in Server, AwardCommit(v)
    PROVE  AwardInv'
  <1>. DEFINE t == tx[v]
              row == [slot |-> t.slot, correct |-> t.correct]
              solve == [slot |-> t.slot, sub |-> t.sub]
              event == [seq |-> t.seq, slot |-> t.slot, sub |-> t.sub]
  <1>1. /\ t \in Transaction /\ t.pc = "commit" /\ subs[t.sub] = NoSub
        /\ \A x \in solves : x.sub # t.sub
        /\ t.seq # 0 => t.correct /\ \A x \in solves : x.slot # t.slot
    BY CommitNew
  <1>2. subs' = [subs EXCEPT ![t.sub] = row]
    BY DEF AwardCommit
  <1>3. /\ \A x, y \in solves : x.slot = y.slot => x = y
        /\ \A x \in solves : subs[x.sub] = [slot |-> x.slot, correct |-> TRUE]
        /\ {[slot |-> e.slot, sub |-> e.sub] : e \in events} = solves
        /\ Cardinality(events) = Cardinality(solves)
        /\ IsFiniteSet(events) /\ IsFiniteSet(solves)
    BY DEF LedgerInv, AwardInv, OneAward
  <1>4. \A x \in solves : subs'[x.sub] = subs[x.sub]
    BY <1>1, <1>2 DEF SubTypeOK, Solve
  <1>5. CASE t.seq = 0
    <2>1. solves' = solves /\ events' = events
      BY <1>5 DEF AwardCommit
    <2>. QED  BY <1>3, <1>4, <2>1 DEF AwardInv, OneAward
  <1>6. CASE t.seq # 0
    <2>1. solves' = solves \cup {solve} /\ events' = events \cup {event}
      BY <1>6 DEF AwardCommit
    <2>2. solve \notin solves
      BY <1>1
    <2>3. event \notin events
      <3>1. solve = [slot |-> event.slot, sub |-> event.sub]
        OBVIOUS
      <3>. QED  BY <1>3, <2>2, <3>1
    <2>4. \A x, y \in solves' : x.slot = y.slot => x = y
      BY <1>1, <1>3, <1>6, <2>1
    <2>5. \A x \in solves' : subs'[x.sub] = [slot |-> x.slot, correct |-> TRUE]
      <3>1. subs'[t.sub] = row
        BY <1>1, <1>2 DEF SubTypeOK, Transaction
      <3>2. t.correct = TRUE
        BY <1>1, <1>6 DEF Transaction
      <3>3. subs'[solve.sub] = [slot |-> solve.slot, correct |-> TRUE]
        BY <3>1, <3>2
      <3>4. \A x \in solves : subs'[x.sub] = [slot |-> x.slot, correct |-> TRUE]
        BY <1>3, <1>4, Zenon
      <3>. HIDE DEF solve
      <3>. QED  BY <2>1, <3>3, <3>4, Zenon
    <2>6. {[slot |-> e.slot, sub |-> e.sub] : e \in events'} = solves'
      <3>1. {[slot |-> e.slot, sub |-> e.sub] : e \in events \cup {event}}
              = {[slot |-> e.slot, sub |-> e.sub] : e \in events} \cup {[slot |-> event.slot, sub |-> event.sub]}
        <4>. HIDE DEF event
        <4>. QED  BY Zenon
      <3>2. solve = [slot |-> event.slot, sub |-> event.sub]
        OBVIOUS
      <3>. HIDE DEF event, solve
      <3>. QED  BY <1>3, <2>1, <3>1, <3>2, Zenon
    <2>. HIDE DEF solve, event
    <2>7. /\ IsFiniteSet(solves') /\ Cardinality(solves') = Cardinality(solves) + 1
          /\ IsFiniteSet(events') /\ Cardinality(events') = Cardinality(events) + 1
      BY <1>3, <2>1, <2>2, <2>3, FS_AddElement, Zenon
    <2>. QED  BY <1>3, <2>4, <2>5, <2>6, <2>7 DEF AwardInv, OneAward
  <1>. QED  BY <1>5, <1>6

LEMMA CommitLedger ==
    ASSUME SubTypeOK, LedgerInv, NEW v \in Server, AwardCommit(v)
    PROVE  LedgerInv'
  <1>. DEFINE t == tx[v]
  <1>1. /\ t \in Transaction /\ t.pc = "commit" /\ subs[t.sub] = NoSub
        /\ \A x \in solves : x.sub # t.sub
        /\ \A a \in told : a.sub # t.sub
    BY CommitNew
  <1>2. \A u \in Server : tx'[u] = IF u = v THEN NoTx ELSE tx[u]
    BY DEF AwardCommit, SubTypeOK
  <1>3. \A s \in Sub : subs'[s] = IF s = t.sub THEN [slot |-> t.slot, correct |-> t.correct] ELSE subs[s]
    BY DEF AwardCommit, SubTypeOK
  <1>4. LockInv'
    BY <1>2 DEF LedgerInv, LockInv, Busy, NoTx
  <1>5. RowInv'
    <2>1. \A u \in Server : Inserted(u)' => u # v /\ tx'[u] = tx[u] /\ tx[u].sub # t.sub /\ tx[u].sub \in Sub
      BY <1>1, <1>2 DEF LedgerInv, RowInv, Inserted, NoTx, SubTypeOK, Transaction
    <2>. QED  BY <1>3, <2>1 DEF LedgerInv, RowInv, Inserted
  <1>6. NumberInv'
    <2>1. \A u \in Server \ {v} : tx[u].pc = "commit" => tx[u].slot # t.slot
      BY <1>1 DEF LedgerInv, LockInv, Busy
    <2>2. \A x \in solves' : x \in solves \/ x.slot = t.slot
      BY DEF AwardCommit
    <2>3. ASSUME NEW u \in Server \ {v}, tx[u].seq # 0 PROVE \A x \in solves' : x.slot # tx[u].slot
      BY <2>1, <2>2, <2>3 DEF LedgerInv, NumberInv, Solved
    <2>. QED  BY <1>2, <2>3 DEF LedgerInv, NumberInv, Solved, NoTx
  <1>7. SeqInv'
    <2>1. seq' = seq /\ \A e \in events' :
            e \in events \/ (t.seq # 0 /\ e.seq = t.seq /\ e = [seq |-> t.seq, slot |-> t.slot, sub |-> t.sub])
      BY DEF AwardCommit
    <2>2. seq \in Nat
      BY SubmissionsAssumption DEF SubTypeOK
    <2>3. \A u \in Server : tx'[u].seq # 0 => u # v /\ tx'[u].seq = tx[u].seq
      BY <1>2 DEF NoTx
    <2>4. \A u \in Server : tx'[u].seq <= seq'
      BY <1>2, <2>1, <2>2 DEF LedgerInv, SeqInv, NoTx
    <2>5. \A e \in events' : e.seq <= seq'
      BY <2>1 DEF LedgerInv, SeqInv
    <2>6. \A e, f \in events' : e.seq = f.seq => e = f
      BY <2>1 DEF LedgerInv, SeqInv
    <2>7. \A u \in Server : tx'[u].seq # 0 => \A e \in events' : e.seq # tx'[u].seq
      BY <2>1, <2>3 DEF LedgerInv, SeqInv
    <2>8. \A u, w \in Server : tx'[u].seq # 0 /\ tx'[u].seq = tx'[w].seq => u = w
      BY <2>3 DEF LedgerInv, SeqInv
    <2>. QED  BY <2>4, <2>5, <2>6, <2>7, <2>8 DEF SeqInv
  <1>8. AwardInv'
    BY CommitAward
  <1>9. ToldInv'
    <2>. SUFFICES ASSUME NEW a \in told'
                  PROVE  /\ subs'[a.sub] # NoSub
                         /\ a = Outcome(a.sub, subs'[a.sub].slot, subs'[a.sub].correct, FirstSolve(a.sub)')
      BY Zenon DEF ToldInv, Outcome
    <2>1. CASE a \in told
      <3>1. a.sub \in Sub /\ a.sub # t.sub
        BY <1>1, <2>1 DEF SubTypeOK
      <3>2. subs'[a.sub] = subs[a.sub]
        BY <1>3, <3>1
      <3>3. FirstSolve(a.sub)' = FirstSolve(a.sub)
        BY <3>1 DEF FirstSolve, AwardCommit
      <3>. QED  BY <2>1, <3>2, <3>3, Zenon DEF LedgerInv, ToldInv
    <2>2. CASE a = Outcome(t.sub, t.slot, t.correct, t.seq # 0)
      <3>1. a.sub = t.sub /\ t.sub \in Sub
        BY <1>1, <2>2 DEF Outcome, Transaction
      <3>2. subs'[t.sub] = [slot |-> t.slot, correct |-> t.correct]
        BY <1>3, <3>1
      <3>3. subs'[t.sub] # NoSub /\ subs'[t.sub].slot = t.slot /\ subs'[t.sub].correct = t.correct
        BY <1>1, <3>2, SubmissionsAssumption DEF NoSub, Transaction
      <3>4. FirstSolve(a.sub)' <=> t.seq # 0
        <4>1. CASE t.seq = 0
          BY <1>1, <3>1, <4>1 DEF FirstSolve, AwardCommit
        <4>2. CASE t.seq # 0
          <5>1. [slot |-> t.slot, sub |-> t.sub] \in solves'
            BY <4>2 DEF AwardCommit
          <5>. QED  BY <3>1, <4>2, <5>1 DEF FirstSolve
        <4>. QED  BY <4>1, <4>2
      <3>5. FirstSolve(a.sub)' = (t.seq # 0)
        BY <3>4, Zenon DEF FirstSolve
      <3>. HIDE DEF t
      <3>6. a = Outcome(t.sub, t.slot, t.correct, FirstSolve(a.sub)')
        BY <2>2, <3>5, Zenon
      <3>. QED  BY <3>1, <3>3, <3>6, Zenon
    <2>. QED  BY <2>1, <2>2 DEF AwardCommit
  <1>. QED  BY <1>4, <1>5, <1>6, <1>7, <1>8, <1>9 DEF LedgerInv

\* Projectors do not touch the ledger.
LEMMA LedgerSame ==
    ASSUME LedgerInv, UNCHANGED <<ledgerVars, tx>>
    PROVE  LedgerInv'
  <1>. USE DEF ledgerVars, LedgerInv
  <1>1. LockInv' /\ RowInv' /\ NumberInv' /\ SeqInv'
    BY DEF LockInv, Busy, RowInv, Inserted, NumberInv, Solved, SeqInv
  <1>2. AwardInv' /\ ToldInv'
    BY TablesSame
  <1>. QED  BY <1>1, <1>2

LEMMA LedgerStep == SubTypeOK /\ LedgerInv /\ [SubNext]_subVars => LedgerInv'
  <1>. SUFFICES ASSUME SubTypeOK, LedgerInv, [SubNext]_subVars
                PROVE  LedgerInv'
    OBVIOUS
  <1>1. ASSUME NEW v \in Server, NEW s \in Sub, NEW i \in Slot, NEW c \in BOOLEAN, Submit(v, s, i, c)
        PROVE  LedgerInv'
    BY <1>1, SubmitLedger
  <1>2. ASSUME NEW v \in Server, InsertSubmission(v) PROVE LedgerInv'
    BY <1>2, InsertLedger
  <1>3. ASSUME NEW v \in Server, Award(v) PROVE LedgerInv'
    BY <1>3, AwardLedger
  <1>4. ASSUME NEW v \in Server, AwardCommit(v) PROVE LedgerInv'
    BY <1>4, CommitLedger
  <1>5. ASSUME NEW v \in Server, RollBack(v) PROVE LedgerInv'
    <2>1. TxInv' /\ AwardInv'
      BY <1>5, GiveUp DEF RollBack, OnlyTx
    <2>2. ToldInv'
      BY <1>5, TablesSame DEF RollBack, OnlyTx, LedgerInv
    <2>. QED  BY <2>1, <2>2 DEF TxInv, LedgerInv
  <1>6. ASSUME NEW q \in Projector,
               \/ ClaimRows(q) \/ Refold(q) \/ Store(q)
               \/ ProjectorFails(q, "mark") \/ ProjectorFails(q, "poison") \/ MarkRows(q) \/ ProjectorDies(q)
        PROVE  LedgerInv'
    BY <1>6, LedgerSame DEF ClaimRows, Refold, Store, ProjectorFails, MarkRows, ProjectorDies, OnlyProj
  <1>7. CASE Rebuild
    BY <1>7, LedgerSame DEF Rebuild
  <1>8. CASE UNCHANGED subVars
    BY <1>8, LedgerSame DEF subVars
  <1>. QED  BY <1>1, <1>2, <1>3, <1>4, <1>5, <1>6, <1>7, <1>8 DEF SubNext

-----------------------------------------------------------------------------
(* The outbox and the cache. *)

\* Statements of a transaction change nothing that projectors see.
LEMMA CacheSame ==
    ASSUME CacheInv, UNCHANGED <<events, outbox, projVars>>
    PROVE  CacheInv'
  BY DEF CacheInv, projVars, OutboxInv, BoardInv, LargestInv, FoldInv, NothingSkipped

\* A commit adds an event with a number no claim and no fold knows of, and its
\* row.
LEMMA CommitCache ==
    ASSUME SubTypeOK, LedgerInv, CacheInv, NEW v \in Server, AwardCommit(v)
    PROVE  CacheInv'
  <1>. DEFINE t == tx[v]
              event == [seq |-> t.seq, slot |-> t.slot, sub |-> t.sub]
  <1>1. t \in Transaction
    BY CommitNew
  <1>2. CASE t.seq = 0
    BY <1>2, CacheSame DEF AwardCommit
  <1>3. CASE t.seq # 0
    <2>1. events' = events \cup {event} /\ UNCHANGED projVars
      BY <1>3 DEF AwardCommit
    <2>2. t.seq \in SeqNo /\ event.seq = t.seq /\ \A e \in events : e.seq # t.seq
      BY <1>1, <1>3 DEF Transaction, LedgerInv, SeqInv
    <2>3. \A n \in SeqNo : outbox'[n] = IF n = t.seq THEN [status |-> "pending", attempts |-> 0] ELSE outbox[n]
      BY <1>3 DEF AwardCommit, Enqueue, SubTypeOK
    <2>. HIDE DEF t, event
    <2>4. OutboxInv'
      <3>1. MaxAttempts \in Nat \ {0} /\ upsets \in Nat
        BY SubmissionsAssumption DEF SubTypeOK
      <3>. QED  BY <2>1, <2>2, <2>3, <3>1 DEF CacheInv, OutboxInv, projVars
    <2>5. BoardInv'
      BY <2>1 DEF CacheInv, BoardInv, projVars
    <2>6. LargestInv'
      <3>1. PICK m \in {e.seq : e \in events} \cup {0} : \A e \in events : e.seq <= m
        BY DEF CacheInv, LargestInv
      <3>2. m \in Nat /\ t.seq \in Nat /\ \A e \in events : e.seq \in Nat
        BY <2>2, SubmissionsAssumption DEF SubTypeOK, ScoreEvent, SeqNo
      <3>3. CASE m <= t.seq
        <4>1. \A e \in events' : e.seq <= t.seq
          BY <2>1, <2>2, <3>1, <3>2, <3>3
        <4>2. t.seq \in {e.seq : e \in events'} \cup {0}
          BY <2>1, <2>2
        <4>. QED  BY <4>1, <4>2 DEF LargestInv
      <3>4. CASE t.seq <= m
        <4>1. \A e \in events' : e.seq <= m
          BY <2>1, <2>2, <3>1, <3>4
        <4>2. m \in {e.seq : e \in events'} \cup {0}
          BY <2>1
        <4>. QED  BY <4>1, <4>2 DEF LargestInv
      <3>. QED  BY <3>2, <3>3, <3>4
    <2>7. FoldInv'
      BY <2>1, <2>2 DEF CacheInv, FoldInv, projVars
    <2>8. NothingSkipped'
      <3>1. \A e \in events : e.seq \in SeqNo
        BY DEF SubTypeOK, ScoreEvent
      <3>. QED  BY <2>1, <2>2, <2>3, <3>1 DEF CacheInv, NothingSkipped, projVars
    <2>. QED  BY <2>4, <2>5, <2>6, <2>7, <2>8 DEF CacheInv
  <1>. QED  BY <1>2, <1>3

LEMMA ClaimCache ==
    ASSUME SubTypeOK, CacheInv, NEW q \in Projector, ClaimRows(q)
    PROVE  CacheInv'
  <1>. USE DEF ClaimRows, OnlyProj, ledgerVars
  <1>1. /\ proj'[q].rows = Claimable /\ proj'[q].pc = "lock"
        /\ \A r \in Projector \ {q} : proj'[r] = proj[r]
    BY DEF SubTypeOK, ProjectionRun
  <1>2. \A n \in Claimable : \E e \in events : e.seq = n
    BY DEF Claimable, Pending, CacheInv, OutboxInv
  <1>. UNCHANGED <<events, outbox, board, upsets>>
    OBVIOUS
  <1>. HIDE DEF ClaimRows, Claimable
  <1>3. FoldInv'
    <2>1. \A r \in Projector : \A n \in proj'[r].rows : \E e \in events : e.seq = n
      BY <1>1, <1>2 DEF CacheInv, FoldInv
    <2>2. \A r \in Projector : proj'[r].pc = "store" => proj'[r] = proj[r]
      BY <1>1
    <2>. QED  BY <2>1, <2>2 DEF CacheInv, FoldInv
  <1>. QED  BY <1>3 DEF CacheInv, OutboxInv, BoardInv, LargestInv, NothingSkipped

LEMMA RefoldCache ==
    ASSUME SubTypeOK, CacheInv, NEW q \in Projector, Refold(q)
    PROVE  CacheInv'
  <1>. DEFINE m == Max({e.seq : e \in events} \cup {0})
  <1>1. m \in {e.seq : e \in events} \cup {0} /\ \A e \in events : e.seq <= m
    BY LargestIsMax DEF CacheInv
  <1>2. /\ proj'[q].pc = "store" /\ proj'[q].rows = proj[q].rows
        /\ proj'[q].fold.folded = events /\ proj'[q].fold.asOf = m
        /\ \A r \in Projector \ {q} : proj'[r] = proj[r]
    BY DEF Refold, SubTypeOK, ProjectionRun
  <1>3. \A r \in Projector : proj[r].pc # "store"
    BY DEF Refold, MayFold
  <1>4. board.asOf <= m
    <2>1. board.asOf \in Nat /\ m \in Nat
      BY <1>1, SubmissionsAssumption DEF SubTypeOK, Projection, ScoreEvent, SeqNo
    <2>. QED  BY <1>1, <2>1 DEF CacheInv, BoardInv
  <1>5. UNCHANGED <<events, outbox, board, upsets>>
    BY DEF Refold, OnlyProj, ledgerVars
  <1>. HIDE DEF m
  <1>6. FoldInv'
    BY <1>1, <1>2, <1>3, <1>4, <1>5 DEF CacheInv, FoldInv, BoardInv
  <1>. QED  BY <1>5, <1>6 DEF CacheInv, OutboxInv, BoardInv, LargestInv, NothingSkipped

\* Nothing is lost with the rows: the fold has all of their events and all
\* that the cache had.
LEMMA StoreCache ==
    ASSUME SubTypeOK, CacheInv, NEW q \in Projector, Store(q)
    PROVE  CacheInv'
  <1>. USE SubmissionsAssumption
  <1>1. /\ proj[q].pc = "store" /\ proj'[q] = NoProj
        /\ \A r \in Projector \ {q} : proj'[r] = proj[r]
        /\ UNCHANGED <<events, upsets>>
    BY DEF Store, SubTypeOK, ledgerVars
  <1>2. board' = proj[q].fold
    <2>1. board.asOf \in Nat /\ proj[q].fold.asOf \in Nat
      BY DEF SubTypeOK, ProjectionRun, Projection, SeqNo
    <2>2. board.asOf <= proj[q].fold.asOf
      BY <1>1 DEF CacheInv, FoldInv
    <2>. QED  BY <2>1, <2>2 DEF Store, Upsert
  <1>3. \A n \in SeqNo : outbox'[n] = IF n \in proj[q].rows THEN NoRow ELSE outbox[n]
    BY DEF Store
  <1>4. OutboxInv'
    <2>1. MaxAttempts \in Nat \ {0} /\ upsets \in Nat
      BY DEF SubTypeOK
    <2>. QED  BY <1>1, <1>3, <2>1 DEF CacheInv, OutboxInv, NoRow
  <1>5. BoardInv'
    BY <1>1, <1>2 DEF CacheInv, FoldInv, BoardInv
  <1>6. LargestInv'
    BY <1>1 DEF CacheInv, LargestInv
  <1>7. FoldInv'
    <2>1. \A r \in Projector : proj'[r].pc # "store"
      BY <1>1 DEF CacheInv, FoldInv, NoProj
    <2>. QED  BY <1>1, <2>1 DEF CacheInv, FoldInv, NoProj
  <1>8. NothingSkipped'
    <2>. SUFFICES ASSUME NEW e \in events
                  PROVE  e \in board'.folded \/ outbox'[e.seq].status # "none"
      BY <1>1 DEF NothingSkipped
    <2>1. e.seq \in SeqNo
      BY DEF SubTypeOK, ScoreEvent
    <2>2. CASE e.seq \in proj[q].rows
      BY <1>1, <1>2, <2>2 DEF CacheInv, FoldInv
    <2>3. CASE e.seq \notin proj[q].rows
      <3>1. outbox'[e.seq] = outbox[e.seq]
        BY <1>3, <2>1, <2>3
      <3>. QED  BY <1>1, <1>2, <3>1 DEF CacheInv, FoldInv, NothingSkipped
    <2>. QED  BY <2>2, <2>3
  <1>. QED  BY <1>4, <1>5, <1>6, <1>7, <1>8 DEF CacheInv

\* A projector that fails or dies lets go of its rows and its fold.
LEMMA LetGo ==
    ASSUME FoldInv, SubTypeOK, NEW q \in Projector, NEW p \in ProjectionRun, p.rows = {}, p.pc # "store",
           proj' = [proj EXCEPT ![q] = p], UNCHANGED <<events, board>>
    PROVE  FoldInv'
  <1>1. proj'[q] = p /\ \A r \in Projector \ {q} : proj'[r] = proj[r]
    BY DEF SubTypeOK
  <1>. QED  BY <1>1 DEF FoldInv

LEMMA FailCache ==
    ASSUME SubTypeOK, CacheInv, NEW q \in Projector, NEW pc \in {"mark", "poison"}, ProjectorFails(q, pc)
    PROVE  CacheInv'
  <1>. DEFINE p == [NoProj EXCEPT !.pc = pc, !.marks = proj[q].rows]
  <1>1. p \in ProjectionRun /\ p.rows = {} /\ p.pc # "store"
    BY NoneIsNone DEF NoProj, ProjectionRun, SubTypeOK
  <1>2. proj' = [proj EXCEPT ![q] = p] /\ UNCHANGED <<events, board, outbox, upsets>>
    BY DEF ProjectorFails, OnlyProj, ledgerVars
  <1>. HIDE DEF p
  <1>3. FoldInv'
    BY <1>1, <1>2, LetGo DEF CacheInv
  <1>. QED  BY <1>2, <1>3 DEF CacheInv, OutboxInv, BoardInv, LargestInv, NothingSkipped

\* Marking a row keeps it, within the budget of attempts.
LEMMA MarkCache ==
    ASSUME SubTypeOK, CacheInv, NEW q \in Projector, MarkRows(q)
    PROVE  CacheInv'
  <1>. DEFINE st(n) == IF proj[q].pc = "poison" \/ outbox[n].attempts + 1 >= MaxAttempts
                       THEN "failed" ELSE "pending"
  <1>1. proj' = [proj EXCEPT ![q] = NoProj] /\ UNCHANGED <<events, board, upsets>>
    BY DEF MarkRows, ledgerVars
  <1>2. outbox' = [n \in SeqNo |-> IF n \in Marked(q)
                                  THEN [status |-> st(n), attempts |-> outbox[n].attempts + 1]
                                  ELSE outbox[n]]
    BY DEF MarkRows
  <1>s. \A n : /\ st(n) # "none"
               /\ outbox[n].attempts + 1 >= MaxAttempts => st(n) = "failed"
    OBVIOUS
  <1>. HIDE DEF st
  <1>3. FoldInv'
    BY <1>1, LetGo, NoneIsNone DEF CacheInv, NoProj
  <1>4. OutboxInv'
    <2>1. MaxAttempts \in Nat \ {0} /\ upsets \in Nat /\ \A n \in SeqNo : outbox[n].attempts \in Nat
      BY SubmissionsAssumption DEF SubTypeOK, OutboxRow
    <2>. SUFFICES ASSUME NEW n \in SeqNo
                  PROVE  /\ outbox'[n].status # "none" => \E e \in events : e.seq = n
                         /\ outbox'[n].attempts <= MaxAttempts + upsets
                              - (IF outbox'[n].status = "failed" THEN 0 ELSE 1)
      BY <1>1 DEF OutboxInv
    <2>2. CASE n \in Marked(q)
      <3>1. outbox[n].status = "pending"
        BY <2>2 DEF Marked, Pending
      <3>2. (\E e \in events : e.seq = n) /\ outbox[n].attempts <= MaxAttempts + upsets - 1
        BY <3>1 DEF CacheInv, OutboxInv
      <3>3. outbox'[n].attempts = outbox[n].attempts + 1
        BY <1>2, <2>2
      <3>4. outbox'[n].status = "failed" \/ outbox[n].attempts + 1 < MaxAttempts
        <4>1. CASE outbox[n].attempts + 1 >= MaxAttempts
          <5>1. outbox'[n].status = st(n)
            BY <1>2, <2>2
          <5>. QED  BY <1>s, <4>1, <5>1
        <4>. QED  BY <2>1, <4>1
      <3>. QED  BY <2>1, <3>2, <3>3, <3>4
    <2>3. CASE n \notin Marked(q)
      <3>1. outbox'[n] = outbox[n]
        BY <1>2, <2>3
      <3>. QED  BY <3>1 DEF CacheInv, OutboxInv
    <2>. QED  BY <2>2, <2>3
  <1>5. NothingSkipped'
    <2>1. ASSUME NEW n \in SeqNo, outbox[n].status # "none" PROVE outbox'[n].status # "none"
      <3>1. CASE n \in Marked(q)
        <4>1. outbox'[n].status = st(n)
          BY <1>2, <3>1
        <4>. QED  BY <1>s, <4>1
      <3>2. CASE n \notin Marked(q)
        BY <1>2, <2>1, <3>2
      <3>. QED  BY <3>1, <3>2
    <2>2. \A e \in events : e.seq \in SeqNo
      BY DEF SubTypeOK, ScoreEvent
    <2>. QED  BY <1>1, <2>1, <2>2 DEF CacheInv, NothingSkipped
  <1>. QED  BY <1>1, <1>3, <1>4, <1>5 DEF CacheInv, BoardInv, LargestInv

LEMMA DieCache ==
    ASSUME SubTypeOK, CacheInv, NEW q \in Projector, ProjectorDies(q)
    PROVE  CacheInv'
  <1>1. /\ proj' = [proj EXCEPT ![q] = NoProj] /\ UNCHANGED <<events, board, outbox>>
        /\ upsets' = upsets + 1
    BY DEF ProjectorDies, Upset, ledgerVars
  <1>2. FoldInv'
    BY <1>1, LetGo, NoneIsNone DEF CacheInv, NoProj
  <1>3. OutboxInv'
    <2>1. MaxAttempts \in Nat \ {0} /\ upsets \in Nat /\ \A n \in SeqNo : outbox[n].attempts \in Nat
      BY SubmissionsAssumption DEF SubTypeOK, OutboxRow
    <2>. QED  BY <1>1, <2>1 DEF CacheInv, OutboxInv
  <1>. QED  BY <1>1, <1>2, <1>3 DEF CacheInv, BoardInv, LargestInv, NothingSkipped

LEMMA RebuildCache ==
    ASSUME SubTypeOK, CacheInv, Rebuild
    PROVE  CacheInv'
  <1>1. board' = NoBoard /\ UNCHANGED <<events, proj>> /\ upsets' = upsets + 1
    BY DEF Rebuild, Upset, ledgerVars
  <1>2. \A n \in SeqNo : outbox'[n] = IF \E e \in events : e.seq = n
                                      THEN [outbox[n] EXCEPT !.status = "pending"] ELSE outbox[n]
    BY DEF Rebuild
  <1>3. \A n \in SeqNo : /\ outbox'[n].attempts = outbox[n].attempts
                          /\ outbox'[n].status = IF \E e \in events : e.seq = n THEN "pending" ELSE outbox[n].status
    <2>. SUFFICES ASSUME NEW n \in SeqNo
                  PROVE  /\ outbox'[n].attempts = outbox[n].attempts
                         /\ outbox'[n].status = IF \E e \in events : e.seq = n THEN "pending" ELSE outbox[n].status
      OBVIOUS
    <2>1. outbox[n] \in OutboxRow
      BY DEF SubTypeOK
    <2>2. CASE \E e \in events : e.seq = n
      <3>1. outbox'[n] = [outbox[n] EXCEPT !.status = "pending"]
        BY <1>2, <2>2
      <3>. QED  BY <2>1, <2>2, <3>1 DEF OutboxRow
    <2>3. CASE ~ \E e \in events : e.seq = n
      BY <1>2, <2>3
    <2>. QED  BY <2>2, <2>3
  <1>4. OutboxInv'
    <2>1. MaxAttempts \in Nat \ {0} /\ upsets \in Nat /\ \A n \in SeqNo : outbox[n].attempts \in Nat
      BY SubmissionsAssumption DEF SubTypeOK, OutboxRow
    <2>. QED  BY <1>1, <1>3, <2>1 DEF CacheInv, OutboxInv
  <1>5. FoldInv'
    <2>1. \A q \in Projector : proj[q].fold.asOf \in Nat
      BY SubmissionsAssumption DEF SubTypeOK, ProjectionRun, Projection, SeqNo
    <2>. QED  BY <1>1, <2>1 DEF CacheInv, FoldInv, NoBoard
  <1>6. NothingSkipped'
    <2>1. \A e \in events : e.seq \in SeqNo
      BY DEF SubTypeOK, ScoreEvent
    <2>. QED  BY <1>1, <1>3, <2>1 DEF NothingSkipped
  <1>. QED  BY <1>1, <1>4, <1>5, <1>6 DEF CacheInv, BoardInv, LargestInv, NoBoard

LEMMA CacheStep == SubInv /\ [SubNext]_subVars => CacheInv'
  <1>. SUFFICES ASSUME SubInv, [SubNext]_subVars
                PROVE  CacheInv'
    OBVIOUS
  <1>0. SubTypeOK /\ LedgerInv /\ CacheInv
    BY DEF SubInv
  <1>. USE <1>0
  <1>1. ASSUME NEW v \in Server,
               \/ \E s \in Sub, i \in Slot, c \in BOOLEAN : Submit(v, s, i, c)
               \/ InsertSubmission(v) \/ Award(v) \/ RollBack(v)
        PROVE  CacheInv'
    BY <1>1, CacheSame DEF Submit, InsertSubmission, Replay, Award, RollBack, OnlyTx
  <1>2. ASSUME NEW v \in Server, AwardCommit(v) PROVE CacheInv'
    BY <1>2, CommitCache
  <1>3. ASSUME NEW q \in Projector, ClaimRows(q) PROVE CacheInv'
    BY <1>3, ClaimCache
  <1>4. ASSUME NEW q \in Projector, Refold(q) PROVE CacheInv'
    BY <1>4, RefoldCache
  <1>5. ASSUME NEW q \in Projector, Store(q) PROVE CacheInv'
    BY <1>5, StoreCache
  <1>6. ASSUME NEW q \in Projector, ProjectorFails(q, "mark") \/ ProjectorFails(q, "poison") PROVE CacheInv'
    BY <1>6, FailCache
  <1>7. ASSUME NEW q \in Projector, MarkRows(q) PROVE CacheInv'
    BY <1>7, MarkCache
  <1>8. ASSUME NEW q \in Projector, ProjectorDies(q) PROVE CacheInv'
    BY <1>8, DieCache
  <1>9. CASE Rebuild
    BY <1>9, RebuildCache
  <1>10. CASE UNCHANGED subVars
    BY <1>10, CacheSame DEF subVars, ledgerVars
  <1>. QED  BY <1>1, <1>2, <1>3, <1>4, <1>5, <1>6, <1>7, <1>8, <1>9, <1>10 DEF SubNext

-----------------------------------------------------------------------------
(* The theorems. *)

LEMMA SubInitInv == SubInit => SubInv
  <1>. SUFFICES ASSUME SubInit PROVE SubInv
    OBVIOUS
  <1>. USE SubmissionsAssumption, NoneIsNone DEF SubInit
  <1>1. SubTypeOK
    BY DEF SubTypeOK
  <1>2. LockInv /\ RowInv /\ NumberInv /\ SeqInv /\ ToldInv
    BY DEF LockInv, Busy, RowInv, Inserted, NumberInv, Solved, SeqInv, ToldInv, NoTx
  <1>3. AwardInv
    BY FS_EmptySet DEF AwardInv, OneAward
  <1>4. OutboxInv /\ BoardInv /\ LargestInv /\ FoldInv /\ NothingSkipped
    BY DEF OutboxInv, NoRow, BoardInv, NoBoard, LargestInv, FoldInv, NoProj, NothingSkipped
  <1>. QED  BY <1>1, <1>2, <1>3, <1>4 DEF SubInv, LedgerInv, CacheInv

LEMMA SubInvariant == SubSpec => []SubInv
  <1>1. SubInit => SubInv
    BY SubInitInv
  <1>2. SubInv /\ [SubNext]_subVars => SubInv'
    BY TypeStep, LedgerStep, CacheStep DEF SubInv
  <1>. QED  BY <1>1, <1>2, PTL DEF SubSpec

\* The variables keep their types, and a row of the outbox is tried at most
\* MaxAttempts times and once more per rebuild (mark_transient).
THEOREM SubTypeCorrect == SubSpec => []SubTypeOK
  <1>1. SubInv => SubTypeOK
    BY DEF SubInv
  <1>. QED  BY <1>1, SubInvariant, PTL

\* However submissions race, retry and roll back, a slot has one solve and one
\* score event, and every client that asks again hears the same outcome
\* (process_submission).
THEOREM SubmissionsSafeHolds == SubSpec => []SubmissionsSafe
  <1>1. SubInv => SubmissionsSafe
    BY DEF SubInv, LedgerInv, AwardInv, ToldInv, SubmissionsSafe, RetriesAgree
  <1>. QED  BY <1>1, SubInvariant, PTL

\* Although events commit out of sequence, projectors race, fail and die, and
\* the cache is rebuilt, no committed event is missing from the scoreboard
\* without a row in the outbox (run_once, rebuild).
THEOREM NothingSkippedHolds == SubSpec => []NothingSkipped
  <1>1. SubInv => NothingSkipped
    BY DEF SubInv, CacheInv
  <1>. QED  BY <1>1, SubInvariant, PTL

-----------------------------------------------------------------------------
(* Dashboard.  A token is in the table only until it is spent, and the line  *)
(* that is being written is the only one the list does not have.             *)

Tokens ==
    /\ dtok \in Nat /\ spent \in [Token -> Nat]
    /\ DOMAIN dsess \subseteq 1..dtok
    /\ \A k \in Token : k \in DOMAIN dsess \/ k > dtok => spent[k] = 0
    /\ TokenSpentOnce

Log ==
    /\ mem \in Seq(Nat) /\ file \in Seq(Nat)
    /\ dlock \in DThread \cup {Nobody}
    /\ thr = [t \in DThread |-> thr[t]]
    /\ \A t \in DThread : dup /\ thr[t].pc = "publish" <=> dlock = t
    /\ dup => /\ nextSeq = Len(mem) + 1
              /\ file = IF dlock = Nobody THEN mem ELSE Append(mem, nextSeq)
    /\ ~dup => mem = <<>> /\ \A t \in DThread : thr[t] = Free
    /\ LogNumbered

DashInv == Tokens /\ Log

LEMMA DashStart == DInit => DashInv
  <1>. SUFFICES ASSUME DInit PROVE DashInv
    OBVIOUS
  <1>1. Tokens
    BY DEF DInit, Tokens, Token, TokenSpentOnce
  <1>2. Log
    BY DashboardAssumption DEF DInit, Log, LogNumbered, Free
  <1>. QED  BY <1>1, <1>2 DEF DashInv

LEMMA TokensStep == DashInv /\ [DNext]_dVars => Tokens'
  <1>. SUFFICES ASSUME DashInv, [DNext]_dVars PROVE Tokens'
    OBVIOUS
  <1>1. CASE SessSame \/ UNCHANGED dVars
    BY <1>1 DEF SessSame, dVars, DashInv, Tokens, TokenSpentOnce
  <1>2. ASSUME NEW t \in DThread, HandleLogin(t) PROVE Tokens'
    BY <1>2 DEF HandleLogin, With, DashInv, Tokens, TokenSpentOnce, Token
  <1>3. ASSUME NEW t \in DThread, NEW k \in Token, HandleLogout(t, k) PROVE Tokens'
    BY <1>3 DEF HandleLogout, Without, DashInv, Tokens, TokenSpentOnce, Token
  <1>4. ASSUME NEW t \in DThread, Touch(t) PROVE Tokens'
    BY <1>4 DEF Touch, With, DashInv, Tokens, TokenSpentOnce, Token
  <1>5. ASSUME NEW t \in DThread, Rotate(t) PROVE Tokens'
    <2>1. CASE thr[t].tok \notin DOMAIN dsess
      BY <1>1, <1>5, <2>1 DEF Rotate
    <2>2. CASE thr[t].tok \in DOMAIN dsess
      <3>. DEFINE k == thr[t].tok
      <3>1. /\ dtok < MaxTok /\ dtok' = dtok + 1 /\ spent' = [spent EXCEPT ![k] = @ + 1]
            /\ DOMAIN dsess' = (DOMAIN dsess \ {k}) \cup {dtok + 1}
        BY <1>5, <2>2 DEF Rotate, Rotated, With, Without
      <3>2. k \in 1..dtok /\ k \in DOMAIN dsess
        BY <2>2 DEF DashInv, Tokens
      <3>. HIDE DEF k
      <3>3. spent' \in [Token -> Nat] /\ \A j \in Token : spent'[j] = IF j = k THEN spent[j] + 1 ELSE spent[j]
        <4>1. spent \in [Token -> Nat]
          BY DEF DashInv, Tokens
        <4>2. CASE k \in Token
          BY <3>1, <4>1, <4>2
        <4>3. CASE k \notin Token
          BY <3>1, <4>1, <4>3
        <4>. QED  BY <4>2, <4>3
      <3>. QED  BY <3>1, <3>2, <3>3 DEF DashInv, Tokens, TokenSpentOnce, Token
    <2>. QED  BY <2>1, <2>2
  <1>6. CASE Die
    BY <1>6 DEF Die, DashInv, Tokens, TokenSpentOnce
  <1>. QED
    BY <1>1, <1>2, <1>3, <1>4, <1>5, <1>6
    DEF DNext, HandleAdmin, WriteLine, Publish, Poll, Open, DTick

LEMMA LogStep == DashInv /\ [DNext]_dVars => Log'
  <1>. SUFFICES ASSUME DashInv, [DNext]_dVars PROVE Log'
    OBVIOUS
  <1>1. CASE UNCHANGED dVars
    BY <1>1 DEF dVars, DashInv, Log, LogNumbered
  <1>2. ASSUME UNCHANGED <<file, mem, nextSeq, dlock, dup>>, thr' = [t \in DThread |-> thr'[t]],
               \A t \in DThread : thr'[t] = thr[t] \/ (dup /\ thr[t].pc # "publish" /\ thr'[t].pc # "publish")
        PROVE  Log'
    BY <1>2 DEF DashInv, Log, LogNumbered
  <1>3. ASSUME NEW t \in DThread, HandleLogin(t) \/ Touch(t) \/ Rotate(t)
                              \/ \E k \in Token : HandleLogout(t, k) \/ \E m \in {"GET", "POST"} : HandleAdmin(t, k, m)
        PROVE  Log'
    <2>1. UNCHANGED <<file, mem, nextSeq, dlock, dup>> /\ dup
      BY <1>3 DEF HandleLogin, Touch, Rotate, HandleLogout, HandleAdmin, StoreSame
    <2>2. thr' = thr \/ \E pc \in {"rotate", "touch", "free", "event"} : \E k :
              thr[t].pc # "publish" /\ thr' = [thr EXCEPT ![t] = [pc |-> pc, tok |-> k]]
      BY <1>3 DEF HandleLogin, Touch, Rotate, HandleLogout, HandleAdmin, To
    <2>. QED  BY <1>2, <2>1, <2>2 DEF DashInv, Log
  <1>4. ASSUME NEW t \in DThread, WriteLine(t) PROVE Log'
    <2>1. /\ file' = Append(mem, nextSeq) /\ dlock' = t /\ UNCHANGED <<mem, nextSeq, dup>> /\ dup
          /\ thr' = [thr EXCEPT ![t] = [pc |-> "publish", tok |-> thr[t].tok]] /\ dlock = Nobody /\ nextSeq = Len(mem) + 1
      BY <1>4 DEF WriteLine, MayAppend, To, DashInv, Log
    <2>2. \A u \in DThread : thr[u].pc # "publish" /\ u # Nobody
      BY <2>1, DashboardAssumption DEF DashInv, Log
    <2>. QED  BY <2>1, <2>2 DEF DashInv, Log, LogNumbered
  <1>5. ASSUME NEW t \in DThread, Publish(t) PROVE Log'
    <2>1. /\ mem' = Append(mem, nextSeq) /\ dlock' = Nobody /\ dlock = t /\ UNCHANGED <<file, dup>> /\ dup
          /\ nextSeq' = nextSeq + 1 /\ thr' = [thr EXCEPT ![t] = [pc |-> "free", tok |-> 0]]
      BY <1>5 DEF Publish, To, SessSame, DashInv, Log
    <2>2. \A u \in DThread : u # Nobody /\ (u # t => thr[u].pc # "publish")
      BY <2>1, DashboardAssumption DEF DashInv, Log
    <2>3. mem' = file /\ nextSeq' = Len(mem') + 1 /\ mem' \in Seq(Nat)
      BY <2>1, <2>2 DEF DashInv, Log
    <2>4. LogNumbered'
      BY <2>1 DEF DashInv, Log, LogNumbered
    <2>5. thr' = [u \in DThread |-> thr'[u]] /\ \A u \in DThread : thr'[u].pc # "publish"
      BY <2>1, <2>2 DEF DashInv, Log
    <2>. QED  BY <2>1, <2>2, <2>3, <2>4, <2>5 DEF DashInv, Log
  <1>6. CASE Die
    <2>1. /\ dup' = FALSE /\ mem' = <<>> /\ dlock' = Nobody /\ thr' = [t \in DThread |-> Free] /\ dup
          /\ file' = file \/ (dlock # Nobody /\ file' \in {Front(file), Append(Front(file), Torn)})
      BY <1>6 DEF Die
    <2>2. file' \in Seq(Nat) /\ \A i \in 1..Len(file') : file'[i] \in {i, Torn}
      <3>1. CASE file' = file
        BY <3>1 DEF DashInv, Log, LogNumbered
      <3>2. CASE dlock # Nobody /\ file' \in {Front(file), Append(Front(file), Torn)}
        <4>1. /\ file = Append(mem, Len(mem) + 1) /\ mem \in Seq(Nat)
              /\ \A i \in 1..Len(mem) : mem[i] = i
          BY <2>1, <3>2 DEF DashInv, Log, LogNumbered
        <4>2. Len(file) - 1 = Len(mem) /\ file \in Seq(Nat) /\ \A i \in 1..Len(mem) : file[i] = i
          BY <4>1
        <4>3. Front(file) = SubSeq(file, 1, Len(mem))
          BY <4>2 DEF Front
        <4>4. /\ Front(file) \in Seq(Nat) /\ Len(Front(file)) = Len(mem)
              /\ \A i \in 1..Len(mem) : Front(file)[i] = i
          BY <4>1, <4>2, <4>3
        <4>5. CASE file' = Front(file)
          BY <4>4, <4>5
        <4>6. CASE file' = Append(Front(file), Torn)
          BY <4>4, <4>6 DEF Torn
        <4>. QED  BY <3>2, <4>5, <4>6
      <3>. QED  BY <2>1, <3>1, <3>2
    <2>. QED  BY <2>1, <2>2, DashboardAssumption DEF Log, LogNumbered, Free
  <1>7. CASE Open
    BY <1>7 DEF Open, DashInv, Log, LogNumbered, Free, Resume, Last, Torn
  <1>8. CASE Poll \/ DTick
    BY <1>2, <1>8 DEF Poll, DTick, StoreSame, DashInv, Log
  <1>. QED  BY <1>1, <1>3, <1>4, <1>5, <1>6, <1>7, <1>8 DEF DNext

-----------------------------------------------------------------------------
(* The pages.  The list holds 1, 2, 3, ..., so what comes after a cursor is  *)
(* the run of numbers that follows it.                                       *)

Pages ==
    /\ feed \in Seq(Nat)
    /\ FeedGapless

LEMMA SinceFacts ==
    ASSUME DashInv, NEW n \in Nat
    PROVE  LET s == Since(n) IN
           s \in Seq(Nat) /\ \A j \in 1..Len(s) : s[j] = n + j
  <1>. DEFINE kept == {i \in DOMAIN mem : mem[i] > n}
              Rank(i) == Cardinality({h \in kept : h <= i})
              L == Len(mem)
  <1>1. L \in Nat /\ DOMAIN mem = 1..L /\ \A i \in 1..L : mem[i] = i
    BY DEF DashInv, Log, LogNumbered
  <1>2. kept = (n + 1)..L
    BY <1>1
  <1>3. Cardinality(kept) = IF n + 1 <= L THEN L - n ELSE 0
    <2>1. n + 1 \in Int /\ L \in Int
      BY <1>1
    <2>2. Cardinality((n + 1)..L) = IF n + 1 > L THEN 0 ELSE L - (n + 1) + 1
      BY <2>1, FS_Interval
    <2>. HIDE DEF kept, L
    <2>3. Cardinality(kept) = IF n + 1 > L THEN 0 ELSE L - (n + 1) + 1
      BY <1>2, <2>2
    <2>. QED  BY <2>1, <2>3
  <1>4. ASSUME NEW i \in kept PROVE Rank(i) = i - n
    <2>1. i \in Nat /\ n + 1 <= i /\ i <= L
      BY <1>1, <1>2
    <2>. DEFINE low == {h \in kept : h <= i}
    <2>2. low = (n + 1)..i
      BY <1>1, <1>2, <2>1
    <2>a. n + 1 \in Int /\ i \in Int
      BY <2>1
    <2>3. Cardinality((n + 1)..i) = IF n + 1 > i THEN 0 ELSE i - (n + 1) + 1
      BY <2>a, FS_Interval
    <2>4. Rank(i) = Cardinality(low)
      OBVIOUS
    <2>. HIDE DEF low, Rank
    <2>5. Rank(i) = Cardinality((n + 1)..i)
      BY <2>2, <2>4
    <2>. QED  BY <2>1, <2>3, <2>5
  <1>. HIDE DEF Rank
  <1>5. PICK s : s = Since(n)
    OBVIOUS
  <1>6. s = [j \in 1..Cardinality(kept) |-> mem[CHOOSE i \in kept : Rank(i) = j]]
    BY <1>5 DEF Since, Filtered, Rank
  <1>7. ASSUME NEW j \in 1..Cardinality(kept) PROVE mem[CHOOSE i \in kept : Rank(i) = j] = n + j
    <2>1. n + j \in kept
      BY <1>1, <1>2, <1>3
    <2>2. \A i \in kept : Rank(i) = j <=> i = n + j
      BY <1>1, <1>2, <1>3, <1>4
    <2>3. (CHOOSE i \in kept : Rank(i) = j) = n + j
      BY <2>1, <2>2
    <2>. QED  BY <1>1, <1>2, <2>1, <2>3
  <1>. HIDE DEF kept
  <1>8. PICK N \in Nat : N = Cardinality(kept)
    <2>. HIDE DEF L
    <2>1. Cardinality(kept) \in Nat
      BY <1>1, <1>3
    <2>. QED  BY <2>1
  <1>9. s = [j \in 1..N |-> n + j]
    BY <1>6, <1>7, <1>8
  <1>. QED  BY <1>5, <1>9

LEMMA PagesStep == DashInv /\ Pages /\ [DNext]_dVars => Pages'
  <1>. SUFFICES ASSUME DashInv, Pages, [DNext]_dVars PROVE Pages'
    OBVIOUS
  <1>1. CASE UNCHANGED feed
    BY <1>1 DEF Pages, FeedGapless
  <1>2. CASE Poll
    <2>. DEFINE n == IF feed = <<>> THEN 0 ELSE Last(feed)
    <2>1. n = Len(feed) /\ n \in Nat
      BY DEF Pages, FeedGapless, Last
    <2>2. PICK s : s = Since(n)
      OBVIOUS
    <2>3. feed' = feed \o s
      BY <1>2, <2>2 DEF Poll
    <2>. HIDE DEF n
    <2>4. s \in Seq(Nat) /\ \A j \in 1..Len(s) : s[j] = n + j
      BY <2>1, <2>2, SinceFacts
    <2>5. feed' \in Seq(Nat) /\ Len(feed') = n + Len(s)
      BY <2>1, <2>3, <2>4 DEF Pages
    <2>6. ASSUME NEW i \in 1..Len(feed') PROVE feed'[i] = i
      <3>1. CASE i <= n
        BY <2>1, <2>3, <2>4, <2>5, <3>1 DEF Pages, FeedGapless
      <3>2. CASE i > n
        <4>1. i - n \in 1..Len(s) /\ feed'[i] = s[i - n]
          BY <2>1, <2>3, <2>4, <2>5, <2>6, <3>2 DEF Pages
        <4>. QED  BY <2>1, <2>4, <4>1
      <3>. QED  BY <2>1, <3>1, <3>2
    <2>. QED  BY <2>5, <2>6 DEF Pages, FeedGapless
  <1>. QED
    BY <1>1, <1>2
    DEF DNext, dVars, HandleLogin, Touch, Rotate, WriteLine, Publish, HandleLogout, HandleAdmin, Die, Open, DTick, StoreSame

\* Whatever threads race and however often the process dies, a token admits one
\* POST at most, the log is numbered without gap or repetition, and a page that
\* follows it receives each event once, in its place.
THEOREM DashboardSafeHolds == DSpec => []DashboardSafe
  <1>1. DInit => Pages
    BY DEF DInit, Pages, FeedGapless
  <1>2. DashInv /\ Pages => DashboardSafe
    BY DEF DashInv, Tokens, Log, Pages, DashboardSafe
  <1>. QED  BY <1>1, <1>2, DashStart, TokensStep, LogStep, PagesStep, PTL DEF DSpec, DashInv

-----------------------------------------------------------------------------
(* Induction, from the fact that the naturals are well founded.              *)

LEMMA LeastNatural == ASSUME NEW T, T \subseteq Nat, T # {} PROVE \E x \in T : \A y \in T : x <= y
<1> DEFINE R == OpToRel(<,Nat)
<1>1. IsWellFoundedOn(R, Nat) BY NatLessThanWellFounded
<1>2. \A x, y \in Nat : <<y,x>> \in R <=> y < x BY DEF OpToRel
<1> HIDE DEF R
<1>3. PICK x \in T : \A y \in T : ~ (<<y, x>> \in R) BY <1>1, WFMin
<1>4. \A y \in T : y \in Nat /\ x \in Nat /\ ~(y < x) BY <1>2, <1>3
<1> QED BY <1>4

LEMMA NaturalInduction == ASSUME NEW S, 0 \in S, \A n \in Nat : n \in S => n + 1 \in S PROVE Nat \subseteq S
<1> DEFINE T == Nat \ S
<1>1. SUFFICES ASSUME T # {} PROVE FALSE OBVIOUS
<1>2. PICK x \in T : \A y \in T : x <= y BY <1>1, LeastNatural
<1>3. x \in Nat /\ x # 0 BY <1>2
<1>4. x - 1 \in Nat /\ ~(x <= x - 1) BY <1>3
<1>5. x - 1 \in S BY <1>2, <1>4
<1>6. x \in S BY <1>4, <1>5, <1>3
<1> QED BY <1>6, <1>2

LEMMA GreatestIn == ASSUME NEW n \in Nat, NEW M \in SUBSET (1..n), M # {} PROVE \E m \in M : \A k \in M : k <= m
<1> DEFINE U == {n - m : m \in M}
<1>0. \A m \in M : m \in 1..n /\ n - m \in Nat OBVIOUS
<1>1. U \subseteq Nat /\ U # {} BY <1>0
<1>2. PICK u \in U : \A x \in U : u <= x
  <2> HIDE DEF U
  <2> QED BY <1>1, LeastNatural
<1>3. PICK m \in M : u = n - m BY <1>2
<1>4. ASSUME NEW k \in M PROVE k <= m
  <2>1. n - m <= n - k BY <1>2, <1>3
  <2> QED BY <2>1
<1> QED BY <1>4

LEMMA SubsetInduction == ASSUME NEW S, IsFiniteSet(S), NEW G,
                                \A R \in SUBSET S : (\A Q \in SUBSET R : Q # R => Q \in G) => R \in G
    PROVE SUBSET S \subseteq G
<1> DEFINE T == {Cardinality(R) : R \in (SUBSET S) \ G}
<1>1. \A R \in SUBSET S : IsFiniteSet(R) /\ Cardinality(R) \in Nat BY FS_Subset, FS_CardinalityType
<1>2. SUFFICES ASSUME (SUBSET S) \ G # {} PROVE FALSE OBVIOUS
<1>3. T \subseteq Nat /\ T # {} BY <1>1, <1>2
<1>4. PICK n \in T : \A m \in T : n <= m
  <2> HIDE DEF T
  <2> QED BY <1>3, LeastNatural
<1>5. PICK R \in (SUBSET S) \ G : Cardinality(R) = n BY <1>4
<1>6. PICK Q \in SUBSET R : Q # R /\ Q \notin G
  <2>1. R \in SUBSET S /\ R \notin G BY <1>5
  <2> QED BY <2>1
<1>7. Cardinality(Q) <= Cardinality(R) /\ Cardinality(Q) # Cardinality(R) BY <1>1, <1>5, <1>6, FS_Subset
<1>8. Cardinality(Q) \in T /\ Cardinality(Q) \in Nat /\ Cardinality(R) \in Nat BY <1>1, <1>5, <1>6
<1> QED BY <1>4, <1>5, <1>7, <1>8

-----------------------------------------------------------------------------
(* The scores.  First the arithmetic of the values.                          *)

LEMMA TimesMono == ASSUME NEW a \in Int, NEW b \in Int, NEW d \in Nat, a <= b PROVE a * d \in Int /\ b * d \in Int /\ a * d <= b * d
<1>1. PICK e \in Nat : b = a + e
  <2>1. b - a \in Nat /\ b = a + (b - a) OBVIOUS
  <2> QED BY <2>1
<1>2. b * d = a * d + e * d BY <1>1
<1>3. e * d \in Nat BY <1>1
<1>4. a * d \in Int /\ b * d \in Int OBVIOUS
<1> QED BY <1>2, <1>3, <1>4

LEMMA Divided == ASSUME NEW n \in Int, NEW d \in Nat \ {0}
    PROVE /\ n \div d \in Int /\ n % d \in Int
          /\ n = (n \div d) * d + (n % d) /\ 0 <= n % d /\ n % d < d
OBVIOUS

LEMMA RoundedMono == ASSUME NEW a \in Int, NEW b \in Int, NEW d \in Nat \ {0}, a <= b
    PROVE Rounded(a, d) \in Int /\ Rounded(a, d) <= Rounded(b, d)
<1>1. PICK q, m : q = a \div d /\ m = a % d OBVIOUS
<1>2. PICK p, k : p = b \div d /\ k = b % d OBVIOUS
<1>3. q \in Int /\ m \in Int /\ a = q * d + m /\ 0 <= m /\ m < d BY <1>1, Divided
<1>4. p \in Int /\ k \in Int /\ b = p * d + k /\ 0 <= k /\ k < d BY <1>2, Divided
<1>5. Rounded(a, d) = IF 2 * m < d \/ (2 * m = d /\ q % 2 = 0) THEN q ELSE q + 1 BY <1>1 DEF Rounded
<1>6. Rounded(b, d) = IF 2 * k < d \/ (2 * k = d /\ p % 2 = 0) THEN p ELSE p + 1 BY <1>2 DEF Rounded
<1>7. q <= p
  <2>1. SUFFICES ASSUME ~(q <= p) PROVE FALSE OBVIOUS
  <2>2. p + 1 <= q BY <2>1, <1>3, <1>4
  <2>3. (p + 1) * d \in Int /\ q * d \in Int /\ (p + 1) * d <= q * d
    <3>1. p + 1 \in Int BY <1>4
    <3> QED BY <1>3, <2>2, <3>1, TimesMono
  <2>4. p * d \in Int /\ (p + 1) * d = p * d + d BY <1>4
  <2> QED BY <1>3, <1>4, <2>3, <2>4
<1>8. CASE q < p BY <1>3, <1>4, <1>5, <1>6, <1>8
<1>9. CASE q = p
  <2>1. q * d \in Int /\ p * d = q * d BY <1>3, <1>9
  <2>2. m <= k BY <1>3, <1>4, <2>1
  <2> QED BY <1>3, <1>4, <1>5, <1>6, <1>9, <2>2
<1> QED BY <1>3, <1>4, <1>7, <1>8, <1>9

LEMMA RoundedExact == ASSUME NEW n \in Int, NEW d \in Nat \ {0} PROVE n * d \in Int /\ Rounded(n * d, d) = n
<1>0. n * d \in Int OBVIOUS
<1>1. PICK a : a = n * d OBVIOUS
<1>2. PICK q, m : q = a \div d /\ m = a % d OBVIOUS
<1>3. q \in Int /\ m \in Int /\ a = q * d + m /\ 0 <= m /\ m < d BY <1>0, <1>1, <1>2, Divided
<1>4. q = n
  <2>1. q * d \in Int BY <1>3
  <2>2. CASE q < n
    <3>1. q + 1 \in Int /\ q + 1 <= n BY <1>3, <2>2
    <3>2. (q + 1) * d \in Int /\ (q + 1) * d <= n * d BY <3>1, TimesMono
    <3>3. (q + 1) * d = q * d + d BY <1>3
    <3> QED BY <1>0, <1>1, <1>3, <2>1, <3>2, <3>3
  <2>3. CASE n < q
    <3>1. n + 1 \in Int /\ n + 1 <= q BY <1>3, <2>3
    <3>2. (n + 1) * d \in Int /\ (n + 1) * d <= q * d BY <1>3, <3>1, TimesMono
    <3>3. (n + 1) * d = n * d + d OBVIOUS
    <3> QED BY <1>0, <1>1, <1>3, <2>1, <3>2, <3>3
  <2> QED BY <1>3, <2>2, <2>3
<1>5. m = 0
  <2>1. q * d \in Int BY <1>3
  <2> QED BY <1>1, <1>3, <1>4, <2>1
<1>6. Rounded(a, d) = n
  <2>1. Rounded(a, d) = IF 2 * m < d \/ (2 * m = d /\ q % 2 = 0) THEN q ELSE q + 1 BY <1>2 DEF Rounded
  <2>2. 2 * m < d BY <1>5
  <2> QED BY <1>4, <2>1, <2>2
<1> QED BY <1>0, <1>1, <1>6

LEMMA RoundedBetween == ASSUME NEW a \in Int, NEW lo \in Int, NEW hi \in Int, NEW d \in Nat \ {0}, lo * d <= a, a <= hi * d
    PROVE Rounded(a, d) \in lo..hi
<1>1. lo * d \in Int /\ hi * d \in Int /\ Rounded(lo * d, d) = lo /\ Rounded(hi * d, d) = hi BY RoundedExact
<1>2. PICK x, y : x = lo * d /\ y = hi * d OBVIOUS
<1>3. x \in Int /\ y \in Int /\ x <= a /\ a <= y /\ Rounded(x, d) = lo /\ Rounded(y, d) = hi BY <1>1, <1>2
<1>4. Rounded(x, d) <= Rounded(a, d) BY <1>3, RoundedMono
<1>5. Rounded(a, d) \in Int /\ Rounded(a, d) <= Rounded(y, d) BY <1>3, RoundedMono
<1> QED BY <1>3, <1>4, <1>5

LEMMA ConfigTypes == ASSUME NEW c \in CompetitionConfig, ValidConfig(c)
    PROVE /\ c.initial \in Int /\ c.minimum \in Int /\ c.minimum <= c.initial /\ 0 <= c.minimum /\ c.decay \in Nat
          /\ c.points \in Nat /\ c.percent \in Nat /\ c.bonusOn \in BOOLEAN
          /\ c.start \in Int /\ c.end \in Int /\ c.freeze \in Int /\ c.start < c.end /\ c.freeze <= c.end
          /\ c.engine \in {"static", "dynamic_decay", "time_decay"}
          /\ c.initial - c.minimum \in Nat /\ c.end - c.start \in Nat \ {0}
BY DEF CompetitionConfig, ValidConfig

LEMMA Clamped == ASSUME NEW x \in Int, NEW y \in Int, NEW lo \in Int, NEW hi \in Int, lo <= hi, x <= y
    PROVE Clamp(x, lo, hi) \in lo..hi /\ Clamp(y, lo, hi) \in lo..hi /\ Clamp(x, lo, hi) <= Clamp(y, lo, hi)
BY DEF Clamp

LEMMA DecayFacts == ASSUME NEW c \in CompetitionConfig, ValidConfig(c), NEW n \in Nat
    PROVE /\ DynamicDecay(c, n) \in c.minimum..c.initial
          /\ DynamicDecay(c, n + 1) \in c.minimum..c.initial
          /\ DynamicDecay(c, n + 1) <= DynamicDecay(c, n)
<1>1. PICK lo, hi, g : lo = c.minimum /\ hi = c.initial /\ g = c.initial - c.minimum OBVIOUS
<1>2. lo \in Int /\ hi \in Int /\ lo <= hi /\ g \in Nat BY <1>1, ConfigTypes
<1>3. CASE c.fn = "static" \/ c.decay <= 0 BY <1>1, <1>2, <1>3 DEF DynamicDecay
<1>4. CASE ~(c.fn = "static" \/ c.decay <= 0)
  <2>1. PICK d : d = IF c.fn = "linear" THEN c.decay ELSE c.decay * c.decay OBVIOUS
  <2>2. PICK k, m : /\ k = (IF c.fn = "linear" THEN n ELSE n * n)
                    /\ m = (IF c.fn = "linear" THEN n + 1 ELSE (n + 1) * (n + 1)) OBVIOUS
  <2>3. d \in Nat \ {0}
    <3>1. c.decay \in Nat \ {0} BY <1>4, ConfigTypes
    <3>2. c.decay * c.decay \in Nat \ {0} BY <3>1
    <3> QED BY <2>1, <3>1, <3>2
  <2>4. k \in Nat /\ m \in Nat /\ k <= m
    <3>1. n * n \in Nat /\ (n + 1) * (n + 1) = n * n + 2 * n + 1 OBVIOUS
    <3> QED BY <2>2, <3>1
  <2>5. k * g \in Int /\ m * g \in Int /\ k * g <= m * g BY <1>2, <2>4, TimesMono
  <2>6. lo * d \in Int /\ hi * d \in Int /\ lo * d <= hi * d BY <1>2, <2>3, TimesMono
  <2>7. g * k = k * g /\ g * m = m * g BY <1>2, <2>4
  <2>8. PICK L, H, x, y : L = lo * d /\ H = hi * d /\ x = H - g * k /\ y = H - g * m OBVIOUS
  <2>9. L \in Int /\ H \in Int /\ L <= H /\ x \in Int /\ y \in Int /\ y <= x BY <2>5, <2>6, <2>7, <2>8
  <2>10. DynamicDecay(c, n) = Rounded(Clamp(x, L, H), d) BY <1>1, <1>4, <2>1, <2>2, <2>8 DEF DynamicDecay
  <2>11. DynamicDecay(c, n + 1) = Rounded(Clamp(y, L, H), d) BY <1>1, <1>4, <2>1, <2>2, <2>8 DEF DynamicDecay
  <2>12. PICK p, q : p = Clamp(x, L, H) /\ q = Clamp(y, L, H) OBVIOUS
  <2>13. p \in L..H /\ q \in L..H /\ q <= p BY <2>9, <2>12, Clamped
  <2>14. p \in Int /\ q \in Int /\ lo * d <= p /\ p <= hi * d /\ lo * d <= q /\ q <= hi * d BY <2>8, <2>9, <2>13
  <2>15. Rounded(p, d) \in lo..hi BY <1>2, <2>3, <2>14, RoundedBetween
  <2>16. Rounded(q, d) \in lo..hi BY <1>2, <2>3, <2>14, RoundedBetween
  <2>17. Rounded(q, d) <= Rounded(p, d) BY <2>3, <2>13, <2>14, RoundedMono
  <2> QED BY <1>1, <2>10, <2>11, <2>12, <2>15, <2>16, <2>17
<1> QED BY <1>3, <1>4

LEMMA ClockFacts == ASSUME NEW c \in CompetitionConfig, ValidConfig(c), NEW now \in Int
    PROVE /\ TimeDecay(c, now) \in c.minimum..c.initial
          /\ TimeDecay(c, now + 1) \in c.minimum..c.initial
          /\ TimeDecay(c, now + 1) <= TimeDecay(c, now)
          /\ now >= c.freeze => TimeDecay(c, now + 1) = TimeDecay(c, now)
<1>1. PICK lo, hi, g, w : lo = c.minimum /\ hi = c.initial /\ g = c.initial - c.minimum /\ w = c.end - c.start OBVIOUS
<1>2. lo \in Int /\ hi \in Int /\ lo <= hi /\ g \in Nat /\ g = hi - lo /\ w \in Nat \ {0} BY <1>1, ConfigTypes
<1> DEFINE E(t) == (IF t > c.freeze THEN c.freeze ELSE t) - c.start
           V(e) == IF e <= 0 THEN hi ELSE IF e >= w THEN lo ELSE Rounded(hi * w - g * e, w)
<1>3. \A t \in Int : TimeDecay(c, t) = V(E(t)) BY <1>1 DEF TimeDecay
<1>4. PICK a, b : a = E(now) /\ b = E(now + 1) OBVIOUS
<1>5. a \in Int /\ b \in Int /\ a <= b /\ (now >= c.freeze => a = b) BY <1>4, ConfigTypes
<1>6. TimeDecay(c, now) = V(a) /\ TimeDecay(c, now + 1) = V(b) BY <1>3, <1>4
<1> HIDE DEF E
<1>7. lo * w \in Int /\ hi * w \in Int BY <1>2
<1>8. ASSUME NEW e \in Int, e > 0, e < w
      PROVE hi * w - g * e \in Int /\ lo * w <= hi * w - g * e /\ hi * w - g * e <= hi * w
  <2>1. e \in Nat /\ g * e \in Nat BY <1>2, <1>8
  <2>2. e * g <= w * g /\ e * g \in Int /\ w * g \in Int
    <3>1. w \in Int /\ e <= w BY <1>2, <1>8
    <3> QED BY <1>2, <3>1, TimesMono
  <2>3. e * g = g * e /\ w * g = hi * w - lo * w BY <1>2, <1>8
  <2> QED BY <1>7, <2>1, <2>2, <2>3
<1>9. ASSUME NEW e \in Int PROVE V(e) \in lo..hi
  <2>1. CASE e <= 0 \/ e >= w BY <1>2, <2>1
  <2>2. CASE ~(e <= 0 \/ e >= w)
    <3>1. e > 0 /\ e < w BY <1>2, <2>2
    <3>2. PICK x : x = hi * w - g * e OBVIOUS
    <3>3. x \in Int /\ lo * w <= x /\ x <= hi * w BY <1>8, <3>1, <3>2
    <3>4. Rounded(x, w) \in lo..hi BY <1>2, <3>3, RoundedBetween
    <3> QED BY <2>2, <3>2, <3>4
  <2> QED BY <2>1, <2>2
<1>10. V(b) <= V(a)
  <2>1. CASE a <= 0
    <3>1. V(a) = hi /\ V(b) \in lo..hi BY <1>5, <1>9, <2>1
    <3> HIDE DEF V
    <3> QED BY <1>2, <3>1
  <2>2. CASE b >= w /\ ~(a <= 0)
    <3>1. b > 0 BY <1>2, <1>5, <2>2
    <3>2. V(b) = lo /\ V(a) \in lo..hi BY <1>2, <1>5, <1>9, <2>2, <3>1
    <3> HIDE DEF V
    <3> QED BY <1>2, <3>2
  <2>3. CASE ~(a <= 0) /\ ~(b >= w)
    <3>1. a > 0 /\ a < w /\ b > 0 /\ b < w BY <1>2, <1>5, <2>3
    <3>2. PICK x, y : x = hi * w - g * a /\ y = hi * w - g * b OBVIOUS
    <3>3. x \in Int /\ y \in Int BY <1>5, <1>8, <3>1, <3>2
    <3>4. a * g <= b * g /\ a * g \in Int /\ b * g \in Int BY <1>2, <1>5, TimesMono
    <3>5. a * g = g * a /\ b * g = g * b BY <1>2, <1>5
    <3>6. y <= x BY <1>7, <3>2, <3>4, <3>5
    <3>7. Rounded(y, w) <= Rounded(x, w) BY <1>2, <3>3, <3>6, RoundedMono
    <3>8. V(a) = Rounded(x, w) /\ V(b) = Rounded(y, w) BY <3>1, <3>2, <1>2, <1>5
    <3> HIDE DEF V
    <3> QED BY <3>7, <3>8
  <2> QED BY <2>1, <2>2, <2>3
<1>11. V(a) \in lo..hi /\ V(b) \in lo..hi BY <1>5, <1>9
<1> HIDE DEF V
<1> QED BY <1>1, <1>5, <1>6, <1>10, <1>11

LEMMA ValueFacts == ASSUME NEW c \in CompetitionConfig, ValidConfig(c), NEW n \in Nat, NEW now \in Int
    PROVE /\ ChallengeValue(c, n, now) \in c.minimum..c.initial
          /\ ChallengeValue(c, n + 1, now) \in c.minimum..c.initial
          /\ ChallengeValue(c, n + 1, now) <= ChallengeValue(c, n, now)
          /\ ChallengeValue(c, n, now + 1) <= ChallengeValue(c, n, now)
          /\ now >= c.freeze => ChallengeValue(c, n, now + 1) = ChallengeValue(c, n, now)
<1>1. c.initial \in Int /\ c.minimum \in Int /\ c.minimum <= c.initial BY ConfigTypes
<1>2. c.engine \in {"static", "dynamic_decay", "time_decay"} BY ConfigTypes
<1>3. CASE c.engine = "static" BY <1>1, <1>3 DEF ChallengeValue
<1>4. CASE c.engine = "dynamic_decay"
  <2>1. \A k \in Nat, t \in Int : ChallengeValue(c, k, t) = DynamicDecay(c, k) BY <1>4 DEF ChallengeValue
  <2>2. n + 1 \in Nat /\ now + 1 \in Int OBVIOUS
  <2>3. PICK x, y : x = DynamicDecay(c, n) /\ y = DynamicDecay(c, n + 1) OBVIOUS
  <2>4. x \in c.minimum..c.initial /\ y \in c.minimum..c.initial /\ y <= x BY <2>3, DecayFacts
  <2>5. ChallengeValue(c, n, now) = x /\ ChallengeValue(c, n + 1, now) = y /\ ChallengeValue(c, n, now + 1) = x
    BY <2>1, <2>2, <2>3
  <2> QED BY <1>1, <2>4, <2>5
<1>5. CASE c.engine = "time_decay"
  <2>1. \A k \in Nat, t \in Int : ChallengeValue(c, k, t) = TimeDecay(c, t) BY <1>5 DEF ChallengeValue
  <2>2. n + 1 \in Nat /\ now + 1 \in Int OBVIOUS
  <2>3. PICK x, y : x = TimeDecay(c, now) /\ y = TimeDecay(c, now + 1) OBVIOUS
  <2>4. x \in c.minimum..c.initial /\ y \in c.minimum..c.initial /\ y <= x /\ (now >= c.freeze => y = x) BY <2>3, ClockFacts
  <2>5. ChallengeValue(c, n, now) = x /\ ChallengeValue(c, n + 1, now) = x /\ ChallengeValue(c, n, now + 1) = y
    BY <2>1, <2>2, <2>3
  <2> QED BY <1>1, <2>4, <2>5
<1> QED BY <1>2, <1>3, <1>4, <1>5

LEMMA BonusFacts == ASSUME NEW c \in CompetitionConfig, ValidConfig(c), NEW v \in Nat, NEW u \in Nat, v <= u
    PROVE FirstBloodBonus(c, v) \in Nat /\ FirstBloodBonus(c, u) \in Nat /\ FirstBloodBonus(c, v) <= FirstBloodBonus(c, u)
<1>1. c.points \in Nat /\ c.percent \in Nat BY ConfigTypes
<1>2. CASE ~c.bonusOn BY <1>2 DEF FirstBloodBonus
<1>3. CASE c.bonusOn
  <2>1. v * c.percent \in Nat /\ u * c.percent \in Nat /\ v * c.percent <= u * c.percent
    <3>1. v \in Int /\ u \in Int OBVIOUS
    <3>2. v * c.percent <= u * c.percent BY <1>1, <3>1, TimesMono
    <3> QED BY <1>1, <3>2
  <2>2. PICK x, y : x = 100 * c.points + v * c.percent /\ y = 100 * c.points + u * c.percent OBVIOUS
  <2>3. x \in Int /\ y \in Int /\ 0 <= x /\ x <= y BY <1>1, <2>1, <2>2
  <2>4. Rounded(x, 100) \in Int /\ Rounded(x, 100) <= Rounded(y, 100) BY <2>3, RoundedMono
  <2>5. Rounded(y, 100) \in Int
    <3>1. y <= y BY <2>3
    <3> QED BY <2>3, <3>1, RoundedMono
  <2>6. Rounded(0, 100) = 0
    <3>1. 0 * 100 \in Int /\ Rounded(0 * 100, 100) = 0 BY RoundedExact
    <3> QED BY <3>1
  <2>7. Rounded(0, 100) <= Rounded(x, 100) BY <2>3, RoundedMono
  <2>8. FirstBloodBonus(c, v) = Rounded(x, 100) /\ FirstBloodBonus(c, u) = Rounded(y, 100) BY <1>3, <2>2 DEF FirstBloodBonus
  <2> QED BY <2>4, <2>5, <2>6, <2>7, <2>8
<1> QED BY <1>2, <1>3

-----------------------------------------------------------------------------
(* The fold that keeps the earliest solves, by induction on the log.         *)

SolveEvent == [type : {"solve"}, team : ScTeam, challenge : ScChallenge, at : ScTime, id : 1..2]
Kept == [ScTeam \X ScChallenge -> SolveEvent \cup {NoSolve}]
NoneKept == [pair \in ScTeam \X ScChallenge |-> NoSolve]
KeepOne(kept, e, when) == IF Included(e, when) THEN Keep(kept, e) ELSE kept
DedupOne(f, l, when, s) == IF s = {} THEN NoneKept ELSE KeepOne(f[s \ {Max(s)}], l[Max(s)], when)
IsDedup(f, l, when) == f = [s \in SUBSET (DOMAIN l) |-> DedupOne(f, l, when, s)]
DedupOf(l, when) == CHOOSE f : IsDedup(f, l, when)

LEMMA DedupIs == ASSUME NEW l, NEW when PROVE Deduped(l, when) = DedupOf(l, when)[DOMAIN l]
BY DEF Deduped, FoldLeft, MapThenFoldSet, DedupOf, IsDedup, DedupOne, KeepOne, NoneKept

LEMMA MaxOf == ASSUME NEW n \in Nat, NEW s \in SUBSET (1..n), s # {} PROVE Max(s) \in s /\ \A x \in s : x <= Max(s)
<1>1. PICK m \in s : \A k \in s : k <= m BY GreatestIn
<1>2. \E x \in s : \A y \in s : x >= y
  <2>1. \A y \in s : m >= y BY <1>1
  <2> QED BY <2>1
<1>3. Max(s) \in s /\ \A y \in s : Max(s) >= y BY <1>2 DEF Max
<1>4. \A x \in s : x <= Max(s) BY <1>3
<1> QED BY <1>3, <1>4

LEMMA DedupExists == ASSUME NEW l \in Seq(Event), NEW when PROVE IsDedup(DedupOf(l, when), l, when)
<1> DEFINE S == 1..Len(l)
           D(n) == {s \in SUBSET S : Cardinality(s) <= n}
           N == {n \in Nat : \E g : g = [s \in D(n) |-> DedupOne(g, l, when, s)]}
<1>0. Len(l) \in Nat /\ DOMAIN l = S OBVIOUS
<1>a. IsFiniteSet(S)
  <2>1. 1 \in Int /\ Len(l) \in Int BY <1>0
  <2> QED BY <2>1, FS_Interval
<1>1. \A s \in SUBSET S : IsFiniteSet(s) /\ Cardinality(s) \in Nat /\ Cardinality(s) <= Cardinality(S)
  <2> HIDE DEF S
  <2> QED BY <1>a, FS_Subset, FS_CardinalityType
<1>2. 0 \in N
  <2> DEFINE g == [s \in D(0) |-> NoneKept]
  <2>1. \A s \in D(0) : s = {}
    <3> SUFFICES ASSUME NEW s \in D(0) PROVE s = {} OBVIOUS
    <3>1. IsFiniteSet(s) /\ Cardinality(s) = 0 BY <1>1
    <3> QED BY <3>1, FS_EmptySet
  <2>2. g = [s \in D(0) |-> DedupOne(g, l, when, s)] BY <2>1 DEF DedupOne
  <2> QED BY <2>2
<1>3. ASSUME NEW n \in Nat, n \in N PROVE n + 1 \in N
  <2>1. PICK g : g = [s \in D(n) |-> DedupOne(g, l, when, s)] BY <1>3
  <2> DEFINE h == [s \in D(n + 1) |-> DedupOne(g, l, when, s)]
  <2>2. \A s \in D(n + 1) : h[s] = DedupOne(h, l, when, s)
    <3> SUFFICES ASSUME NEW s \in D(n + 1) PROVE h[s] = DedupOne(h, l, when, s) OBVIOUS
    <3>0. h[s] = DedupOne(g, l, when, s) OBVIOUS
    <3>1. CASE s = {}
      <4> HIDE DEF h
      <4> QED BY <3>0, <3>1 DEF DedupOne
    <3>2. CASE s # {}
      <4>1. Max(s) \in s
        <5>1. s \in SUBSET (1..Len(l)) OBVIOUS
        <5> QED BY <1>0, <3>2, <5>1, MaxOf
      <4>2. PICK m : m = Max(s) OBVIOUS
      <4>3. m \in s /\ s \in SUBSET S /\ s \ {m} \in SUBSET S BY <4>1, <4>2
      <4>4. Cardinality(s) = Cardinality(s \ {m}) + 1 /\ Cardinality(s \ {m}) \in Nat /\ Cardinality(s) <= n + 1
        <5>1. IsFiniteSet(s) BY <1>1, <4>3
        <5>2. Cardinality(s \ {m}) = Cardinality(s) - 1 BY <4>3, <5>1, FS_RemoveElement
        <5>3. Cardinality(s \ {m}) \in Nat /\ Cardinality(s) \in Nat BY <1>1, <4>3
        <5> QED BY <5>2, <5>3
      <4>5. Cardinality(s \ {m}) <= n /\ Cardinality(s \ {m}) <= n + 1 BY <1>3, <4>4
      <4>6. s \ {m} \in D(n) /\ s \ {m} \in D(n + 1) BY <4>3, <4>5
      <4>7. h[s \ {m}] = g[s \ {m}] BY <2>1, <4>6
      <4> HIDE DEF h
      <4> QED BY <3>0, <3>2, <4>2, <4>7 DEF DedupOne
    <3> QED BY <3>1, <3>2
  <2>3. h = [s \in D(n + 1) |-> DedupOne(h, l, when, s)] BY <2>2
  <2>4. n + 1 \in Nat BY <1>3
  <2> HIDE DEF h
  <2>5. \E k : k = [s \in D(n + 1) |-> DedupOne(k, l, when, s)] BY <2>3
  <2> QED BY <2>4, <2>5
<1>4. Cardinality(S) \in N /\ D(Cardinality(S)) = SUBSET S
  <2>1. Nat \subseteq N
    <3> HIDE DEF N
    <3> QED BY <1>2, <1>3, NaturalInduction
  <2> QED BY <1>1, <2>1
<1>5. \E g : IsDedup(g, l, when) BY <1>0, <1>4 DEF IsDedup
<1> QED BY <1>5 DEF DedupOf

\* The solves of a pair among the first n events.
Until(l, when, n, t, c) ==
    {l[i] : i \in {j \in 1..n : Included(l[j], when) /\ l[j].team = t /\ l[j].challenge = c}}
Earliest(k, mine) == IF mine = {} THEN k = NoSolve ELSE k \in mine /\ \A s \in mine : ~Earlier(s, k)

LEMMA SolveNumbers == \A s \in SolveEvent : s.at \in Int /\ s.id \in Int /\ s.team \in Int
<1> SUFFICES ASSUME NEW s \in SolveEvent PROVE s.at \in Int /\ s.id \in Int /\ s.team \in Int OBVIOUS
<1>1. s.at \in ScTime /\ s.id \in 1..2 /\ s.team \in ScTeam BY DEF SolveEvent
<1>2. ScTime \subseteq Int /\ ScTeam \subseteq Int BY ScoresAssumption
<1>3. s.at \in Int BY <1>1, <1>2
<1>4. s.team \in Int BY <1>1, <1>2
<1> QED BY <1>1, <1>3, <1>4

LEMMA EarlierOrder == ASSUME NEW a \in SolveEvent, NEW b \in SolveEvent
    PROVE /\ ~Earlier(a, a)
          /\ Earlier(a, b) => ~Earlier(b, a)
          /\ a.team = b.team /\ a.challenge = b.challenge /\ ~Earlier(a, b) /\ ~Earlier(b, a) => a = b
          /\ \A s \in SolveEvent : Earlier(s, a) /\ Earlier(a, b) => Earlier(s, b)
          /\ \A s \in SolveEvent : Earlier(s, a) /\ ~Earlier(b, a) => Earlier(s, b)
<1>1. \A s \in SolveEvent : s.at \in Int /\ s.id \in Int /\ s.team \in Int BY SolveNumbers
<1>2. /\ ~Earlier(a, a)
      /\ Earlier(a, b) => ~Earlier(b, a)
      /\ \A s \in SolveEvent : Earlier(s, a) /\ Earlier(a, b) => Earlier(s, b)
      /\ \A s \in SolveEvent : Earlier(s, a) /\ ~Earlier(b, a) => Earlier(s, b)
  BY <1>1 DEF Earlier
<1>3. ASSUME a.team = b.team, a.challenge = b.challenge, ~Earlier(a, b), ~Earlier(b, a) PROVE a = b
  <2>1. a.at = b.at /\ a.id = b.id BY <1>1, <1>3 DEF Earlier
  <2>2. a.type = b.type BY DEF SolveEvent
  <2> QED BY <1>3, <2>1, <2>2 DEF SolveEvent
<1> QED BY <1>2, <1>3

LEMMA UntilGrows == ASSUME NEW l \in Seq(Event), NEW when, NEW n \in Nat, n + 1 <= Len(l), NEW t, NEW c
    PROVE Until(l, when, n + 1, t, c) =
              Until(l, when, n, t, c) \cup (IF Included(l[n + 1], when) /\ l[n + 1].team = t /\ l[n + 1].challenge = c
                                            THEN {l[n + 1]} ELSE {})
<1>1. 1..(n + 1) = 1..n \cup {n + 1} OBVIOUS
<1> QED BY <1>1 DEF Until

LEMMA IncludedSolve == ASSUME NEW e \in Event, NEW when, Included(e, when) PROVE e \in SolveEvent
BY DEF Included, Event, SolveEvent

LEMMA KeepStep == ASSUME NEW k \in Kept, NEW e \in SolveEvent
    PROVE /\ Keep(k, e) \in Kept
          /\ \A p \in ScTeam \X ScChallenge : p # <<e.team, e.challenge>> => Keep(k, e)[p] = k[p]
          /\ Keep(k, e)[<<e.team, e.challenge>>] =
                 IF k[<<e.team, e.challenge>>] = NoSolve \/ Earlier(e, k[<<e.team, e.challenge>>])
                 THEN e ELSE k[<<e.team, e.challenge>>]
<1>1. PICK p : p = <<e.team, e.challenge>> OBVIOUS
<1>2. p \in ScTeam \X ScChallenge BY <1>1 DEF SolveEvent
<1>3. Keep(k, e) = IF k[p] = NoSolve \/ Earlier(e, k[p]) THEN [k EXCEPT ![p] = e] ELSE k BY <1>1 DEF Keep
<1> QED BY <1>1, <1>2, <1>3 DEF Kept

LEMMA NotNoSolve == \A s \in SolveEvent : s # NoSolve
BY DEF SolveEvent, NoSolve

LEMMA EarliestKept ==
    ASSUME NEW k \in Kept, NEW e \in SolveEvent, NEW t \in ScTeam, NEW c \in ScChallenge, NEW mine \in SUBSET SolveEvent,
           Earliest(k[<<t, c>>], mine)
    PROVE Earliest(Keep(k, e)[<<t, c>>], mine \cup (IF e.team = t /\ e.challenge = c THEN {e} ELSE {}))
<1>1. CASE ~(e.team = t /\ e.challenge = c)
  <2>1. <<t, c>> \in ScTeam \X ScChallenge /\ <<t, c>> # <<e.team, e.challenge>> BY <1>1
  <2>2. Keep(k, e)[<<t, c>>] = k[<<t, c>>] BY <2>1, KeepStep
  <2> QED BY <1>1, <2>2
<1>2. CASE e.team = t /\ e.challenge = c
  <2>1. PICK o, n : o = k[<<t, c>>] /\ n = Keep(k, e)[<<t, c>>] OBVIOUS
  <2>2. n = IF o = NoSolve \/ Earlier(e, o) THEN e ELSE o BY <1>2, <2>1, KeepStep
  <2>3. Earliest(o, mine) BY <2>1
  <2>4. CASE mine = {}
    <3>1. n = e BY <2>2, <2>3, <2>4 DEF Earliest
    <3> QED BY <1>2, <2>1, <2>4, <3>1, EarlierOrder DEF Earliest
  <2>5. CASE mine # {}
    <3>1. o \in mine /\ o \in SolveEvent /\ o # NoSolve /\ \A s \in mine : ~Earlier(s, o) BY <2>3, <2>5, NotNoSolve DEF Earliest
    <3>2. CASE Earlier(e, o)
      <4>1. n = e BY <2>2, <3>2
      <4>2. \A s \in mine : ~Earlier(s, e) BY <3>1, <3>2, EarlierOrder
      <4> QED BY <1>2, <2>1, <4>1, <4>2, EarlierOrder DEF Earliest
    <3>3. CASE ~Earlier(e, o)
      <4>1. n = o BY <2>2, <3>1, <3>3
      <4> QED BY <1>2, <2>1, <3>1, <3>3, <4>1 DEF Earliest
    <3> QED BY <3>2, <3>3
  <2> QED BY <2>4, <2>5
<1> QED BY <1>1, <1>2

\* What the fold keeps: for each team and challenge its earliest solve.
LEMMA DedupFacts == ASSUME NEW l \in Seq(Event), NEW when
    PROVE /\ Deduped(l, when) \in Kept
          /\ \A t \in ScTeam, c \in ScChallenge :
                /\ SolvesOf(l, when, t, c) \subseteq SolveEvent
                /\ Earliest(Deduped(l, when)[<<t, c>>], SolvesOf(l, when, t, c))
<1>1. PICK f : f = DedupOf(l, when) OBVIOUS
<1>2. IsDedup(f, l, when) BY <1>1, DedupExists
<1>3. DOMAIN l = 1..Len(l) /\ Len(l) \in Nat OBVIOUS
<1>4. \A s \in SUBSET (1..Len(l)) : f[s] = DedupOne(f, l, when, s) BY <1>2, <1>3 DEF IsDedup
<1> DEFINE Good(n) == /\ f[1..n] \in Kept
                      /\ \A t \in ScTeam, c \in ScChallenge :
                            /\ Until(l, when, n, t, c) \subseteq SolveEvent
                            /\ Earliest(f[1..n][<<t, c>>], Until(l, when, n, t, c))
           G == {n \in Nat : n <= Len(l) => Good(n)}
<1>5. 0 \in G
  <2>1. 1..0 = {} OBVIOUS
  <2>2. f[1..0] = NoneKept BY <1>4, <2>1 DEF DedupOne
  <2>3. NoneKept \in Kept /\ \A t \in ScTeam, c \in ScChallenge : NoneKept[<<t, c>>] = NoSolve BY DEF NoneKept, Kept
  <2>4. \A t \in ScTeam, c \in ScChallenge : Until(l, when, 0, t, c) = {} BY <2>1 DEF Until
  <2>5. Good(0) BY <2>2, <2>3, <2>4 DEF Earliest
  <2> HIDE DEF Good
  <2> QED BY <2>5
<1>6. ASSUME NEW n \in Nat, n \in G PROVE n + 1 \in G
  <2>1. SUFFICES ASSUME n + 1 <= Len(l) PROVE Good(n + 1)
    <3> HIDE DEF Good
    <3> QED OBVIOUS
  <2>2. Good(n)
    <3>1. n <= Len(l) BY <1>3, <2>1
    <3> HIDE DEF Good
    <3> QED BY <1>6, <3>1
  <2>3. PICK e : e = l[n + 1] OBVIOUS
  <2>4. e \in Event
    <3>1. n + 1 \in 1..Len(l) BY <1>3, <2>1
    <3> QED BY <2>3, <3>1
  <2>5. f[1..(n + 1)] = KeepOne(f[1..n], e, when)
    <3>1. 1..(n + 1) \in SUBSET (1..Len(l)) /\ n + 1 \in 1..(n + 1) BY <1>3, <2>1
    <3>2. PICK m : m = Max(1..(n + 1)) OBVIOUS
    <3>3. m \in 1..(n + 1) /\ n + 1 <= m BY <1>3, <3>1, <3>2, MaxOf
    <3>4. m = n + 1 BY <3>3
    <3>5. (1..(n + 1)) \ {n + 1} = 1..n OBVIOUS
    <3> QED BY <1>4, <2>3, <3>1, <3>2, <3>4, <3>5 DEF DedupOne
  <2>6. PICK k : k = f[1..n] OBVIOUS
  <2>7. k \in Kept /\ \A t \in ScTeam, c \in ScChallenge :
            Until(l, when, n, t, c) \subseteq SolveEvent /\ Earliest(k[<<t, c>>], Until(l, when, n, t, c))
    BY <2>2, <2>6
  <2>8. \A t, c : Until(l, when, n + 1, t, c) =
            Until(l, when, n, t, c) \cup (IF Included(e, when) /\ e.team = t /\ e.challenge = c THEN {e} ELSE {})
    BY <2>1, <2>3, UntilGrows
  <2>9. CASE ~Included(e, when)
    <3>1. f[1..(n + 1)] = k BY <2>5, <2>6, <2>9 DEF KeepOne
    <3>2. \A t, c : Until(l, when, n + 1, t, c) = Until(l, when, n, t, c) BY <2>8, <2>9
    <3> QED BY <2>7, <3>1, <3>2
  <2>10. CASE Included(e, when)
    <3>1. e \in SolveEvent BY <2>4, <2>10, IncludedSolve
    <3>2. f[1..(n + 1)] = Keep(k, e) BY <2>5, <2>6, <2>10 DEF KeepOne
    <3>3. Keep(k, e) \in Kept BY <2>7, <3>1, KeepStep
    <3>4. ASSUME NEW t \in ScTeam, NEW c \in ScChallenge
          PROVE /\ Until(l, when, n + 1, t, c) \subseteq SolveEvent
                /\ Earliest(Keep(k, e)[<<t, c>>], Until(l, when, n + 1, t, c))
      <4>1. PICK mine : mine = Until(l, when, n, t, c) OBVIOUS
      <4>2. mine \in SUBSET SolveEvent /\ Earliest(k[<<t, c>>], mine) BY <2>7, <4>1
      <4>3. Earliest(Keep(k, e)[<<t, c>>], mine \cup (IF e.team = t /\ e.challenge = c THEN {e} ELSE {}))
        BY <2>7, <3>1, <4>2, EarliestKept
      <4>4. Until(l, when, n + 1, t, c) = mine \cup (IF e.team = t /\ e.challenge = c THEN {e} ELSE {}) BY <2>8, <2>10, <4>1
      <4> QED BY <3>1, <4>2, <4>3, <4>4
    <3> QED BY <3>2, <3>3, <3>4
  <2> QED BY <2>9, <2>10
<1>7. Nat \subseteq G
  <2> HIDE DEF G
  <2> QED BY <1>5, <1>6, NaturalInduction
<1>8. Good(Len(l))
  <2>1. Len(l) <= Len(l) /\ Len(l) \in G BY <1>3, <1>7
  <2> HIDE DEF Good
  <2> QED BY <2>1
<1>9. Deduped(l, when) = f[1..Len(l)] BY <1>1, <1>3, DedupIs
<1>10. \A t, c : SolvesOf(l, when, t, c) = Until(l, when, Len(l), t, c) BY DEF SolvesOf, Until
<1> QED BY <1>8, <1>9, <1>10

-----------------------------------------------------------------------------
(* Sums over the challenges, and who gains by an event.                      *)

Some(s) == CHOOSE x \in s : TRUE
SumOne(f, F, s) == IF s = {} THEN 0 ELSE F[Some(s)] + f[s \ {Some(s)}]
IsSum(f, F, S) == f = [s \in SUBSET S |-> SumOne(f, F, s)]
SumOf(F, S) == CHOOSE f : IsSum(f, F, S)

LEMMA SumIs == ASSUME NEW F PROVE FoldFunction(+, 0, F) = SumOf(F, DOMAIN F)[DOMAIN F]
BY DEF FoldFunction, FoldFunctionOnSet, MapThenFoldSet, SumOf, IsSum, SumOne, Some

LEMMA SumExists == ASSUME NEW S, IsFiniteSet(S), NEW F PROVE IsSum(SumOf(F, S), F, S)
<1> DEFINE D(n) == {s \in SUBSET S : Cardinality(s) <= n}
           N == {n \in Nat : \E g : g = [s \in D(n) |-> SumOne(g, F, s)]}
<1>1. \A s \in SUBSET S : IsFiniteSet(s) /\ Cardinality(s) \in Nat /\ Cardinality(s) <= Cardinality(S)
  BY FS_Subset, FS_CardinalityType
<1>2. 0 \in N
  <2> DEFINE g == [s \in D(0) |-> 0]
  <2>1. \A s \in D(0) : s = {}
    <3> SUFFICES ASSUME NEW s \in D(0) PROVE s = {} OBVIOUS
    <3>1. IsFiniteSet(s) /\ Cardinality(s) = 0 BY <1>1
    <3> QED BY <3>1, FS_EmptySet
  <2>2. g = [s \in D(0) |-> SumOne(g, F, s)] BY <2>1 DEF SumOne
  <2> QED BY <2>2
<1>3. ASSUME NEW n \in Nat, n \in N PROVE n + 1 \in N
  <2>1. PICK g : g = [s \in D(n) |-> SumOne(g, F, s)] BY <1>3
  <2> DEFINE h == [s \in D(n + 1) |-> SumOne(g, F, s)]
  <2>2. \A s \in D(n + 1) : h[s] = SumOne(h, F, s)
    <3> SUFFICES ASSUME NEW s \in D(n + 1) PROVE h[s] = SumOne(h, F, s) OBVIOUS
    <3>0. h[s] = SumOne(g, F, s) OBVIOUS
    <3>1. CASE s = {}
      <4> HIDE DEF h
      <4> QED BY <3>0, <3>1 DEF SumOne
    <3>2. CASE s # {}
      <4>1. PICK m : m = Some(s) OBVIOUS
      <4>2. m \in s /\ s \in SUBSET S /\ s \ {m} \in SUBSET S BY <3>2, <4>1 DEF Some
      <4>3. Cardinality(s \ {m}) <= n /\ Cardinality(s \ {m}) <= n + 1
        <5>1. IsFiniteSet(s) BY <1>1, <4>2
        <5>2. Cardinality(s \ {m}) = Cardinality(s) - 1 BY <4>2, <5>1, FS_RemoveElement
        <5>3. Cardinality(s \ {m}) \in Nat /\ Cardinality(s) \in Nat /\ Cardinality(s) <= n + 1 BY <1>1, <4>2
        <5> QED BY <1>3, <5>2, <5>3
      <4>4. s \ {m} \in D(n) /\ s \ {m} \in D(n + 1) BY <4>2, <4>3
      <4>5. h[s \ {m}] = g[s \ {m}] BY <2>1, <4>4
      <4> HIDE DEF h
      <4> QED BY <3>0, <3>2, <4>1, <4>5 DEF SumOne
    <3> QED BY <3>1, <3>2
  <2>3. h = [s \in D(n + 1) |-> SumOne(h, F, s)] BY <2>2
  <2>4. n + 1 \in Nat BY <1>3
  <2> HIDE DEF h
  <2>5. \E k : k = [s \in D(n + 1) |-> SumOne(k, F, s)] BY <2>3
  <2> QED BY <2>4, <2>5
<1>4. Cardinality(S) \in N /\ D(Cardinality(S)) = SUBSET S
  <2>1. Nat \subseteq N
    <3> HIDE DEF N
    <3> QED BY <1>2, <1>3, NaturalInduction
  <2> QED BY <1>1, <2>1, FS_CardinalityType
<1>5. \E g : IsSum(g, F, S) BY <1>4 DEF IsSum
<1> QED BY <1>5 DEF SumOf

LEMMA SumsMono == ASSUME NEW S, IsFiniteSet(S), NEW F \in [S -> Int], NEW G \in [S -> Int], \A x \in S : F[x] <= G[x]
    PROVE FoldFunction(+, 0, F) <= FoldFunction(+, 0, G)
<1>1. PICK f, g : f = SumOf(F, S) /\ g = SumOf(G, S) OBVIOUS
<1>2. IsSum(f, F, S) /\ IsSum(g, G, S) BY <1>1, SumExists
<1> DEFINE H == {s \in SUBSET S : f[s] \in Int /\ g[s] \in Int /\ f[s] <= g[s]}
<1>3. ASSUME NEW s \in SUBSET S, \A q \in SUBSET s : q # s => q \in H PROVE s \in H
  <2>1. f[s] = SumOne(f, F, s) /\ g[s] = SumOne(g, G, s) BY <1>2 DEF IsSum
  <2>2. CASE s = {} BY <2>1, <2>2 DEF SumOne
  <2>3. CASE s # {}
    <3>1. PICK m : m = Some(s) OBVIOUS
    <3>2. m \in s /\ m \in S /\ s \ {m} \in SUBSET s /\ s \ {m} # s BY <2>3, <3>1 DEF Some
    <3>3. s \ {m} \in H BY <1>3, <3>2
    <3>4. f[s] = F[m] + f[s \ {m}] /\ g[s] = G[m] + g[s \ {m}] BY <2>1, <2>3, <3>1 DEF SumOne
    <3>5. PICK a, b, x, y : a = F[m] /\ b = G[m] /\ x = f[s \ {m}] /\ y = g[s \ {m}] OBVIOUS
    <3>6. a \in Int /\ b \in Int /\ a <= b /\ x \in Int /\ y \in Int /\ x <= y BY <3>2, <3>3, <3>5
    <3>7. a + x \in Int /\ b + y \in Int /\ a + x <= b + y BY <3>6
    <3>8. f[s] \in Int /\ g[s] \in Int /\ f[s] <= g[s] BY <3>4, <3>5, <3>7
    <3> QED BY <3>8
  <2> QED BY <2>2, <2>3
<1>4. SUBSET S \subseteq H
  <2> HIDE DEF H
  <2> QED BY <1>3, SubsetInduction
<1>5. S \in H BY <1>4
<1>6. DOMAIN F = S /\ DOMAIN G = S OBVIOUS
<1>7. FoldFunction(+, 0, F) = f[S] /\ FoldFunction(+, 0, G) = g[S] BY <1>1, <1>6, SumIs
<1> QED BY <1>5, <1>7

ScInv == log \in Seq(Event) /\ config \in CompetitionConfig /\ ValidConfig(config)

LEMMA ScInv_Holds == ScSpec => []ScInv
<1>1. ScInit => ScInv
  <2> SUFFICES ASSUME ScInit PROVE ScInv OBVIOUS
  <2>1. log \in Seq(Event) BY DEF ScInit
  <2>2. config \in ScConfig /\ ValidConfig(config) BY DEF ScInit
  <2>3. ScConfig \subseteq CompetitionConfig BY ScoresAssumption
  <2> QED BY <2>1, <2>2, <2>3 DEF ScInv
<1>2. ScInv /\ [ScNext]_scVars => ScInv'
  <2> SUFFICES ASSUME ScInv, [ScNext]_scVars PROVE ScInv' OBVIOUS
  <2>1. CASE UNCHANGED scVars BY <2>1 DEF ScInv, scVars
  <2>2. ASSUME NEW e \in Event, RecordEvent(e) PROVE ScInv' BY <2>2 DEF ScInv, RecordEvent
  <2> QED BY <2>1, <2>2 DEF ScNext
<1> QED BY <1>1, <1>2, PTL DEF ScSpec

LEMMA KeepsEarliestHolds == ScInv => KeepsEarliest
<1> SUFFICES ASSUME ScInv, NEW when \in ScTime \cup {0}, NEW t \in ScTeam, NEW c \in ScChallenge
             PROVE Earliest(Deduped(log, when)[<<t, c>>], SolvesOf(log, when, t, c))
  BY DEF KeepsEarliest, Earliest
<1>1. log \in Seq(Event) BY DEF ScInv
<1> QED BY <1>1, DedupFacts

LEMMA ValueShapeHolds == ASSUME ScInv PROVE ValueShape
<1> SUFFICES ASSUME NEW n \in 0..MaxLog, NEW now \in ScTime
             PROVE /\ ChallengeValue(config, n, now) \in config.minimum..config.initial
                   /\ ChallengeValue(config, n + 1, now) <= ChallengeValue(config, n, now)
                   /\ ChallengeValue(config, n, now + 1) <= ChallengeValue(config, n, now)
                   /\ now >= config.freeze => ChallengeValue(config, n, now + 1) = ChallengeValue(config, n, now)
  BY DEF ValueShape
<1>1. config \in CompetitionConfig /\ ValidConfig(config) BY DEF ScInv
<1>2. now \in Int BY ScoresAssumption
<1>3. n \in Nat OBVIOUS
<1>4. PICK k : k = config OBVIOUS
<1>5. k \in CompetitionConfig /\ ValidConfig(k) BY <1>1, <1>4
<1>6. /\ ChallengeValue(k, n, now) \in k.minimum..k.initial
      /\ ChallengeValue(k, n + 1, now) <= ChallengeValue(k, n, now)
      /\ ChallengeValue(k, n, now + 1) <= ChallengeValue(k, n, now)
      /\ now >= k.freeze => ChallengeValue(k, n, now + 1) = ChallengeValue(k, n, now)
  BY <1>2, <1>3, <1>5, ValueFacts
<1> QED BY <1>4, <1>6

LEMMA PagesAgreeHolds == ASSUME ScInv PROVE PagesAgree
<1> SUFFICES ASSUME NEW t \in ScTeam PROVE Board(log, 0)[t].solves = Cardinality(Progress(t)) BY DEF PagesAgree
<1>1. log \in Seq(Event) BY DEF ScInv
<1>2. PICK d : d = Deduped(log, 0) OBVIOUS
<1>3. Board(log, 0)[t].solves = Cardinality({c \in ScChallenge : d[<<t, c>>] # NoSolve}) BY <1>2 DEF Board
<1>4. ASSUME NEW c \in ScChallenge PROVE d[<<t, c>>] # NoSolve <=> c \in Progress(t)
  <2>1. SolvesOf(log, 0, t, c) \subseteq SolveEvent /\ Earliest(d[<<t, c>>], SolvesOf(log, 0, t, c)) BY <1>1, <1>2, DedupFacts
  <2>2. d[<<t, c>>] # NoSolve <=> SolvesOf(log, 0, t, c) # {} BY <2>1, NotNoSolve DEF Earliest
  <2>3. SolvesOf(log, 0, t, c) # {} <=> c \in Progress(t) BY DEF SolvesOf, Included, Progress
  <2> QED BY <2>2, <2>3
<1>5. Progress(t) \subseteq ScChallenge
  <2> SUFFICES ASSUME NEW i \in 1..Len(log), log[i].type = "solve" PROVE log[i].challenge \in ScChallenge BY DEF Progress
  <2>1. log[i] \in Event BY <1>1
  <2> QED BY <2>1 DEF Event
<1>6. Progress(t) = {c \in ScChallenge : d[<<t, c>>] # NoSolve} BY <1>4, <1>5
<1> QED BY <1>3, <1>6

LEMMA EarliestUnique ==
    ASSUME NEW mine \in SUBSET SolveEvent, NEW t, NEW c, \A s \in mine : s.team = t /\ s.challenge = c,
           NEW a, Earliest(a, mine), NEW b, Earliest(b, mine)
    PROVE a = b
<1>1. CASE mine = {} BY <1>1 DEF Earliest
<1>2. CASE mine # {}
  <2>1. a \in mine /\ b \in mine /\ ~Earlier(a, b) /\ ~Earlier(b, a) BY <1>2 DEF Earliest
  <2>2. a \in SolveEvent /\ b \in SolveEvent /\ a.team = b.team /\ a.challenge = b.challenge BY <2>1
  <2> QED BY <2>1, <2>2, EarlierOrder
<1> QED BY <1>1, <1>2

LEMMA EarlierThrough == ASSUME NEW a \in SolveEvent, NEW b \in SolveEvent, NEW s \in SolveEvent, Earlier(a, b), ~Earlier(a, s)
    PROVE Earlier(s, b)
<1>1. \A y \in SolveEvent : y.at \in Int /\ y.id \in Int /\ y.team \in Int BY SolveNumbers
<1> QED BY <1>1 DEF Earlier

\* What one more event changes in the deduplicated solves.
NextSolves(d, x, e) ==
    /\ d \in Kept /\ x \in Kept
    /\ e.type # "solve" => \A t \in ScTeam, c \in ScChallenge : x[<<t, c>>] = d[<<t, c>>]
    /\ e.type = "solve" =>
          /\ e \in SolveEvent
          /\ \A t \in ScTeam, c \in ScChallenge : ~(t = e.team /\ c = e.challenge) => x[<<t, c>>] = d[<<t, c>>]
          /\ x[<<e.team, e.challenge>>] \in SolveEvent
          /\ d[<<e.team, e.challenge>>] # NoSolve => ~Earlier(d[<<e.team, e.challenge>>], x[<<e.team, e.challenge>>])

LEMMA FrontFacts == ASSUME NEW l \in Seq(Event), l # <<>>
    PROVE /\ Front(l) \in Seq(Event) /\ Len(l) \in Nat \ {0} /\ Len(Front(l)) = Len(l) - 1
          /\ \A j \in 1..(Len(l) - 1) : Front(l)[j] = l[j]
          /\ Last(l) = l[Len(l)] /\ Last(l) \in Event
<1>1. Len(l) \in Nat \ {0} BY EmptySeq
<1>2. Front(l) = SubSeq(l, 1, Len(l) - 1) BY DEF Front
<1>4. /\ SubSeq(l, 1, Len(l) - 1) \in Seq(Event)
      /\ Len(SubSeq(l, 1, Len(l) - 1)) = Len(l) - 1
      /\ \A j \in 1..(Len(l) - 1) : SubSeq(l, 1, Len(l) - 1)[j] = l[j]
  <2>1. \A j \in 1..(Len(l) - 1) : l[j] \in Event BY <1>1
  <2>2. 1 \in Int /\ Len(l) - 1 \in Int BY <1>1
  <2>3. PICK n : n = Len(l) - 1 OBVIOUS
  <2>4. n \in Int /\ 0 <= n /\ \A j \in 1..n : l[j] \in Event BY <1>1, <2>1, <2>3
  <2>5. /\ SubSeq(l, 1, n) \in Seq(Event)
        /\ Len(SubSeq(l, 1, n)) = IF 1 <= n THEN n - 1 + 1 ELSE 0
        /\ \A j \in 1..(n - 1 + 1) : SubSeq(l, 1, n)[j] = l[1 + j - 1]
    <3>1. 1 \in Int OBVIOUS
    <3> QED BY <2>4, <3>1, SubSeqProperties
  <2>6. n - 1 + 1 = n /\ (IF 1 <= n THEN n - 1 + 1 ELSE 0) = n BY <2>4
  <2>7. \A j \in 1..n : 1 + j - 1 = j BY <2>4
  <2> QED BY <2>3, <2>5, <2>6, <2>7
<1>5. Last(l) = l[Len(l)] BY DEF Last
<1>6. Len(l) \in 1..Len(l) BY <1>1
<1> QED BY <1>1, <1>2, <1>4, <1>5, <1>6

LEMMA SolvesGrow == ASSUME NEW l \in Seq(Event), l # <<>>, NEW t, NEW c
    PROVE SolvesOf(l, 0, t, c) = SolvesOf(Front(l), 0, t, c) \cup
              (IF Last(l).type = "solve" /\ Last(l).team = t /\ Last(l).challenge = c THEN {Last(l)} ELSE {})
<1>1. PICK n, f, e : n = Len(l) - 1 /\ f = Front(l) /\ e = Last(l) OBVIOUS
<1>2. n \in Nat /\ n + 1 = Len(l) /\ Len(f) = n /\ e = l[n + 1] /\ \A j \in 1..n : f[j] = l[j] BY <1>1, FrontFacts
<1>3. \A y : Included(y, 0) <=> y.type = "solve" BY DEF Included
<1>4. SolvesOf(l, 0, t, c) = Until(l, 0, n + 1, t, c) BY <1>2 DEF SolvesOf, Until
<1>5. SolvesOf(f, 0, t, c) = Until(l, 0, n, t, c) BY <1>2 DEF SolvesOf, Until
<1>6. Until(l, 0, n + 1, t, c) = Until(l, 0, n, t, c) \cup
          (IF Included(e, 0) /\ e.team = t /\ e.challenge = c THEN {e} ELSE {})
  <2>1. n + 1 <= Len(l) BY <1>2
  <2> QED BY <1>2, <2>1, UntilGrows
<1> QED BY <1>1, <1>3, <1>4, <1>5, <1>6

LEMMA OneMoreEvent == ASSUME NEW l \in Seq(Event), l # <<>>
    PROVE NextSolves(Deduped(Front(l), 0), Deduped(l, 0), Last(l))
<1>1. PICK f, e, d, x : f = Front(l) /\ e = Last(l) /\ d = Deduped(f, 0) /\ x = Deduped(l, 0) OBVIOUS
<1>2. f \in Seq(Event) /\ e \in Event BY <1>1, FrontFacts
<1>3. d \in Kept /\ x \in Kept BY <1>1, <1>2, DedupFacts
<1>4. \A t \in ScTeam, c \in ScChallenge :
        /\ SolvesOf(f, 0, t, c) \subseteq SolveEvent /\ Earliest(d[<<t, c>>], SolvesOf(f, 0, t, c))
        /\ SolvesOf(l, 0, t, c) \subseteq SolveEvent /\ Earliest(x[<<t, c>>], SolvesOf(l, 0, t, c))
  BY <1>1, <1>2, DedupFacts
<1>5. \A t, c : SolvesOf(l, 0, t, c) = SolvesOf(f, 0, t, c) \cup
          (IF e.type = "solve" /\ e.team = t /\ e.challenge = c THEN {e} ELSE {})
  BY <1>1, SolvesGrow
<1>6. ASSUME NEW t \in ScTeam, NEW c \in ScChallenge, ~(e.type = "solve" /\ e.team = t /\ e.challenge = c)
      PROVE x[<<t, c>>] = d[<<t, c>>]
  <2>1. PICK mine : mine = SolvesOf(f, 0, t, c) OBVIOUS
  <2>2. SolvesOf(l, 0, t, c) = mine BY <1>5, <1>6, <2>1
  <2>3. mine \in SUBSET SolveEvent /\ Earliest(d[<<t, c>>], mine) /\ Earliest(x[<<t, c>>], mine) BY <1>4, <2>1, <2>2
  <2>4. \A s \in mine : s.team = t /\ s.challenge = c BY <2>1 DEF SolvesOf
  <2> QED BY <2>3, <2>4, EarliestUnique
<1>7. ASSUME e.type = "solve"
      PROVE /\ e \in SolveEvent
            /\ x[<<e.team, e.challenge>>] \in SolveEvent
            /\ d[<<e.team, e.challenge>>] # NoSolve => ~Earlier(d[<<e.team, e.challenge>>], x[<<e.team, e.challenge>>])
  <2>1. Included(e, 0) BY <1>7 DEF Included
  <2>2. e \in SolveEvent BY <1>2, <2>1, IncludedSolve
  <2>3. PICK t, c : t = e.team /\ c = e.challenge OBVIOUS
  <2>4. t \in ScTeam /\ c \in ScChallenge BY <2>2, <2>3 DEF SolveEvent
  <2>5. PICK mine, more : mine = SolvesOf(f, 0, t, c) /\ more = SolvesOf(l, 0, t, c) OBVIOUS
  <2>6. more = mine \cup {e} BY <1>5, <1>7, <2>3, <2>5
  <2>7. Earliest(d[<<t, c>>], mine) /\ Earliest(x[<<t, c>>], more) /\ more \subseteq SolveEvent BY <1>4, <2>4, <2>5
  <2>8. x[<<t, c>>] \in more /\ \A s \in more : ~Earlier(s, x[<<t, c>>]) BY <2>6, <2>7 DEF Earliest
  <2>9. d[<<t, c>>] # NoSolve => d[<<t, c>>] \in mine BY <2>7 DEF Earliest
  <2> QED BY <2>2, <2>3, <2>6, <2>7, <2>8, <2>9
<1>8. NextSolves(d, x, e) BY <1>3, <1>6, <1>7 DEF NextSolves
<1> QED BY <1>1, <1>8

LEMMA CountIs == ASSUME NEW d, NEW c PROVE
    /\ IsFiniteSet({t \in ScTeam : d[<<t, c>>] # NoSolve}) /\ Cardinality({t \in ScTeam : d[<<t, c>>] # NoSolve}) \in Nat
    /\ \A l : SolveCount(l, d, c) = Cardinality({t \in ScTeam : d[<<t, c>>] # NoSolve})
<1>1. IsFiniteSet(ScTeam) /\ {t \in ScTeam : d[<<t, c>>] # NoSolve} \in SUBSET ScTeam BY ScoresAssumption
<1>2. IsFiniteSet({t \in ScTeam : d[<<t, c>>] # NoSolve}) BY <1>1, FS_Subset
<1> QED BY <1>2, FS_CardinalityType DEF SolveCount

\* The value of a challenge before and after one more event.
LEMMA ValueFalls == ASSUME ScInv, NEW d, NEW x, NEW e, NextSolves(d, x, e), NEW l, NEW f, NEW c \in ScChallenge
    PROVE /\ ValueAt(f, d, 0, c) \in Nat /\ ValueAt(l, x, 0, c) \in Nat /\ ValueAt(l, x, 0, c) <= ValueAt(f, d, 0, c)
          /\ ~(e.type = "solve" /\ c = e.challenge /\ d[<<e.team, c>>] = NoSolve) => ValueAt(l, x, 0, c) = ValueAt(f, d, 0, c)
<1>1. PICK k : k = config OBVIOUS
<1>2. k \in CompetitionConfig /\ ValidConfig(k) BY <1>1 DEF ScInv
<1>3. k.end \in Int /\ k.minimum \in Int /\ k.initial \in Int /\ 0 <= k.minimum BY <1>2, ConfigTypes
<1>4. PICK A, B : A = {t \in ScTeam : d[<<t, c>>] # NoSolve} /\ B = {t \in ScTeam : x[<<t, c>>] # NoSolve} OBVIOUS
<1>5. PICK n, m : n = Cardinality(A) /\ m = Cardinality(B) OBVIOUS
<1>6. IsFiniteSet(A) /\ n \in Nat /\ IsFiniteSet(B) /\ m \in Nat /\ SolveCount(f, d, c) = n /\ SolveCount(l, x, c) = m
  BY <1>4, <1>5, CountIs
<1>7. ValueAt(f, d, 0, c) = ChallengeValue(k, n, k.end) /\ ValueAt(l, x, 0, c) = ChallengeValue(k, m, k.end)
  BY <1>1, <1>6 DEF ValueAt
<1>8. /\ ChallengeValue(k, n, k.end) \in k.minimum..k.initial
      /\ ChallengeValue(k, n + 1, k.end) \in k.minimum..k.initial
      /\ ChallengeValue(k, n + 1, k.end) <= ChallengeValue(k, n, k.end)
  BY <1>2, <1>3, <1>6, ValueFacts
<1>9. CASE e.type = "solve" /\ c = e.challenge /\ d[<<e.team, c>>] = NoSolve
  <2>1. e.team \in ScTeam /\ x[<<e.team, c>>] # NoSolve BY <1>9, NotNoSolve DEF NextSolves, SolveEvent
  <2>2. \A t \in ScTeam : t # e.team => x[<<t, c>>] = d[<<t, c>>] BY <1>9 DEF NextSolves
  <2>3. B = A \cup {e.team} /\ e.team \notin A BY <1>4, <1>9, <2>1, <2>2
  <2>4. m = n + 1 BY <1>5, <1>6, <2>3, FS_AddElement
  <2>5. ChallengeValue(k, m, k.end) = ChallengeValue(k, n + 1, k.end) BY <2>4
  <2> QED BY <1>3, <1>7, <1>8, <1>9, <2>5
<1>10. CASE ~(e.type = "solve" /\ c = e.challenge /\ d[<<e.team, c>>] = NoSolve)
  <2>1. A = B
    <3> SUFFICES ASSUME NEW t \in ScTeam PROVE d[<<t, c>>] # NoSolve <=> x[<<t, c>>] # NoSolve BY <1>4
    <3>1. CASE e.type = "solve" /\ c = e.challenge /\ t = e.team BY <1>10, <3>1, NotNoSolve DEF NextSolves
    <3>2. CASE ~(e.type = "solve" /\ c = e.challenge /\ t = e.team)
      <4>1. CASE e.type = "solve" BY <3>2, <4>1 DEF NextSolves
      <4>2. CASE e.type # "solve" BY <4>2 DEF NextSolves
      <4> QED BY <4>1, <4>2
    <3> QED BY <3>1, <3>2
  <2>2. ChallengeValue(k, m, k.end) = ChallengeValue(k, n, k.end) BY <1>5, <2>1
  <2> QED BY <1>3, <1>7, <1>8, <2>2
<1> QED BY <1>9, <1>10

LEMMA PointsType == ASSUME ScInv, NEW d, NEW l, NEW t, NEW c, ValueAt(l, d, 0, c) \in Nat PROVE Points(l, d, 0, t, c) \in Nat
<1>1. PICK k, v : k = config /\ v = ValueAt(l, d, 0, c) OBVIOUS
<1>2. v \in Nat /\ k \in CompetitionConfig /\ ValidConfig(k) BY <1>1 DEF ScInv
<1>3. v <= v BY <1>2
<1>4. FirstBloodBonus(k, v) \in Nat BY <1>2, <1>3, BonusFacts
<1>5. Points(l, d, 0, t, c) \in {0, v, v + FirstBloodBonus(k, v)} BY <1>1 DEF Points
<1>6. v + FirstBloodBonus(k, v) \in Nat BY <1>2, <1>4
<1> QED BY <1>2, <1>5, <1>6

\* What one more event changes in the points of a team for a challenge.
LEMMA PointsStep == ASSUME ScInv, NEW d, NEW x, NEW e, NextSolves(d, x, e), NEW l, NEW f, NEW t \in ScTeam, NEW c \in ScChallenge
    PROVE /\ Points(f, d, 0, t, c) \in Nat /\ Points(l, x, 0, t, c) \in Nat
          /\ e.team = t => Points(f, d, 0, t, c) <= Points(l, x, 0, t, c)
          /\ e.team # t => Points(l, x, 0, t, c) <= Points(f, d, 0, t, c)
<1>1. PICK k, v, u : k = config /\ v = ValueAt(f, d, 0, c) /\ u = ValueAt(l, x, 0, c) OBVIOUS
<1>2. /\ v \in Nat /\ u \in Nat /\ u <= v
      /\ ~(e.type = "solve" /\ c = e.challenge /\ d[<<e.team, c>>] = NoSolve) => u = v
  BY <1>1, ValueFalls
<1>3. k \in CompetitionConfig /\ ValidConfig(k) BY <1>1 DEF ScInv
<1>4. PICK a, b : a = FirstBloodBonus(k, v) /\ b = FirstBloodBonus(k, u) OBVIOUS
<1>5. a \in Nat /\ b \in Nat /\ b <= a BY <1>2, <1>3, <1>4, BonusFacts
<1>6. Points(f, d, 0, t, c) = IF d[<<t, c>>] = NoSolve THEN 0 ELSE IF FirstBlood(d, t, c) THEN v + a ELSE v
  BY <1>1, <1>4 DEF Points
<1>7. Points(l, x, 0, t, c) = IF x[<<t, c>>] = NoSolve THEN 0 ELSE IF FirstBlood(x, t, c) THEN u + b ELSE u
  BY <1>1, <1>4 DEF Points
<1>8. Points(f, d, 0, t, c) \in Nat /\ Points(l, x, 0, t, c) \in Nat BY <1>1, <1>2, PointsType
<1>9. \A w \in ScTeam : ~(e.type = "solve" /\ w = e.team /\ c = e.challenge) => x[<<w, c>>] = d[<<w, c>>]
  <2>1. CASE e.type = "solve" BY <2>1 DEF NextSolves
  <2>2. CASE e.type # "solve" BY <2>2 DEF NextSolves
  <2> QED BY <2>1, <2>2
<1>10. CASE ~(e.type = "solve" /\ c = e.challenge)
  <2>1. \A w \in ScTeam : x[<<w, c>>] = d[<<w, c>>] BY <1>9, <1>10
  <2>2. FirstBlood(x, t, c) <=> FirstBlood(d, t, c) BY <2>1 DEF FirstBlood
  <2>3. u = v /\ a = b BY <1>2, <1>4, <1>10
  <2>4. Points(f, d, 0, t, c) = Points(l, x, 0, t, c) BY <1>6, <1>7, <2>1, <2>2, <2>3
  <2> QED BY <1>8, <2>4
<1>11. CASE e.type = "solve" /\ c = e.challenge
  <2>1. PICK T : T = e.team OBVIOUS
  <2>2. PICK o, n : o = d[<<T, c>>] /\ n = x[<<T, c>>] OBVIOUS
  <2>3. n \in SolveEvent /\ n # NoSolve /\ T \in ScTeam /\ (o # NoSolve => o \in SolveEvent /\ ~Earlier(o, n))
    <3>1. e \in SolveEvent /\ n \in SolveEvent /\ (o # NoSolve => ~Earlier(o, n)) BY <1>11, <2>1, <2>2 DEF NextSolves
    <3>2. T \in ScTeam BY <2>1, <3>1 DEF SolveEvent
    <3>3. o \in SolveEvent \cup {NoSolve} BY <2>2, <3>2 DEF NextSolves, Kept
    <3> QED BY <3>1, <3>2, <3>3, NotNoSolve
  <2>4. \A w \in ScTeam : d[<<w, c>>] # NoSolve => d[<<w, c>>] \in SolveEvent BY DEF NextSolves, Kept
  <2>5. \A w \in ScTeam \ {T} : x[<<w, c>>] = d[<<w, c>>] BY <1>9, <2>1
  <2>6. CASE t = T /\ o = NoSolve BY <1>6, <1>8, <2>1, <2>2, <2>6
  <2>7. CASE t = T /\ o # NoSolve
    <3>1. u = v /\ a = b BY <1>2, <1>4, <2>1, <2>2, <2>7
    <3>2. FirstBlood(d, t, c) => FirstBlood(x, t, c)
      <4> SUFFICES ASSUME FirstBlood(d, t, c), NEW w \in ScTeam \ {T}, x[<<w, c>>] # NoSolve PROVE Earlier(n, x[<<w, c>>])
        BY <2>2, <2>7 DEF FirstBlood
      <4>1. PICK y : y = d[<<w, c>>] OBVIOUS
      <4>2. x[<<w, c>>] = y /\ y \in SolveEvent BY <2>4, <2>5, <4>1
      <4>3. Earlier(o, y) BY <2>2, <2>5, <2>7, <4>1 DEF FirstBlood
      <4>4. Earlier(n, y) BY <2>3, <2>7, <4>2, <4>3, EarlierThrough
      <4> QED BY <4>2, <4>4
    <3>3. Points(f, d, 0, t, c) = IF FirstBlood(d, t, c) THEN v + a ELSE v BY <1>6, <2>2, <2>7
    <3>4. Points(l, x, 0, t, c) = IF FirstBlood(x, t, c) THEN v + a ELSE v BY <1>7, <2>2, <2>3, <2>7, <3>1
    <3>5. Points(f, d, 0, t, c) <= Points(l, x, 0, t, c) BY <1>2, <1>5, <3>2, <3>3, <3>4
    <3> QED BY <1>8, <2>1, <2>7, <3>5
  <2>8. CASE t # T
    <3>1. PICK y : y = d[<<t, c>>] OBVIOUS
    <3>2. x[<<t, c>>] = y /\ (y # NoSolve => y \in SolveEvent) BY <2>4, <2>5, <2>8, <3>1
    <3>3. CASE y = NoSolve
      <4>1. Points(l, x, 0, t, c) = 0 BY <1>7, <3>2, <3>3
      <4> QED BY <1>8, <2>1, <2>8, <4>1
    <3>4. CASE y # NoSolve
      <4>1. FirstBlood(x, t, c) => FirstBlood(d, t, c)
        <5> SUFFICES ASSUME FirstBlood(x, t, c), NEW w \in ScTeam \ {t}, d[<<w, c>>] # NoSolve PROVE Earlier(y, d[<<w, c>>])
          BY <3>1 DEF FirstBlood
        <5>1. CASE w = T
          <6>1. o # NoSolve /\ o \in SolveEvent /\ ~Earlier(o, n) BY <2>2, <2>3, <5>1
          <6>2. Earlier(y, n) BY <2>2, <2>3, <2>8, <3>2, <5>1 DEF FirstBlood
          <6>3. \A s \in SolveEvent : Earlier(s, n) /\ ~Earlier(o, n) => Earlier(s, o) BY <2>3, <6>1, EarlierOrder
          <6>4. Earlier(y, o) BY <3>2, <3>4, <6>1, <6>2, <6>3
          <6> QED BY <2>2, <5>1, <6>4
        <5>2. CASE w # T BY <2>5, <3>2, <5>2 DEF FirstBlood
        <5> QED BY <5>1, <5>2
      <4>2. Points(f, d, 0, t, c) = IF FirstBlood(d, t, c) THEN v + a ELSE v BY <1>6, <3>1, <3>4
      <4>3. Points(l, x, 0, t, c) = IF FirstBlood(x, t, c) THEN u + b ELSE u BY <1>7, <3>2, <3>4
      <4>4. Points(l, x, 0, t, c) <= Points(f, d, 0, t, c) BY <1>2, <1>5, <4>1, <4>2, <4>3
      <4> QED BY <1>8, <2>1, <2>8, <4>4
    <3> QED BY <3>3, <3>4
  <2> QED BY <2>6, <2>7, <2>8
<1> QED BY <1>10, <1>11

LEMMA NobodyElseGainsHolds == ASSUME ScInv PROVE NobodyElseGains
<1> SUFFICES ASSUME log # <<>>, NEW t \in ScTeam
             PROVE IF Last(log).team = t THEN Board(Front(log), 0)[t].score <= Board(log, 0)[t].score
                                         ELSE Board(log, 0)[t].score <= Board(Front(log), 0)[t].score
  BY DEF NobodyElseGains
<1>1. PICK f, l, e, d, x : f = Front(log) /\ l = log /\ e = Last(log) /\ d = Deduped(f, 0) /\ x = Deduped(l, 0) OBVIOUS
<1>2. NextSolves(d, x, e)
  <2>1. l \in Seq(Event) /\ l # <<>> BY <1>1 DEF ScInv
  <2> QED BY <1>1, <2>1, OneMoreEvent
<1> DEFINE F == [c \in ScChallenge |-> Points(f, d, 0, t, c)]
           G == [c \in ScChallenge |-> Points(l, x, 0, t, c)]
<1>3. Board(f, 0)[t].score = FoldFunction(+, 0, F) /\ Board(l, 0)[t].score = FoldFunction(+, 0, G) BY <1>1 DEF Board
<1>4. \A c \in ScChallenge :
        /\ Points(f, d, 0, t, c) \in Nat /\ Points(l, x, 0, t, c) \in Nat
        /\ e.team = t => Points(f, d, 0, t, c) <= Points(l, x, 0, t, c)
        /\ e.team # t => Points(l, x, 0, t, c) <= Points(f, d, 0, t, c)
  BY <1>2, PointsStep
<1>5. F \in [ScChallenge -> Int] /\ G \in [ScChallenge -> Int] /\ IsFiniteSet(ScChallenge) BY <1>4, ScoresAssumption
<1>6. CASE e.team = t
  <2>1. \A c \in ScChallenge : F[c] <= G[c] BY <1>4, <1>6
  <2> HIDE DEF F, G
  <2>2. FoldFunction(+, 0, F) <= FoldFunction(+, 0, G) BY <1>5, <2>1, SumsMono
  <2> QED BY <1>1, <1>3, <1>6, <2>2
<1>7. CASE e.team # t
  <2>1. \A c \in ScChallenge : G[c] <= F[c] BY <1>4, <1>7
  <2> HIDE DEF F, G
  <2>2. FoldFunction(+, 0, G) <= FoldFunction(+, 0, F) BY <1>5, <2>1, SumsMono
  <2> QED BY <1>1, <1>3, <1>7, <2>2
<1> QED BY <1>6, <1>7

\* In every reachable state the fold keeps each team's earliest solve of each
\* challenge, an event never lowers the score of its team and never raises
\* that of another, the value of a challenge stays between its bounds and
\* falls with every solve and with time, and the progress page agrees with
\* the board.
THEOREM FoldSafeHolds == ScSpec => []FoldSafe
<1>1. ScInv => FoldSafe BY KeepsEarliestHolds, NobodyElseGainsHolds, ValueShapeHolds, PagesAgreeHolds DEF FoldSafe
<1> QED BY <1>1, ScInv_Holds, PTL
============================================================================
