------------------------------- MODULE Backup -------------------------------
(***************************************************************************)
(* Backup, restore and the verification of a restore: scripts/backup.sh,   *)
(* scripts/restore.sh and application/backup/verify.py.  The platform      *)
(* writes on while a hot backup is taken; what is restored may have lost   *)
(* or changed one thing; the verifier has to tell the two apart.           *)
(***************************************************************************)
EXTENDS Integers, FiniteSets, FiniteSetsExt, Folds

CONSTANTS Contest,      \* competitions
          MaxSeq,       \* bound on ledger numbers
          MaxAudit,     \* bound on audit rows
          Content       \* contents of artifacts; content i is stored under key i
ASSUME ContentAssumption == Content \subseteq Nat \ {0}

NoProjection == [as_of |-> -1, total |-> 0]
CODE_MIGRATION_HEAD == "head"
Corrupt == 0            \* content that hashes to no key

VARIABLES src,          \* the platform: ledger, audit, store, builds, boards, next seq
          quiet,        \* the control plane is drained for the backup
          step,         \* what the scripts do next
          dump,         \* the database as pg_dump saw it
          tar,          \* the artifact store as tar saw it
          manifest,     \* MANIFEST
          damage,       \* what happened to the restored copy
          report        \* checks of the verifier that failed

bkVars == <<src, quiet, step, dump, tar, manifest, damage, report>>

EventsOf(db, c) == {e \in db.ledger : e.contest = c}
TopSeq(events) == Max({e.seq : e \in events} \cup {0})
\* The scoreboard as a fold: the points of a contest.
TotalPoints(events) == MapThenFoldSet(+, 0, LAMBDA e : e.points, LAMBDA S : CHOOSE e \in S : TRUE, events)
Projection(events) == [as_of |-> TopSeq(events), total |-> TotalPoints(events)]
dry_project(db, c) == Projection(EventsOf(db, c))

\* The step after each of the two copies.
BackupOrderTarFirst == [dump |-> "count", tar |-> "dump"]
BackupOrder == [dump |-> "tar", tar |-> "count"]

-----------------------------------------------------------------------------
(* The platform.  A hot backup leaves it running.                           *)
FirstStep == IF BackupOrder.dump = "tar" THEN "dump" ELSE "tar"
Running == step \in (IF quiet THEN {FirstStep} ELSE {"dump", "tar", "count"})

Score(c, p) ==
    /\ Running
    /\ src.next <= MaxSeq
    /\ src' = [src EXCEPT !.ledger = @ \cup {[seq |-> src.next, contest |-> c, points |-> p]}, !.next = @ + 1]
    /\ UNCHANGED <<quiet, step, dump, tar, manifest, damage, report>>
\* An append that rolls back burns its number.
Burn ==
    /\ Running
    /\ src.next < MaxSeq
    /\ src' = [src EXCEPT !.next = @ + 1]
    /\ UNCHANGED <<quiet, step, dump, tar, manifest, damage, report>>
Audit ==
    /\ Running
    /\ src.audit < MaxAudit
    /\ src' = [src EXCEPT !.audit = @ + 1]
    /\ UNCHANGED <<quiet, step, dump, tar, manifest, damage, report>>
\* Materialization stores the content and then its row.
StoreContent(b) ==
    /\ Running
    /\ src' = [src EXCEPT !.store = @ \cup {b}]
    /\ UNCHANGED <<quiet, step, dump, tar, manifest, damage, report>>
AddBuildRow(b) ==
    /\ Running
    /\ b \in src.store
    /\ src' = [src EXCEPT !.builds = @ \cup {b}]
    /\ UNCHANGED <<quiet, step, dump, tar, manifest, damage, report>>
ProjectBoard(c) ==
    /\ Running
    /\ EventsOf(src, c) # {}
    /\ src' = [src EXCEPT !.boards[c] = dry_project(src, c)]
    /\ UNCHANGED <<quiet, step, dump, tar, manifest, damage, report>>

-----------------------------------------------------------------------------
(* backup.sh: the dump, which is a snapshot, the tar, then the counts by     *)
(* queries of their own.                                                    *)
PgDump ==
    /\ step = "dump"
    /\ dump' = src
    /\ step' = BackupOrder.dump
    /\ UNCHANGED <<src, quiet, tar, manifest, damage, report>>
Tar ==
    /\ step = "tar"
    /\ tar' = [k \in src.store |-> k]
    /\ step' = BackupOrder.tar
    /\ UNCHANGED <<src, quiet, dump, manifest, damage, report>>
WriteManifest ==
    /\ step = "count"
    /\ manifest' = [score_events_count |-> Cardinality(src.ledger), score_events_max_seq |-> TopSeq(src.ledger),
                    audit_events_count |-> src.audit]
    /\ step' = "restore"
    /\ UNCHANGED <<src, quiet, dump, tar, damage, report>>

-----------------------------------------------------------------------------
(* restore.sh into an empty target, with at most one thing gone wrong.       *)
Restore ==
    /\ step = "restore"
    /\ \/ damage' = "none" /\ UNCHANGED <<dump, tar>>
       \/ /\ damage' = "ledger_lost"
          /\ \E e \in dump.ledger : dump' = [dump EXCEPT !.ledger = @ \ {e}]
          /\ UNCHANGED tar
       \/ /\ damage' = "ledger_changed"
          /\ \E e \in dump.ledger : dump' = [dump EXCEPT !.ledger = (@ \ {e}) \cup {[e EXCEPT !.points = @ + 1]}]
          /\ UNCHANGED tar
       \/ /\ damage' = "audit_lost"
          /\ dump.audit > 0
          /\ dump' = [dump EXCEPT !.audit = @ - 1]
          /\ UNCHANGED tar
       \/ /\ damage' = "artifact_lost"
          /\ \E k \in dump.builds \cap DOMAIN tar : tar' = [i \in DOMAIN tar \ {k} |-> tar[i]]
          /\ UNCHANGED dump
       \/ /\ damage' = "artifact_changed"
          /\ \E k \in dump.builds \cap DOMAIN tar : tar' = [tar EXCEPT ![k] = Corrupt]
          /\ UNCHANGED dump
       \/ /\ damage' = "schema"
          /\ dump' = [dump EXCEPT !.revision = "older"]
          /\ UNCHANGED tar
    /\ step' = "verify"
    /\ UNCHANGED <<src, quiet, manifest, report>>

-----------------------------------------------------------------------------
(* verify.py; each check is TRUE when it passes.                             *)
_check_migration_head == dump.revision = CODE_MIGRATION_HEAD
_check_ledger_seq == \A e, f \in dump.ledger : e.seq >= 1 /\ (e.seq = f.seq => e = f)

\* What is kept of the manifest file.
ManifestKeys == {"score_events_count", "score_events_max_seq"}
AllManifestKeys == {"score_events_count", "score_events_max_seq", "audit_events_count"}
_load_manifest == [k \in ManifestKeys |-> manifest[k]]

Expects(k, n) == k \in DOMAIN _load_manifest => _load_manifest[k] = n
_check_ledger_rowcount == /\ Expects("score_events_count", Cardinality(dump.ledger))
                          /\ Expects("score_events_max_seq", TopSeq(dump.ledger))
_check_audit_rowcount == Expects("audit_events_count", dump.audit)

\* A board that is behind its ledger is skipped.
Parity(c) ==
    LET board == dump.boards[c]
        fold == dry_project(dump, c)
    IN  IF EventsOf(dump, c) = {} THEN board.as_of <= 0
        ELSE /\ board # NoProjection
             /\ board.as_of <= fold.as_of
             /\ board.as_of = fold.as_of => board.total = fold.total
_check_scoreboard_parity == \A c \in Contest : Parity(c)

_check_artifact_integrity == \A b \in dump.builds : b \in DOMAIN tar /\ tar[b] = b

verify_restore ==
    /\ step = "verify"
    /\ report' = {k \in {"migration_head", "ledger_seq", "ledger_rowcount", "audit_rowcount", "parity", "artifacts"} :
                    CASE k = "migration_head"  -> ~_check_migration_head
                      [] k = "ledger_seq"      -> ~_check_ledger_seq
                      [] k = "ledger_rowcount" -> ~_check_ledger_rowcount
                      [] k = "audit_rowcount"  -> ~_check_audit_rowcount
                      [] k = "parity"          -> ~_check_scoreboard_parity
                      [] k = "artifacts"       -> ~_check_artifact_integrity}
    /\ step' = "verified"
    /\ UNCHANGED <<src, quiet, dump, tar, manifest, damage>>

-----------------------------------------------------------------------------
BkInit ==
    /\ src = [ledger |-> {}, next |-> 1, audit |-> 0, store |-> {}, builds |-> {},
              boards |-> [c \in Contest |-> NoProjection], revision |-> CODE_MIGRATION_HEAD]
    /\ quiet \in BOOLEAN
    /\ step = FirstStep
    /\ dump = src /\ tar = [k \in {} |-> k]
    /\ manifest = [k \in AllManifestKeys |-> 0]
    /\ damage = "none" /\ report = {}

BkNext ==
    \/ \E c \in Contest, p \in 1..2 : Score(c, p)
    \/ Burn \/ Audit
    \/ \E b \in Content : StoreContent(b) \/ AddBuildRow(b)
    \/ \E c \in Contest : ProjectBoard(c)
    \/ PgDump \/ Tar \/ WriteManifest \/ Restore \/ verify_restore
BkSpec == BkInit /\ [][BkNext]_bkVars

-----------------------------------------------------------------------------
(* Properties. *)
Verified == step = "verified"
\* A contest with events that no projector has seen yet.
Unprojected == \E c \in Contest : EventsOf(dump, c) # {} /\ dump.boards[c] = NoProjection

\* A faithful restore of a quiescent backup passes, burned numbers and boards
\* that lag included; the one exception is a contest whose first projection
\* was still to come (verify.py verify_restore).
NoFalseAlarm == Verified /\ quiet /\ damage = "none" => report \subseteq (IF Unprojected THEN {"parity"} ELSE {})

\* A restore that lost a ledger row or an artifact, changed an artifact, or is
\* of another schema, does not pass (verify.py verify_restore).
DamageCaught ==
    Verified /\ quiet /\ damage \in {"ledger_lost", "artifact_lost", "artifact_changed", "schema"} => report # {}

\* One that changed the points of a ledger row fails the parity check, when
\* every board of a contest with events is current, also when the platform was
\* writing during the backup (verify.py _check_scoreboard_parity).
AllCurrent == \A c \in Contest : EventsOf(dump, c) # {} => dump.boards[c].as_of = dry_project(dump, c).as_of
ChangeCaught == Verified /\ damage = "ledger_changed" /\ AllCurrent => "parity" \in report

\* Even of a backup taken while the platform writes, every build row of the
\* dump finds its content in the tar, and every board agrees with the ledger:
\* the dump is a snapshot, the store only grows, and the dump comes first
\* (backup.sh).
HotBackupSound ==
    Verified /\ damage = "none" => /\ "artifacts" \notin report
                                   /\ "parity" \in report => Unprojected

\* The documentation of the verifier: a restore that lost an audit row fails
\* the check audit_rowcount.
AuditLossCaught == Verified /\ quiet /\ damage = "audit_lost" => "audit_rowcount" \in report

\* The verdict on a restored backup is right in both directions.
BackupSafe ==
    /\ NoFalseAlarm
    /\ DamageCaught
    /\ ChangeCaught
    /\ HotBackupSound
=============================================================================
