------------------------------- MODULE Catalog -------------------------------
(***************************************************************************)
(* Competitions, challenge versions and publications under several         *)
(* editors: application/catalog and its repositories.  A transaction is    *)
(* cut where another one can come between its statements: after a read     *)
(* without a lock and while it waits for a row lock.                       *)
(***************************************************************************)
EXTENDS Integers, FiniteSets

CONSTANTS Editor, NoEditor,
          MaxTime,        \* times are 1..MaxTime
          NoTime,         \* a window field that is not set
          MaxVersions     \* bound
ASSUME TimeAssumption == MaxTime \in Nat /\ MaxTime > 1

VARIABLES window,     \* the timing of one competition
          lock,       \* the editor that holds its row lock, or NoEditor
          versions,   \* version rows
          attached,   \* numbers of the versions that the competition publishes
          edit        \* what each editor is in the middle of

ctVars == <<window, lock, versions, attached, edit>>
Idling == [st |-> "idle"]
Time == 1..MaxTime
Field == {"start", "end", "scoring", "freeze"}

-----------------------------------------------------------------------------
(* The timing window of a competition. *)
Within(w, f) == w[f] = NoTime \/ (w.start <= w[f] /\ w[f] <= w.end)
_validate_window(w) == w.end > w.start /\ Within(w, "scoring") /\ Within(w, "freeze")

\* The CHECK constraints of table competitions know nothing of scoring_start.
ChecksNone(w) == TRUE
CompetitionChecks(w) == w.end > w.start /\ Within(w, "freeze")

Values(f) == IF f \in {"start", "end"} THEN Time ELSE Time \cup {NoTime}

\* The form or the PATCH: one field changed in what the editor saw.
OpenCompetition(e) ==
    /\ edit[e] = Idling
    /\ \E f \in Field : \E v \in Values(f), match \in {"none", "tag", "any"} :
         LET merged == [window EXCEPT ![f] = v] IN
         /\ _validate_window(merged)
         /\ edit' = [edit EXCEPT ![e] = [st |-> "update", seen |-> IF match = "tag" THEN window ELSE merged, row |-> merged, match |-> match]]
    /\ UNCHANGED <<window, lock, versions, attached>>

\* The flush writes the columns that differ from the row the session loads.
Changed(row) == [f \in {g \in Field : row[g] # window[g]} |-> row[f]]

\* A guarded update reads the row under its lock and compares the versions.
LockCompetition(e) ==
    /\ edit[e].st = "update" /\ edit[e].match # "none" /\ lock = NoEditor
    /\ IF edit[e].match = "any" \/ edit[e].seen = window
       THEN lock' = e /\ edit' = [edit EXCEPT ![e] = [st |-> "flush", set |-> Changed(edit[e].row)]]
       ELSE lock' = lock /\ edit' = [edit EXCEPT ![e] = Idling]
    /\ UNCHANGED <<window, versions, attached>>

LoadCompetition(e) ==
    /\ edit[e].st = "update" /\ edit[e].match = "none"
    /\ edit' = [edit EXCEPT ![e] = [st |-> "flush", set |-> Changed(edit[e].row)]]
    /\ UNCHANGED <<window, lock, versions, attached>>

UpdateCompetition(e) ==
    LET set == edit[e].set
        w == [f \in Field |-> IF f \in DOMAIN set THEN set[f] ELSE window[f]]
    IN
    /\ edit[e].st = "flush" /\ lock \in {e, NoEditor}
    /\ window' = IF CompetitionChecks(w) THEN w ELSE window
    /\ lock' = NoEditor
    /\ edit' = [edit EXCEPT ![e] = Idling]
    /\ UNCHANGED <<versions, attached>>

-----------------------------------------------------------------------------
(* Challenge versions. *)
Numbers == {v.no : v \in versions}
Highest == IF Numbers = {} THEN 0 ELSE CHOOSE n \in Numbers : \A m \in Numbers : m <= n

CreateDraft(e) ==
    /\ edit[e] = Idling
    /\ edit' = [edit EXCEPT ![e] = [st |-> "draft", no |-> Highest + 1]]
    /\ UNCHANGED <<window, lock, versions, attached>>

NumberFree(n) == n \notin Numbers
AddVersion(e) ==
    /\ edit[e].st = "draft"
    /\ versions' = IF NumberFree(edit[e].no) /\ Cardinality(versions) < MaxVersions
                   THEN versions \cup {[id |-> Cardinality(versions) + 1, no |-> edit[e].no, state |-> "draft", by |-> NoEditor]}
                   ELSE versions
    /\ edit' = [edit EXCEPT ![e] = Idling]
    /\ UNCHANGED <<window, lock, attached>>

\* publish reads the version, may compare it, and then takes its row lock and
\* looks at the state again.
Publish(e) ==
    /\ edit[e] = Idling
    /\ \E v \in versions : edit' = [edit EXCEPT ![e] = [st |-> "publish", version |-> v]]
    /\ UNCHANGED <<window, lock, versions, attached>>

MayPublish(v, read) == v.state = "draft"
PublishVersion(e) ==
    LET read == edit[e].version IN
    /\ edit[e].st = "publish"
    /\ versions' = {IF v.id = read.id /\ MayPublish(v, read) THEN [v EXCEPT !.state = "published", !.by = e] ELSE v : v \in versions}
    /\ edit' = [edit EXCEPT ![e] = Idling]
    /\ UNCHANGED <<window, lock, attached>>

-----------------------------------------------------------------------------
(* Publications.  The state is read before the row is inserted. *)
Attach(e) ==
    /\ edit[e] = Idling
    /\ \E v \in versions : v.state = "published" /\ edit' = [edit EXCEPT ![e] = [st |-> "attach", no |-> v.no]]
    /\ UNCHANGED <<window, lock, versions, attached>>

AttachPublication(e) ==
    /\ edit[e].st = "attach"
    /\ attached' = attached \cup {edit[e].no}
    /\ edit' = [edit EXCEPT ![e] = Idling]
    /\ UNCHANGED <<window, lock, versions>>

Detach(e) ==
    /\ edit[e] = Idling /\ attached # {}
    /\ \E n \in attached : attached' = attached \ {n}
    /\ UNCHANGED <<window, lock, versions, edit>>

-----------------------------------------------------------------------------
CtInit ==
    /\ window = [start |-> 1, end |-> MaxTime, scoring |-> 1, freeze |-> MaxTime]
    /\ lock = NoEditor /\ versions = {} /\ attached = {}
    /\ edit = [e \in Editor |-> Idling]

WindowStep == \E e \in Editor : OpenCompetition(e) \/ LockCompetition(e) \/ LoadCompetition(e) \/ UpdateCompetition(e)
VersionStep ==
    \E e \in Editor :
        \/ CreateDraft(e) \/ AddVersion(e) \/ Publish(e) \/ PublishVersion(e)
        \/ Attach(e) \/ AttachPublication(e) \/ Detach(e)
CtNext == WindowStep \/ VersionStep
CtSpec == CtInit /\ [][CtNext]_ctVars

-----------------------------------------------------------------------------
\* The stored window ends after it starts and freezes inside itself, although
\* every editor validates only its own merged copy and the flush writes the
\* changed columns into whatever the row has become.
WindowSane == window.end > window.start /\ Within(window, "freeze")

\* The whole invariant the service states, the start of scoring included.
WindowInvariant == _validate_window(window)

\* The versions of a definition are numbered one after the other, and of two
\* drafts made at once none takes the other's number.
VersionsDense == Numbers = 1..Cardinality(versions)

\* A version is published by one request; a second one that read it as a draft
\* changes nothing, not even the time of publication.
PublishedOnce ==
    [][\A v \in versions : v.state = "published" => v \in versions']_ctVars

\* A competition never publishes a draft: the state was read before the row
\* was inserted, and no step takes a publication back in between.
AttachedPublished == \A n \in attached : \E v \in versions : v.no = n /\ v.state = "published"

\* Concurrent editors leave a competition and a challenge that make sense.
CatalogSafe ==
    /\ WindowSane
    /\ VersionsDense
    /\ AttachedPublished
=============================================================================
