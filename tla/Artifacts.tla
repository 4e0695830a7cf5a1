------------------------------ MODULE Artifacts ------------------------------
(***************************************************************************)
(* The artifact store, the materialization of a published version into it  *)
(* and the download: infrastructure/artifacts, materialization.py and      *)
(* artifact_download.py.  Several processes materialize the same version,  *)
(* each may die between any two steps, and the generator of a newer        *)
(* release renders other bytes for the same version.                       *)
(***************************************************************************)
EXTENDS Integers, FiniteSets, Sequences

CONSTANTS Maker,          \* processes that materialize
          Blob,           \* contents a rendering may have; content i has hash i
          MaxCrashes      \* bound
\* 0 stands for a missing file.
ASSUME BlobAssumption == IsFiniteSet(Blob) /\ Blob \subseteq Nat \ {0}

\* A rendered file is public, or for the organizers, or a public one that must
\* not be there.
FileKind == {"public", "private", "forbidden"}

VARIABLES files,      \* the store: the contents under each key
          temps,      \* temporary files, per process
          builds,     \* challenge_builds rows, by the content they name
          make,       \* where each process is
          served,     \* contents that downloads returned
          crashes

afVars == <<files, temps, builds, make, served, crashes>>
Resting == [st |-> "rest"]
NoFile == 0     \* no such file

-----------------------------------------------------------------------------
(* The rendering. *)
_is_public_path(k) == k \in {"public", "forbidden"}
_assert_contestant_safe(k) == k = "public"
Refused(kinds) == \E k \in {x \in kinds : _is_public_path(x)} : ~_assert_contestant_safe(k)
\* The tar is of the public files alone, so the private ones leave no trace.
_select_public_files(kinds) == {k \in kinds : _is_public_path(k)}

\* What is written first; the store keeps what the row will name.
RowFirst == "row"
FirstWrite == "put"

Materialize(p) ==
    /\ make[p] = Resting
    /\ \E kinds \in {{"public"}, {"public", "private"}, {"public", "forbidden"}}, b \in Blob :
         /\ ~Refused(kinds)
         /\ make' = [make EXCEPT ![p] = [st |-> FirstWrite, blob |-> b, in |-> _select_public_files(kinds)]]
    /\ UNCHANGED <<files, temps, builds, served, crashes>>

-----------------------------------------------------------------------------
(* put: a temporary file is written and synced, then linked to its name,    *)
(* which fails when the name exists; then the temporary file goes.          *)
Part == -1      \* a file half written
WriteTemp(p) ==
    /\ make[p].st = "put"
    /\ temps' = [temps EXCEPT ![p] = Part]
    /\ make' = [make EXCEPT ![p].st = "sync"]
    /\ UNCHANGED <<files, builds, served, crashes>>

SyncTemp(p) ==
    /\ make[p].st = "sync"
    /\ temps' = [temps EXCEPT ![p] = make[p].blob]
    /\ make' = [make EXCEPT ![p].st = "link"]
    /\ UNCHANGED <<files, builds, served, crashes>>

\* The name a content goes under.
_storage_key(b) == b

Link(p) ==
    LET k == _storage_key(make[p].blob) IN
    /\ make[p].st = "link"
    /\ files' = IF files[k] = NoFile THEN [files EXCEPT ![k] = temps[p]] ELSE files
    /\ make' = [make EXCEPT ![p].st = IF files[k] \in {NoFile, make[p].blob} THEN "clean" ELSE "failed"]
    /\ UNCHANGED <<temps, builds, served, crashes>>

Unlink(p) ==
    /\ make[p].st \in {"clean", "failed"}
    /\ temps' = [temps EXCEPT ![p] = NoFile]
    /\ make' = [make EXCEPT ![p] = IF make[p].st = "clean" THEN [make[p] EXCEPT !.st = "row"] ELSE Resting]
    /\ UNCHANGED <<files, builds, served, crashes>>

\* The build row: found, or added, or added by another process meanwhile; the
\* unique hash makes it the same row in each case.
AddBuild(p) ==
    /\ make[p].st = "row"
    /\ builds' = builds \cup {make[p].blob}
    /\ make' = [make EXCEPT ![p] = Resting]
    /\ UNCHANGED <<files, temps, served, crashes>>

CrashMaker(p) ==
    /\ make[p] # Resting /\ crashes < MaxCrashes
    /\ crashes' = crashes + 1
    /\ make' = [make EXCEPT ![p] = Resting]
    /\ UNCHANGED <<files, temps, builds, served>>

-----------------------------------------------------------------------------
(* The download: of the version's builds the one with the greatest hash. *)
Newest == CHOOSE b \in builds : \A c \in builds : c <= b
Download ==
    /\ builds # {}
    /\ served' = served \cup {files[_storage_key(Newest)]}
    /\ UNCHANGED <<files, temps, builds, make, crashes>>

AfInit ==
    /\ files = [b \in Blob |-> NoFile] /\ temps = [p \in Maker |-> NoFile]
    /\ builds = {} /\ make = [p \in Maker |-> Resting]
    /\ served = {} /\ crashes = 0

AfNext ==
    \/ Download
    \/ \E p \in Maker :
         \/ Materialize(p) \/ WriteTemp(p) \/ SyncTemp(p) \/ Link(p) \/ Unlink(p)
         \/ AddBuild(p) \/ CrashMaker(p)
AfSpec == AfInit /\ [][AfNext]_afVars

-----------------------------------------------------------------------------
\* Whatever dies and when, a build row has its blob in the store, whole and
\* under the hash it names: a crash leaves a blob without a row, never the
\* reverse, and every download returns a whole content.
RowHasBlob ==
    /\ \A b \in builds : files[_storage_key(b)] = b
    /\ served \subseteq builds
=============================================================================
