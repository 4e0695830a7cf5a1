----------------------------- MODULE WriteBuild ------------------------------
(***************************************************************************)
(* write_build (build.py), through which create_challenge (generator.py)    *)
(* puts a rendered challenge at its output path.  The build is made in a    *)
(* sibling directory, an earlier build is moved aside, the new one renamed  *)
(* into place, and the old one deleted, or moved back when the rename       *)
(* failed.  Several processes may write to one path; each may die anywhere. *)
(***************************************************************************)
EXTENDS Naturals, FiniteSets

CONSTANTS
    Render,         \* the calls of create_challenge for one output path
    MaxIoFaults,    \* renames that fail for no reason of their own
    MaxDeaths       \* processes that die

VARIABLES
    final,          \* what is at the output path
    call,           \* the calls: [pc, force, input]
    tmpDir,         \* each call's temporary directory
    oldDir,         \* where each call moved the earlier build
    diagDir,        \* each call's .ctfgen-failed directory
    had,            \* the path has held a build
    ioFaults, deaths
wbVars == <<final, call, tmpDir, oldDir, diagDir, had, ioFaults, deaths>>

\* A directory entry.  A build carries the marker; it is whole once its files
\* and manifests are written.
Nothing == [kind |-> "none", whole |-> FALSE]
Partial == [kind |-> "build", whole |-> FALSE]
WholeBuild == [kind |-> "build", whole |-> TRUE]
Exists(d) == d.kind # "none"
is_managed_build_dir(d) == d.kind = "build"
_is_nonempty_dir(d) == d.kind \in {"build", "foreign"}
\* Neither through a symlink nor over somebody's files.
Replaceable(d) == d.kind # "link" /\ (_is_nonempty_dir(d) => is_managed_build_dir(d))

\* What the renderer returned.
Inputs == {"good", "bad path", "duplicate", "too many", "too large"}
validate_relative_path(in) == in # "bad path"
WithinLimits(in) == in \notin {"duplicate", "too many"}

CallEnded == {"returned", "refused", "failed", "dead"}
Move(c, pc) == call' = [call EXCEPT ![c].pc = pc]
Is(c, pc) == call[c].pc = pc

WbInit ==
    /\ final \in {Nothing, WholeBuild} \cup [kind : {"empty", "foreign", "link"}, whole : {FALSE}]
    /\ had = (final = WholeBuild)
    /\ call \in [Render -> [pc : {"start"}, force : BOOLEAN, input : Inputs]]
    /\ tmpDir = [c \in Render |-> Nothing] /\ oldDir = tmpDir /\ diagDir = tmpDir
    /\ ioFaults = 0 /\ deaths = 0

\* _reject_dangerous_output_root, and the first look at the path: a refused
\* call has written nothing.
Refuse(c) ==
    /\ Is(c, "start")
    /\ Exists(final) /\ (final.kind = "link" \/ ~call[c].force \/ ~Replaceable(final))
    /\ Move(c, "refused")
    /\ UNCHANGED <<final, tmpDir, oldDir, diagDir, had, ioFaults, deaths>>
MakeTmp(c) ==
    /\ Is(c, "start")
    /\ Exists(final) => call[c].force /\ Replaceable(final)
    /\ tmpDir' = [tmpDir EXCEPT ![c] = Partial]
    /\ Move(c, "render")
    /\ UNCHANGED <<final, oldDir, diagDir, had, ioFaults, deaths>>

\* Every path is checked before the first file is written; the size while
\* they are.  The manifests come last.
WriteFiles(c) ==
    /\ Is(c, "render")
    /\ IF ~validate_relative_path(call[c].input) \/ ~WithinLimits(call[c].input) \/ call[c].input = "too large"
       THEN Move(c, "diagnose")
       ELSE Move(c, "manifest")
    /\ UNCHANGED <<final, tmpDir, oldDir, diagDir, had, ioFaults, deaths>>
_build_manifests(c) ==
    /\ Is(c, "manifest")
    /\ tmpDir' = [tmpDir EXCEPT ![c] = WholeBuild]
    /\ Move(c, "look")
    /\ UNCHANGED <<final, oldDir, diagDir, had, ioFaults, deaths>>

\* The second look.
LookAgain(c) ==
    /\ Is(c, "look")
    /\ Move(c, IF ~Exists(final) THEN "publish" ELSE IF Replaceable(final) THEN "aside" ELSE "diagnose")
    /\ UNCHANGED <<final, tmpDir, oldDir, diagDir, had, ioFaults, deaths>>

\* os.replace: the source must be there, and a directory is only renamed over
\* an empty one.
CanReplace(from, to) == Exists(from) /\ (Exists(to) => to.kind = "empty")
Fault == ioFaults < MaxIoFaults /\ ioFaults' = ioFaults + 1
NoFault == ioFaults' = ioFaults

MoveAside(c) ==
    /\ Is(c, "aside")
    /\ \/ /\ Exists(final) /\ NoFault
          /\ oldDir' = [oldDir EXCEPT ![c] = final]
          /\ final' = Nothing
          /\ Move(c, "publish")
       \/ /\ (~Exists(final) /\ NoFault) \/ Fault
          /\ Move(c, "diagnose")
          /\ UNCHANGED <<final, oldDir>>
    /\ UNCHANGED <<tmpDir, diagDir, had, deaths>>

RenameIn(c) ==
    /\ Is(c, "publish")
    /\ \/ /\ CanReplace(tmpDir[c], final) /\ NoFault
          /\ final' = tmpDir[c]
          /\ tmpDir' = [tmpDir EXCEPT ![c] = Nothing]
          /\ had' = TRUE
          /\ Move(c, "delete")
       \/ /\ (~CanReplace(tmpDir[c], final) /\ NoFault) \/ Fault
          /\ Move(c, "unpublished")
          /\ UNCHANGED <<final, tmpDir, had>>
    /\ UNCHANGED <<oldDir, diagDir, deaths>>

\* The rename failed: an earlier build goes back if the path is still free.
\* The look and the rename are two steps.
\* Mutant: the earlier build is deleted all the same.
NoRestore(c) == "drop"
AfterFailedPublish(c) ==
    IF Exists(oldDir[c]) /\ ~Exists(final) THEN "restore" ELSE "drop"
LookUnpublished(c) ==
    /\ Is(c, "unpublished")
    /\ Move(c, AfterFailedPublish(c))
    /\ UNCHANGED <<final, tmpDir, oldDir, diagDir, had, ioFaults, deaths>>
MoveBack(c) ==
    /\ Is(c, "restore")
    /\ \/ /\ CanReplace(oldDir[c], final) /\ NoFault
          /\ final' = oldDir[c]
          /\ oldDir' = [oldDir EXCEPT ![c] = Nothing]
          /\ Move(c, "drop")
       \/ /\ (~CanReplace(oldDir[c], final) /\ NoFault) \/ Fault
          /\ Move(c, "diagnose")
          /\ UNCHANGED <<final, oldDir>>
    /\ UNCHANGED <<tmpDir, diagDir, had, deaths>>
\* shutil.rmtree of the earlier build; the deletion is not undone by a death.
DeleteOld(c) ==
    /\ call[c].pc \in {"delete", "drop"}
    /\ oldDir' = [oldDir EXCEPT ![c] = Nothing]
    /\ Move(c, IF Is(c, "delete") THEN "returned" ELSE "diagnose")
    /\ UNCHANGED <<final, tmpDir, diagDir, had, ioFaults, deaths>>

\* What was written is kept beside the output path for a look.
Diagnose(c) ==
    /\ Is(c, "diagnose")
    /\ diagDir' = [diagDir EXCEPT ![c] = tmpDir[c]]
    /\ tmpDir' = [tmpDir EXCEPT ![c] = Nothing]
    /\ Move(c, "failed")
    /\ UNCHANGED <<final, oldDir, had, ioFaults, deaths>>

Die(c) ==
    /\ call[c].pc \notin CallEnded
    /\ deaths < MaxDeaths
    /\ deaths' = deaths + 1
    /\ Move(c, "dead")
    /\ UNCHANGED <<final, tmpDir, oldDir, diagDir, had, ioFaults>>

WbNext ==
    \E c \in Render :
        \/ Refuse(c) \/ MakeTmp(c) \/ WriteFiles(c) \/ _build_manifests(c)
        \/ LookAgain(c) \/ MoveAside(c) \/ RenameIn(c) \/ LookUnpublished(c)
        \/ MoveBack(c) \/ DeleteOld(c) \/ Diagnose(c) \/ Die(c)
WbSpec == WbInit /\ [][WbNext]_wbVars
-----------------------------------------------------------------------------
(***************************************************************************)
(* Once the path has held a build, a whole build is at the path or set      *)
(* aside next to it, whichever calls race, fail or die: the earlier build   *)
(* is deleted only when another stands in its place.  (the finally of       *)
(* write_build)                                                             *)
(***************************************************************************)
NeverWithoutBuild == had => final = WholeBuild \/ \E c \in Render : oldDir[c] = WholeBuild

(***************************************************************************)
(* When every call has ended, none by dying, and at most one rename failed  *)
(* for no reason of its own, a path that held a build holds a whole one:    *)
(* no failed call leaves the path empty or half-written.  (write_build)     *)
(***************************************************************************)
NotLeftMissing ==
    had /\ deaths = 0 /\ ioFaults <= 1 /\ (\A c \in Render : call[c].pc \in CallEnded) => final = WholeBuild

(***************************************************************************)
(* Nothing half-written is ever at the output path, not even between two    *)
(* steps of a call.  (the temporary directory and os.replace)               *)
(***************************************************************************)
FinalWhole == is_managed_build_dir(final) => final.whole

\* The output path, once it held a build, keeps a whole one or a way back.
OutputSafe ==
    /\ FinalWhole
    /\ NeverWithoutBuild
    /\ NotLeftMissing
=============================================================================
