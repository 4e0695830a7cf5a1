---------------------------- MODULE ContentProofs ----------------------------
(***************************************************************************)
(* Theorems about the content side of the platform: write_build, the        *)
(* artifact store, the evaluations, the catalog, the CVE cache, the         *)
(* verification of a restored backup, the local evaluations, the image      *)
(* builds and the scenario engine, for every number of calls, processes,    *)
(* requests, drains, editors, commands, contests, ledger rows, agents,      *)
(* compose files and workers, and for every set of scenarios.               *)
(***************************************************************************)
EXTENDS WriteBuild, Artifacts, Evaluations, Catalog, CveCache, Backup, LocalEval, Builds,
        FiniteSetTheorems, WellFoundedInduction, SequenceTheorems, TLAPS

-----------------------------------------------------------------------------
(* write_build.  The output path is not an empty directory at first: with    *)
(* one, three racing calls can lose a build (README, "Output").              *)
(* The inductive invariant.                                                  *)

EmptyDir == [kind |-> "empty", whole |-> FALSE]
Foreign == [kind |-> "foreign", whole |-> FALSE]
SymLink == [kind |-> "link", whole |-> FALSE]
OutputSpec == WbInit /\ final # EmptyDir /\ [][WbNext]_wbVars

CallPc == {"start", "render", "manifest", "look", "aside", "publish", "unpublished",
           "restore", "delete", "drop", "diagnose"} \cup CallEnded

WbShape ==
    /\ final \in {Nothing, WholeBuild, Foreign, SymLink}
    /\ call \in [Render -> [pc : CallPc, force : BOOLEAN, input : Inputs]]
    /\ tmpDir \in [Render -> {Nothing, Partial, WholeBuild}]
    /\ oldDir \in [Render -> {Nothing, WholeBuild}]
    /\ had \in BOOLEAN /\ ioFaults \in Nat /\ deaths \in Nat

\* A call that is about to publish has a whole build to publish.
TmpWhole == \A c \in Render : call[c].pc \in {"look", "aside", "publish"} => tmpDir[c] = WholeBuild

\* Somebody else's files keep every call out.
KeptOut ==
    final \in {Foreign, SymLink} => ~had /\ \A c \in Render : call[c].pc \in {"start", "refused", "dead"}

\* The call that moved the last build away still has it, and has not given it
\* up but for a fault at the rename and a second one at the rename back.
Holds(c) ==
    /\ oldDir[c] = WholeBuild
    /\ \/ call[c].pc = "publish"
       \/ call[c].pc \in {"unpublished", "restore"} /\ ioFaults >= 1
       \/ call[c].pc \in {"diagnose", "failed"} /\ ioFaults >= 2
       \/ call[c].pc = "dead" /\ deaths >= 1
Held == had /\ final = Nothing => \E c \in Render : Holds(c)

WbInv == WbShape /\ TmpWhole /\ KeptOut /\ Held

LEMMA Entries ==
    /\ Nothing # WholeBuild /\ Nothing # Partial /\ Partial # WholeBuild
    /\ Nothing # Foreign /\ Nothing # SymLink /\ WholeBuild # Foreign /\ WholeBuild # SymLink
    /\ ~Exists(Nothing) /\ Exists(WholeBuild) /\ Exists(Partial) /\ Exists(Foreign) /\ Exists(SymLink)
    /\ ~Replaceable(Foreign) /\ ~Replaceable(SymLink)
    /\ WholeBuild.kind # "empty" /\ Foreign.kind # "empty" /\ SymLink.kind # "empty"
    /\ WholeBuild.whole /\ WholeBuild.kind = "build"
    /\ Nothing.kind # "build" /\ Foreign.kind # "build" /\ SymLink.kind # "build"
BY DEF Nothing, WholeBuild, Partial, Foreign, SymLink, Exists, Replaceable, _is_nonempty_dir, is_managed_build_dir

LEMMA OutputStart == WbInit /\ final # EmptyDir => WbInv
<1> SUFFICES ASSUME WbInit, final # EmptyDir PROVE WbInv
    OBVIOUS
<1>1. final \in {Nothing, WholeBuild, Foreign, SymLink}
    BY DEF WbInit, EmptyDir, Foreign, SymLink
<1>2. WbShape
    BY <1>1 DEF WbInit, WbShape, CallPc
<1>3. TmpWhole /\ KeptOut /\ Held
    BY <1>1, Entries DEF WbInit, TmpWhole, KeptOut, Held
<1> QED
    BY <1>2, <1>3 DEF WbInv

LEMMA OutputStep == WbInv /\ [WbNext]_wbVars => WbInv'
<1> SUFFICES ASSUME WbInv, [WbNext]_wbVars PROVE WbInv'
    OBVIOUS
<1> USE Entries DEF WbInv, Is, Move
<1>1. CASE UNCHANGED wbVars
    BY <1>1 DEF wbVars, WbShape, TmpWhole, KeptOut, Held, Holds
<1>2. ASSUME NEW c \in Render, Refuse(c) PROVE WbInv'
  <2>1. WbShape'
    BY <1>2 DEF Refuse, WbShape, CallPc, CallEnded
  <2>2. TmpWhole'
    BY <1>2 DEF Refuse, TmpWhole, WbShape
  <2>3. KeptOut'
    BY <1>2 DEF Refuse, KeptOut, WbShape
  <2>4. Held'
    BY <1>2 DEF Refuse, Held, Holds, WbShape, KeptOut, TmpWhole
  <2> QED
    BY <2>1, <2>2, <2>3, <2>4
<1>3. ASSUME NEW c \in Render, MakeTmp(c) PROVE WbInv'
  <2>1. WbShape'
    BY <1>3 DEF MakeTmp, WbShape, CallPc, CallEnded
  <2>2. TmpWhole'
    BY <1>3 DEF MakeTmp, TmpWhole, WbShape
  <2>3. KeptOut'
    BY <1>3 DEF MakeTmp, KeptOut, WbShape
  <2>4. Held'
    BY <1>3 DEF MakeTmp, Held, Holds, WbShape, KeptOut, TmpWhole
  <2> QED
    BY <2>1, <2>2, <2>3, <2>4
<1>4. ASSUME NEW c \in Render, WriteFiles(c) PROVE WbInv'
  <2>1. WbShape'
    <3>1. call' = [call EXCEPT ![c].pc = "diagnose"] \/ call' = [call EXCEPT ![c].pc = "manifest"]
      BY <1>4, Zenon DEF WriteFiles
    <3> QED
      BY <1>4, <3>1 DEF WriteFiles, WbShape, CallPc, CallEnded
  <2>2. TmpWhole'
    BY <1>4 DEF WriteFiles, TmpWhole, WbShape
  <2>3. KeptOut'
    BY <1>4 DEF WriteFiles, KeptOut, WbShape
  <2>4. Held'
    BY <1>4 DEF WriteFiles, Held, Holds, WbShape, KeptOut, TmpWhole
  <2> QED
    BY <2>1, <2>2, <2>3, <2>4
<1>5. ASSUME NEW c \in Render, _build_manifests(c) PROVE WbInv'
  <2>1. WbShape'
    BY <1>5 DEF _build_manifests, WbShape, CallPc, CallEnded
  <2>2. TmpWhole'
    BY <1>5 DEF _build_manifests, TmpWhole, WbShape
  <2>3. KeptOut'
    BY <1>5 DEF _build_manifests, KeptOut, WbShape
  <2>4. Held'
    BY <1>5 DEF _build_manifests, Held, Holds, WbShape, KeptOut, TmpWhole
  <2> QED
    BY <2>1, <2>2, <2>3, <2>4
<1>6. ASSUME NEW c \in Render, LookAgain(c) PROVE WbInv'
  <2>1. WbShape'
    BY <1>6 DEF LookAgain, WbShape, CallPc, CallEnded
  <2>2. TmpWhole'
    BY <1>6 DEF LookAgain, TmpWhole, WbShape
  <2>3. KeptOut'
    BY <1>6 DEF LookAgain, KeptOut, WbShape
  <2>4. Held'
    BY <1>6 DEF LookAgain, Held, Holds, WbShape, KeptOut, TmpWhole
  <2> QED
    BY <2>1, <2>2, <2>3, <2>4
<1>7. ASSUME NEW c \in Render, MoveAside(c) PROVE WbInv'
  <2>1. WbShape'
    BY <1>7 DEF MoveAside, Fault, NoFault, WbShape, KeptOut, CallPc, CallEnded
  <2>2. TmpWhole'
    BY <1>7 DEF MoveAside, Fault, NoFault, TmpWhole, WbShape
  <2>3. KeptOut'
    BY <1>7 DEF MoveAside, Fault, NoFault, KeptOut, WbShape
  <2>4. Held'
    BY <1>7 DEF MoveAside, Fault, NoFault, Held, Holds, WbShape, KeptOut, TmpWhole
  <2> QED
    BY <2>1, <2>2, <2>3, <2>4
<1>8. ASSUME NEW c \in Render, RenameIn(c) PROVE WbInv'
  <2>1. tmpDir[c] = WholeBuild
    BY <1>8 DEF RenameIn, TmpWhole
  <2>2. CASE /\ CanReplace(tmpDir[c], final) /\ NoFault
             /\ final' = tmpDir[c]
             /\ tmpDir' = [tmpDir EXCEPT ![c] = Nothing]
             /\ had' = TRUE
             /\ Move(c, "delete")
    <3>1. WbShape'
      BY <1>8, <2>1, <2>2 DEF RenameIn, NoFault, WbShape, CallPc, CallEnded
    <3>2. TmpWhole'
      BY <1>8, <2>2 DEF TmpWhole, WbShape
    <3>3. KeptOut' /\ Held'
      BY <2>1, <2>2 DEF KeptOut, Held
    <3> QED
      BY <3>1, <3>2, <3>3
  <2>3. CASE /\ (~CanReplace(tmpDir[c], final) /\ NoFault) \/ Fault
             /\ Move(c, "unpublished")
             /\ UNCHANGED <<final, tmpDir, had>>
    <3>1. WbShape'
      BY <1>8, <2>3 DEF RenameIn, Fault, NoFault, WbShape, CallPc, CallEnded
    <3>2. TmpWhole'
      BY <1>8, <2>3 DEF TmpWhole, WbShape
    <3>3. KeptOut'
      BY <1>8, <2>3 DEF RenameIn, KeptOut, WbShape
    <3>4. Held'
      <4>1. SUFFICES ASSUME had, final = Nothing PROVE \E e \in Render : Holds(e)'
        BY <2>3 DEF Held
      <4>2. CanReplace(tmpDir[c], final)
        BY <2>1, <4>1 DEF CanReplace
      <4>3. ioFaults' = ioFaults + 1
        BY <2>3, <4>2 DEF Fault
      <4>4. PICK e \in Render : Holds(e)
        BY <4>1 DEF Held
      <4>5. Holds(e)'
        BY <1>8, <2>3, <4>3, <4>4 DEF RenameIn, Holds, WbShape
      <4> QED
        BY <4>5
    <3> QED
      BY <3>1, <3>2, <3>3, <3>4
  <2> QED
    BY <1>8, <2>2, <2>3 DEF RenameIn
<1>9. ASSUME NEW c \in Render, LookUnpublished(c) PROVE WbInv'
  <2>1. WbShape'
    BY <1>9 DEF LookUnpublished, AfterFailedPublish, WbShape, CallPc, CallEnded
  <2>2. TmpWhole'
    BY <1>9 DEF LookUnpublished, AfterFailedPublish, TmpWhole, WbShape
  <2>3. KeptOut'
    BY <1>9 DEF LookUnpublished, AfterFailedPublish, KeptOut, WbShape
  <2>4. Held'
    BY <1>9 DEF LookUnpublished, AfterFailedPublish, Held, Holds, WbShape, KeptOut, TmpWhole
  <2> QED
    BY <2>1, <2>2, <2>3, <2>4
<1>10. ASSUME NEW c \in Render, MoveBack(c) PROVE WbInv'
  <2>1. WbShape'
    BY <1>10 DEF MoveBack, Fault, NoFault, CanReplace, WbShape, CallPc, CallEnded
  <2>2. TmpWhole'
    BY <1>10 DEF MoveBack, Fault, NoFault, CanReplace, TmpWhole, WbShape
  <2>3. KeptOut'
    BY <1>10 DEF MoveBack, Fault, NoFault, CanReplace, KeptOut, WbShape
  <2>4. Held'
    BY <1>10 DEF MoveBack, Fault, NoFault, CanReplace, Held, Holds, WbShape, KeptOut, TmpWhole
  <2> QED
    BY <2>1, <2>2, <2>3, <2>4
<1>11. ASSUME NEW c \in Render, DeleteOld(c) PROVE WbInv'
  <2>1. WbShape'
    BY <1>11 DEF DeleteOld, WbShape, CallPc, CallEnded
  <2>2. TmpWhole'
    BY <1>11 DEF DeleteOld, TmpWhole, WbShape
  <2>3. KeptOut'
    BY <1>11 DEF DeleteOld, KeptOut, WbShape
  <2>4. Held'
    BY <1>11 DEF DeleteOld, Held, Holds, WbShape, KeptOut, TmpWhole
  <2> QED
    BY <2>1, <2>2, <2>3, <2>4
<1>12. ASSUME NEW c \in Render, Diagnose(c) PROVE WbInv'
  <2>1. WbShape'
    BY <1>12 DEF Diagnose, WbShape, CallPc, CallEnded
  <2>2. TmpWhole'
    BY <1>12 DEF Diagnose, TmpWhole, WbShape
  <2>3. KeptOut'
    BY <1>12 DEF Diagnose, KeptOut, WbShape
  <2>4. Held'
    BY <1>12 DEF Diagnose, Held, Holds, WbShape, KeptOut, TmpWhole
  <2> QED
    BY <2>1, <2>2, <2>3, <2>4
<1>13. ASSUME NEW c \in Render, Die(c) PROVE WbInv'
  <2>1. WbShape'
    BY <1>13 DEF Die, WbShape, CallPc, CallEnded
  <2>2. TmpWhole'
    BY <1>13 DEF Die, TmpWhole, WbShape
  <2>3. KeptOut'
    BY <1>13 DEF Die, KeptOut, WbShape
  <2>4. Held'
    BY <1>13 DEF Die, Held, Holds, WbShape, KeptOut, TmpWhole
  <2> QED
    BY <2>1, <2>2, <2>3, <2>4
<1> QED
    BY <1>1, <1>2, <1>3, <1>4, <1>5, <1>6, <1>7, <1>8, <1>9, <1>10, <1>11, <1>12, <1>13 DEF WbNext

\* Every reachable state has the invariant.
LEMMA OutputInvariant == OutputSpec => []WbInv
<1> QED
    BY OutputStart, OutputStep, PTL DEF OutputSpec

\* Any number of create_challenge calls may race for an output path, fail and
\* die: once the path has held a build, a whole one is there or kept beside it,
\* nothing half-written is ever there, and when all calls have ended a whole
\* build is there unless one of them died or two renames failed
\* (write_build, build.py).
THEOREM OutputSafeHolds == OutputSpec => []OutputSafe
<1>1. WbInv => OutputSafe
  <2> SUFFICES ASSUME WbInv PROVE OutputSafe
    OBVIOUS
  <2> USE Entries DEF WbInv
  <2>1. had => final \in {Nothing, WholeBuild}
    BY DEF WbShape, KeptOut
  <2>2. FinalWhole
    BY DEF FinalWhole, is_managed_build_dir, WbShape
  <2>3. NeverWithoutBuild
    BY <2>1 DEF NeverWithoutBuild, Held, Holds
  <2>4. NotLeftMissing
    BY <2>1 DEF NotLeftMissing, Held, Holds, WbShape, CallEnded
  <2> QED
    BY <2>2, <2>3, <2>4 DEF OutputSafe
<1> QED
    BY <1>1, OutputInvariant, PTL

-----------------------------------------------------------------------------
(* Evaluations: the inductive invariant. *)

RunStatus == {"pending", "running", "succeeded", "failed"}
JobStatus == {"absent", "queued"} \cup Ended
RunRow == [id : Asker, status : RunStatus, error : {Null, "error"} \cup JobStatus,
           solved : {Null, "solved", "unsolved"}, completed_at : Nat]
DrainResult == [error : {Null, "error"} \cup JobStatus, solved : {Null, "solved", "unsolved"}]

EvShape ==
    /\ evrun \in {NoEvalRun} \cup RunRow
    /\ evjob \in [status : JobStatus, run : Asker \cup {NoAsker},
                  result : {Null, "solved", "unsolved", "error"}, attempts : Nat]
    /\ ask \in [Asker -> [st : {"idle", "add"}] \cup [st : {"stored"}, id : Asker, status : RunStatus]]
    /\ drain \in [Drainer -> [st : {"idle", "listed"}] \cup [st : {"record", "write"}, result : DrainResult]]
    /\ stamp \in Nat /\ stamp > 0

\* The unique key: whoever found or added a run means the one that is stored.
OneRun ==
    /\ \A a \in Asker : ask[a].st = "stored" => evrun # NoEvalRun /\ ask[a].id = evrun.id
    /\ \A d \in Drainer : drain[d].st # "idle" => evrun # NoEvalRun
    /\ evjob.status # "absent" => evrun # NoEvalRun /\ evjob.run = evrun.id

\* A success that a drain has read is the job's for good: no step leaves it.
SuccessIsFinal ==
    /\ evjob.status = "succeeded" => evjob.result # Null
    /\ \A d \in Drainer : drain[d].st \in {"record", "write"} /\ drain[d].result.error = Null =>
          evjob.status = "succeeded" /\ drain[d].result.solved = evjob.result /\ evjob.result # "error"

EvInv == EvShape /\ OneRun /\ SuccessIsFinal /\ OutcomeTrue

LEMMA RunRows ==
    /\ \A r \in RunRow : r # NoEvalRun /\ r.status # "none"
    /\ NoEvalRun.status = "none"
BY DEF RunRow, NoEvalRun, RunStatus

LEMMA EvStart == EvInit => EvInv
BY RunRows DEF EvInit, EvInv, EvShape, OneRun, SuccessIsFinal, OutcomeTrue, JobStatus, Null

LEMMA EvStep == EvInv /\ [EvNext]_evVars => EvInv'
<1> SUFFICES ASSUME EvInv, [EvNext]_evVars PROVE EvInv'
    OBVIOUS
<1> USE RunRows DEF EvInv
<1>1. CASE UNCHANGED evVars
    BY <1>1 DEF evVars, EvShape, OneRun, SuccessIsFinal, OutcomeTrue
<1>2. CASE publish_version
  <2>1. EvShape'
    BY <1>2 DEF publish_version, EvShape, JobStatus, Ended, Null, RunRow, RunStatus, DrainResult
  <2>2. OneRun'
    BY <1>2 DEF publish_version, EvShape, OneRun, JobStatus, Ended
  <2>3. SuccessIsFinal'
    BY <1>2 DEF publish_version, EvShape, SuccessIsFinal, JobStatus, Ended, Null
  <2>4. OutcomeTrue'
    BY <1>2 DEF publish_version, EvShape, OneRun, SuccessIsFinal, OutcomeTrue, Null
  <2> QED
    BY <2>1, <2>2, <2>3, <2>4
<1>3. CASE _do_agent_eval
  <2>1. EvShape'
    BY <1>3 DEF _do_agent_eval, EvShape, JobStatus, Ended, Null, RunRow, RunStatus, DrainResult
  <2>2. OneRun'
    BY <1>3 DEF _do_agent_eval, EvShape, OneRun, JobStatus, Ended
  <2>3. SuccessIsFinal'
    BY <1>3 DEF _do_agent_eval, EvShape, SuccessIsFinal, JobStatus, Ended, Null
  <2>4. OutcomeTrue'
    BY <1>3 DEF _do_agent_eval, EvShape, OneRun, SuccessIsFinal, OutcomeTrue, Null
  <2> QED
    BY <2>1, <2>2, <2>3, <2>4
<1>4. CASE EvalFails
  <2>1. EvShape'
    <3> DEFINE n == evjob.attempts + 1
    <3>1. n \in Nat
      BY DEF EvShape
    <3>2. evjob' = [evjob EXCEPT !.attempts = n, !.status = IF n >= EvAttempts THEN "dead_letter" ELSE "queued"]
      BY <1>4, Zenon DEF EvalFails
    <3> HIDE DEF n
    <3>3. evjob' \in [status : JobStatus, run : Asker \cup {NoAsker},
                      result : {Null, "solved", "unsolved", "error"}, attempts : Nat]
      BY <3>1, <3>2, EvAssumption DEF EvShape, JobStatus, Ended
    <3> QED
      BY <1>4, <3>3 DEF EvalFails, EvShape
  <2>2. OneRun'
    BY <1>4 DEF EvalFails, EvShape, OneRun, JobStatus, Ended
  <2>3. SuccessIsFinal'
    BY <1>4 DEF EvalFails, EvShape, SuccessIsFinal, JobStatus, Ended, Null
  <2>4. OutcomeTrue'
    BY <1>4 DEF EvalFails, EvShape, OneRun, SuccessIsFinal, OutcomeTrue, Null
  <2> QED
    BY <2>1, <2>2, <2>3, <2>4
<1>5. CASE EvalRefused
  <2>1. EvShape'
    BY <1>5 DEF EvalRefused, EvShape, JobStatus, Ended, Null, RunRow, RunStatus, DrainResult
  <2>2. OneRun'
    BY <1>5 DEF EvalRefused, EvShape, OneRun, JobStatus, Ended
  <2>3. SuccessIsFinal'
    BY <1>5 DEF EvalRefused, EvShape, SuccessIsFinal, JobStatus, Ended, Null
  <2>4. OutcomeTrue'
    BY <1>5 DEF EvalRefused, EvShape, OneRun, SuccessIsFinal, OutcomeTrue, Null
  <2> QED
    BY <2>1, <2>2, <2>3, <2>4
<1>6. CASE RetryEval
  <2>1. EvShape'
    BY <1>6 DEF RetryEval, EvShape, JobStatus, Ended, Null, RunRow, RunStatus, DrainResult
  <2>2. OneRun'
    BY <1>6 DEF RetryEval, EvShape, OneRun, JobStatus, Ended
  <2>3. SuccessIsFinal'
    BY <1>6 DEF RetryEval, EvShape, SuccessIsFinal, JobStatus, Ended, Null
  <2>4. OutcomeTrue'
    BY <1>6 DEF RetryEval, EvShape, OneRun, SuccessIsFinal, OutcomeTrue, Null
  <2> QED
    BY <2>1, <2>2, <2>3, <2>4
<1>7. ASSUME NEW a \in Asker, FindRun(a) PROVE EvInv'
  <2>1. EvShape'
    BY <1>7 DEF FindRun, Stored, EvShape, JobStatus, Ended, Null, RunRow, RunStatus, DrainResult
  <2>2. OneRun'
    BY <1>7 DEF FindRun, Stored, EvShape, OneRun, JobStatus, Ended
  <2>3. SuccessIsFinal'
    BY <1>7 DEF FindRun, Stored, EvShape, SuccessIsFinal, JobStatus, Ended, Null
  <2>4. OutcomeTrue'
    BY <1>7 DEF FindRun, Stored, EvShape, OneRun, SuccessIsFinal, OutcomeTrue, Null
  <2> QED
    BY <2>1, <2>2, <2>3, <2>4
<1>8. ASSUME NEW a \in Asker, AddRun(a) PROVE EvInv'
  <2>1. EvShape'
    BY <1>8 DEF AddRun, Stored, EvShape, JobStatus, Ended, Null, RunRow, RunStatus, DrainResult
  <2>2. OneRun'
    BY <1>8 DEF AddRun, Stored, EvShape, OneRun, JobStatus, Ended
  <2>3. SuccessIsFinal'
    BY <1>8 DEF AddRun, Stored, EvShape, SuccessIsFinal, JobStatus, Ended, Null
  <2>4. OutcomeTrue'
    BY <1>8 DEF AddRun, Stored, EvShape, OneRun, SuccessIsFinal, OutcomeTrue, Null
  <2> QED
    BY <2>1, <2>2, <2>3, <2>4
<1>9. ASSUME NEW a \in Asker, EnqueueEval(a) PROVE EvInv'
  <2>1. EvShape'
    BY <1>9 DEF EnqueueEval, PayloadRun, EvShape, JobStatus, Ended, Null, RunRow, RunStatus, DrainResult
  <2>2. OneRun'
    BY <1>9 DEF EnqueueEval, PayloadRun, EvShape, OneRun, JobStatus, Ended
  <2>3. SuccessIsFinal'
    BY <1>9 DEF EnqueueEval, PayloadRun, EvShape, SuccessIsFinal, JobStatus, Ended, Null
  <2>4. OutcomeTrue'
    BY <1>9 DEF EnqueueEval, PayloadRun, EvShape, OneRun, SuccessIsFinal, OutcomeTrue, Null
  <2> QED
    BY <2>1, <2>2, <2>3, <2>4
<1>10. ASSUME NEW a \in Asker, AskerDies(a) PROVE EvInv'
  <2>1. EvShape'
    BY <1>10 DEF AskerDies, EvShape, JobStatus, Ended, Null, RunRow, RunStatus, DrainResult
  <2>2. OneRun'
    BY <1>10 DEF AskerDies, EvShape, OneRun, JobStatus, Ended
  <2>3. SuccessIsFinal'
    BY <1>10 DEF AskerDies, EvShape, SuccessIsFinal, JobStatus, Ended, Null
  <2>4. OutcomeTrue'
    BY <1>10 DEF AskerDies, EvShape, OneRun, SuccessIsFinal, OutcomeTrue, Null
  <2> QED
    BY <2>1, <2>2, <2>3, <2>4
<1>11. ASSUME NEW d \in Drainer, ListRuns(d) PROVE EvInv'
  <2>1. EvShape'
    BY <1>11 DEF ListRuns, EvShape, JobStatus, Ended, Null, RunRow, RunStatus, DrainResult
  <2>2. OneRun'
    BY <1>11 DEF ListRuns, EvShape, OneRun, JobStatus, Ended
  <2>3. SuccessIsFinal'
    BY <1>11 DEF ListRuns, EvShape, SuccessIsFinal, JobStatus, Ended, Null
  <2>4. OutcomeTrue'
    BY <1>11 DEF ListRuns, EvShape, OneRun, SuccessIsFinal, OutcomeTrue, Null
  <2> QED
    BY <2>1, <2>2, <2>3, <2>4
<1>12. ASSUME NEW d \in Drainer, ReadEvalJob(d) PROVE EvInv'
  <2>1. EvShape'
    BY <1>12 DEF ReadEvalJob, _result_input, EvShape, JobStatus, Ended, Null, RunRow, RunStatus, DrainResult
  <2>2. OneRun'
    BY <1>12 DEF ReadEvalJob, _result_input, EvShape, OneRun, JobStatus, Ended
  <2>3. SuccessIsFinal'
    BY <1>12 DEF ReadEvalJob, _result_input, EvShape, SuccessIsFinal, JobStatus, Ended, Null
  <2>4. OutcomeTrue'
    BY <1>12 DEF ReadEvalJob, _result_input, EvShape, OneRun, SuccessIsFinal, OutcomeTrue, Null
  <2> QED
    BY <2>1, <2>2, <2>3, <2>4
<1>13. ASSUME NEW d \in Drainer, CheckRun(d) PROVE EvInv'
  <2>1. EvShape'
    BY <1>13 DEF CheckRun, EvShape, JobStatus, Ended, Null, RunRow, RunStatus, DrainResult
  <2>2. OneRun'
    BY <1>13 DEF CheckRun, EvShape, OneRun, JobStatus, Ended
  <2>3. SuccessIsFinal'
    BY <1>13 DEF CheckRun, EvShape, SuccessIsFinal, JobStatus, Ended, Null
  <2>4. OutcomeTrue'
    BY <1>13 DEF CheckRun, EvShape, OneRun, SuccessIsFinal, OutcomeTrue, Null
  <2> QED
    BY <2>1, <2>2, <2>3, <2>4
<1>14. ASSUME NEW d \in Drainer, record_result(d) PROVE EvInv'
  <2> DEFINE res == drain[d].result
  <2>a. evrun \in RunRow /\ res \in DrainResult
    BY <1>14 DEF record_result, EvShape, OneRun
  <2>b. FlushedRun(res) \in RunRow /\ FlushedRun(res).id = evrun.id
    BY <2>a DEF FlushedRun, RunRow, RunStatus, DrainResult, EvShape
  <2>c. evrun' \in RunRow /\ evrun'.id = evrun.id
    BY <1>14, <2>a, <2>b DEF record_result
  <2>1. EvShape'
    BY <1>14, <2>c DEF record_result, EvShape
  <2>2. OneRun'
    BY <1>14, <2>c DEF record_result, EvShape, OneRun
  <2>3. SuccessIsFinal'
    BY <1>14 DEF record_result, FlushedRun, EvalChecks, EvShape, SuccessIsFinal, JobStatus, Ended, Null
  <2>4. OutcomeTrue'
    BY <1>14 DEF record_result, FlushedRun, EvalChecks, EvShape, OneRun, SuccessIsFinal, OutcomeTrue, Null
  <2> QED
    BY <2>1, <2>2, <2>3, <2>4
<1>15. ASSUME NEW d \in Drainer, DrainerDies(d) PROVE EvInv'
  <2>1. EvShape'
    BY <1>15 DEF DrainerDies, EvShape, JobStatus, Ended, Null, RunRow, RunStatus, DrainResult
  <2>2. OneRun'
    BY <1>15 DEF DrainerDies, EvShape, OneRun, JobStatus, Ended
  <2>3. SuccessIsFinal'
    BY <1>15 DEF DrainerDies, EvShape, SuccessIsFinal, JobStatus, Ended, Null
  <2>4. OutcomeTrue'
    BY <1>15 DEF DrainerDies, EvShape, OneRun, SuccessIsFinal, OutcomeTrue, Null
  <2> QED
    BY <2>1, <2>2, <2>3, <2>4
<1> QED
    BY <1>1, <1>2, <1>3, <1>4, <1>5, <1>6, <1>7, <1>8, <1>9, <1>10, <1>11, <1>12, <1>13, <1>14, <1>15 DEF EvNext

\* Every reachable state has the invariant.
LEMMA EvInvariant == EvSpec => []EvInv
<1> QED
    BY EvStart, EvStep, PTL DEF EvSpec

\* However many requests make the run and its job and however many drains fold
\* the outcome at once, the job names the stored run, and a run that succeeded
\* holds the report of the job that succeeded (request_eval, _result_input,
\* record_result).
THEOREM EvaluationsSafeHolds == EvSpec => []EvaluationsSafe
<1>1. EvInv => EvaluationsSafe
    BY DEF EvInv, EvaluationsSafe, OneRun, PayloadNamesRun
<1> QED
    BY <1>1, EvInvariant, PTL

-----------------------------------------------------------------------------
(* Finite sets of numbers. *)

HasMax(S) == \E m \in S : \A x \in S : x <= m

\* A finite set of naturals that is not empty has a greatest element: a
\* smallest set without one would have one less an element.
LEMMA FiniteMax ==
    ASSUME NEW S, IsFiniteSet(S), S \subseteq Nat, S # {}
    PROVE  HasMax(S)
<1> DEFINE bad == {n \in Nat : \E T \in SUBSET S : T # {} /\ Cardinality(T) = n /\ ~HasMax(T)}
<1>1. SUFFICES ASSUME ~HasMax(S) PROVE FALSE
    OBVIOUS
<1>2. bad \subseteq Nat /\ bad # {}
    BY <1>1, FS_CardinalityType
<1>3. \E n \in bad : \A k \in bad : ~(<<k, n>> \in OpToRel(<, Nat))
  <2> HIDE DEF bad
  <2> QED
    BY <1>2, WFMin, NatLessThanWellFounded, Zenon
<1>4. PICK n \in bad : \A k \in bad : ~(k < n)
    BY <1>2, <1>3 DEF OpToRel
<1>5. PICK T \in SUBSET S : T # {} /\ Cardinality(T) = n /\ ~HasMax(T)
    BY <1>4
<1>6. PICK x \in T : TRUE
    BY <1>5
<1> DEFINE R == T \ {x}
<1>7. IsFiniteSet(T)
    BY FS_Subset
<1>8. IsFiniteSet(R) /\ Cardinality(R) = n - 1 /\ Cardinality(R) \in Nat
    BY <1>5, <1>6, <1>7, FS_RemoveElement, FS_CardinalityType
<1>9. HasMax(R) \/ R = {}
    BY <1>4, <1>8
<1>10. CASE R = {}
    BY <1>5, <1>6, <1>10 DEF HasMax
<1>11. ASSUME NEW m \in R, \A y \in R : y <= m PROVE FALSE
  <2>1. m \in Nat /\ x \in Nat /\ m \in T
    BY <1>6
  <2>2. CASE x <= m
    BY <1>5, <1>11, <2>1, <2>2 DEF HasMax
  <2>3. CASE m < x
    BY <1>5, <1>6, <1>11, <2>1, <2>3 DEF HasMax
  <2> QED
    BY <2>1, <2>2, <2>3
<1> QED
    BY <1>9, <1>10, <1>11 DEF HasMax

-----------------------------------------------------------------------------
(* The artifact store: the inductive invariant. *)

MakeState == [st : {"put", "sync", "link", "clean", "row"}, blob : Blob, in : SUBSET FileKind]

AfShape ==
    /\ DOMAIN files = Blob /\ \A b \in Blob : files[b] \in {NoFile, b}
    /\ DOMAIN temps = Maker
    /\ make \in [Maker -> {Resting} \cup MakeState]
    /\ builds \subseteq Blob

\* What is linked was written whole, and the row comes after the link.
AfOrder ==
    \A p \in Maker :
        /\ make[p].st = "link" => temps[p] = make[p].blob
        /\ make[p].st \in {"clean", "row"} => files[make[p].blob] = make[p].blob

AfInv == AfShape /\ AfOrder /\ RowHasBlob

LEMMA AfStart == AfInit => AfInv
BY DEF AfInit, AfInv, AfShape, AfOrder, RowHasBlob, Resting

\* The download picks one of the rows.
LEMMA NewestIsRow ==
    ASSUME AfInv, builds # {}
    PROVE  Newest \in builds
<1>1. IsFiniteSet(builds) /\ builds \subseteq Nat
    BY BlobAssumption, FS_Subset DEF AfInv, AfShape
<1>2. HasMax(builds)
    BY <1>1, FiniteMax
<1> QED
    BY <1>2 DEF Newest, HasMax

LEMMA AfStep == AfInv /\ [AfNext]_afVars => AfInv'
<1> SUFFICES ASSUME AfInv, [AfNext]_afVars PROVE AfInv'
    OBVIOUS
<1> USE DEF AfInv, _storage_key
<1>1. CASE UNCHANGED afVars
    BY <1>1 DEF afVars, AfShape, AfOrder, RowHasBlob
<1>2. CASE Download
  <2>1. AfShape' /\ AfOrder'
    BY <1>2 DEF Download, AfShape, AfOrder
  <2>2. RowHasBlob'
    BY <1>2, NewestIsRow DEF Download, RowHasBlob
  <2> QED
    BY <2>1, <2>2
<1>3. ASSUME NEW p \in Maker, Materialize(p) PROVE AfInv'
  <2>1. AfShape'
    BY <1>3, BlobAssumption DEF Materialize, FirstWrite, _select_public_files, FileKind, AfShape, AfOrder, MakeState, Resting, NoFile
  <2>2. AfOrder'
    BY <1>3, BlobAssumption DEF Materialize, FirstWrite, _select_public_files, FileKind, AfShape, AfOrder, MakeState, Resting, NoFile
  <2>3. RowHasBlob'
    BY <1>3, BlobAssumption DEF Materialize, AfShape, AfOrder, RowHasBlob, MakeState, Resting, NoFile
  <2> QED
    BY <2>1, <2>2, <2>3
<1>4. ASSUME NEW p \in Maker, WriteTemp(p) PROVE AfInv'
  <2>1. AfShape'
    BY <1>4, BlobAssumption DEF WriteTemp, AfShape, AfOrder, MakeState, Resting, NoFile
  <2>2. AfOrder'
    BY <1>4, BlobAssumption DEF WriteTemp, AfShape, AfOrder, MakeState, Resting, NoFile
  <2>3. RowHasBlob'
    BY <1>4, BlobAssumption DEF WriteTemp, AfShape, AfOrder, RowHasBlob, MakeState, Resting, NoFile
  <2> QED
    BY <2>1, <2>2, <2>3
<1>5. ASSUME NEW p \in Maker, SyncTemp(p) PROVE AfInv'
  <2>1. AfShape'
    BY <1>5, BlobAssumption DEF SyncTemp, AfShape, AfOrder, MakeState, Resting, NoFile
  <2>2. AfOrder'
    BY <1>5, BlobAssumption DEF SyncTemp, AfShape, AfOrder, MakeState, Resting, NoFile
  <2>3. RowHasBlob'
    BY <1>5, BlobAssumption DEF SyncTemp, AfShape, AfOrder, RowHasBlob, MakeState, Resting, NoFile
  <2> QED
    BY <2>1, <2>2, <2>3
<1>6. ASSUME NEW p \in Maker, Link(p) PROVE AfInv'
  <2>1. AfShape'
    BY <1>6, BlobAssumption DEF Link, AfShape, AfOrder, MakeState, Resting, NoFile
  <2>2. AfOrder'
    BY <1>6, BlobAssumption DEF Link, AfShape, AfOrder, MakeState, Resting, NoFile
  <2>3. RowHasBlob'
    BY <1>6, BlobAssumption DEF Link, AfShape, AfOrder, RowHasBlob, MakeState, Resting, NoFile
  <2> QED
    BY <2>1, <2>2, <2>3
<1>7. ASSUME NEW p \in Maker, Unlink(p) PROVE AfInv'
  <2>1. AfShape'
    BY <1>7, BlobAssumption DEF Unlink, AfShape, AfOrder, MakeState, Resting, NoFile
  <2>2. AfOrder'
    BY <1>7, BlobAssumption DEF Unlink, AfShape, AfOrder, MakeState, Resting, NoFile
  <2>3. RowHasBlob'
    BY <1>7, BlobAssumption DEF Unlink, AfShape, AfOrder, RowHasBlob, MakeState, Resting, NoFile
  <2> QED
    BY <2>1, <2>2, <2>3
<1>8. ASSUME NEW p \in Maker, AddBuild(p) PROVE AfInv'
  <2>0. make[p].blob \in Blob
    BY <1>8 DEF AddBuild, AfShape, MakeState, Resting
  <2>1. AfShape'
    BY <1>8, <2>0 DEF AddBuild, AfShape
  <2>2. AfOrder'
    BY <1>8, BlobAssumption DEF AddBuild, AfShape, AfOrder, MakeState, Resting, NoFile
  <2>3. RowHasBlob'
    BY <1>8, BlobAssumption DEF AddBuild, AfShape, AfOrder, RowHasBlob, MakeState, Resting, NoFile
  <2> QED
    BY <2>1, <2>2, <2>3
<1>9. ASSUME NEW p \in Maker, CrashMaker(p) PROVE AfInv'
  <2>1. AfShape'
    BY <1>9, BlobAssumption DEF CrashMaker, AfShape, AfOrder, MakeState, Resting, NoFile
  <2>2. AfOrder'
    BY <1>9, BlobAssumption DEF CrashMaker, AfShape, AfOrder, MakeState, Resting, NoFile
  <2>3. RowHasBlob'
    BY <1>9, BlobAssumption DEF CrashMaker, AfShape, AfOrder, RowHasBlob, MakeState, Resting, NoFile
  <2> QED
    BY <2>1, <2>2, <2>3
<1> QED
    BY <1>1, <1>2, <1>3, <1>4, <1>5, <1>6, <1>7, <1>8, <1>9 DEF AfNext

\* Every reachable state has the invariant.
LEMMA AfInvariant == AfSpec => []AfInv
<1> QED
    BY AfStart, AfStep, PTL DEF AfSpec

\* Any number of processes may materialize a version and die between any two
\* steps: a build row has its blob, whole and under its hash, and a download
\* returns the content of a row (put, materialize, artifact_download).
THEOREM RowHasBlobHolds == AfSpec => []RowHasBlob
<1>1. AfInv => RowHasBlob
    BY DEF AfInv
<1> QED
    BY <1>1, AfInvariant, PTL

-----------------------------------------------------------------------------
(* The catalog: the inductive invariant. *)

VersionRow == [id : Nat, no : Nat, state : {"draft", "published"}, by : Editor \cup {NoEditor}]
IsPublished(n) == \E v \in versions : v.no = n /\ v.state = "published"

\* The numbers are 1..n, each taken once.
VersionsInv ==
    /\ IsFiniteSet(versions) /\ versions \subseteq VersionRow
    /\ \A v, w \in versions : v.no = w.no => v = w
    /\ VersionsDense

\* A number an editor is about to use was one above the numbers of its read,
\* and a version that an editor is about to attach was published by then.
EditsInv ==
    /\ DOMAIN edit = Editor
    /\ \A e \in Editor :
         /\ edit[e].st = "draft" => edit[e].no \in 1..(Cardinality(versions) + 1)
         /\ edit[e].st = "attach" => IsPublished(edit[e].no)

CtInv == VersionsInv /\ EditsInv /\ WindowSane /\ AttachedPublished

LEMMA CtStart == CtInit => CtInv
<1> SUFFICES ASSUME CtInit PROVE CtInv
    OBVIOUS
<1>1. Numbers = {} /\ IsFiniteSet(versions) /\ Cardinality(versions) = 0
    BY FS_EmptySet DEF CtInit, Numbers
<1>2. VersionsInv
    BY <1>1 DEF CtInit, VersionsInv, VersionsDense
<1>3. EditsInv /\ AttachedPublished
    BY DEF CtInit, EditsInv, AttachedPublished, Idling
<1>4. WindowSane
    BY TimeAssumption DEF CtInit, WindowSane, Within
<1> QED
    BY <1>2, <1>3, <1>4 DEF CtInv

\* The next number is one above the number of versions.
LEMMA HighestIsCount ==
    ASSUME VersionsInv
    PROVE  Highest = Cardinality(versions) /\ Cardinality(versions) \in Nat
<1>1. Cardinality(versions) \in Nat
    BY FS_CardinalityType DEF VersionsInv
<1>2. Numbers = 1..Cardinality(versions)
    BY DEF VersionsInv, VersionsDense
<1> QED
    BY <1>1, <1>2 DEF Highest

\* What is left of the invariant when the versions stay as they are.
LEMMA VersionsKept ==
    ASSUME CtInv, versions' = versions PROVE VersionsInv' /\ \A n : IsPublished(n) => IsPublished(n)'
BY DEF CtInv, VersionsInv, VersionsDense, Numbers, IsPublished

LEMMA VersionAdded ==
    ASSUME CtInv, NEW e \in Editor, AddVersion(e)
    PROVE  VersionsInv' /\ EditsInv' /\ AttachedPublished'
<1> DEFINE n == Cardinality(versions)
           row == [id |-> n + 1, no |-> edit[e].no, state |-> "draft", by |-> NoEditor]
<1> USE DEF CtInv
<1>1. n \in Nat
    BY HighestIsCount
<1>2. edit[e].no \in 1..(n + 1)
    BY DEF AddVersion, EditsInv
<1>3. CASE versions' = versions
    BY <1>3, VersionsKept DEF AddVersion, EditsInv, AttachedPublished, IsPublished, Idling
<1>4. CASE NumberFree(edit[e].no) /\ versions' = versions \cup {row}
  <2>1. row.no = n + 1 /\ row.no \notin Numbers /\ row \in VersionRow
    BY <1>1, <1>2, <1>4 DEF NumberFree, VersionsInv, VersionsDense, VersionRow
  <2>2. row \notin versions
    BY <2>1 DEF Numbers
  <2>3. IsFiniteSet(versions') /\ Cardinality(versions') = n + 1
    BY <1>4, <2>2, FS_AddElement DEF VersionsInv
  <2>4. Numbers' = Numbers \cup {n + 1}
    BY <1>4, <2>1 DEF Numbers
  <2>5. VersionsInv'
    <3>1. \A v, w \in versions' : v.no = w.no => v = w
      BY <1>4, <2>1 DEF VersionsInv, Numbers
    <3>2. Numbers' = 1..(n + 1)
      BY <1>1, <2>4 DEF VersionsInv, VersionsDense
    <3> QED
      BY <1>4, <2>1, <2>3, <3>1, <3>2 DEF VersionsInv, VersionsDense
  <2>6. EditsInv'
    BY <1>1, <1>4, <2>3 DEF AddVersion, EditsInv, IsPublished, Idling
  <2>7. AttachedPublished'
    BY <1>4 DEF AddVersion, AttachedPublished
  <2> QED
    BY <2>5, <2>6, <2>7
<1> QED
    BY <1>3, <1>4 DEF AddVersion

LEMMA VersionPublished ==
    ASSUME CtInv, NEW e \in Editor, PublishVersion(e)
    PROVE  VersionsInv' /\ EditsInv' /\ AttachedPublished' /\ \A v \in versions : v.state = "published" => v \in versions'
<1> DEFINE read == edit[e].version
           Set(v) == IF v.id = read.id /\ MayPublish(v, read) THEN [v EXCEPT !.state = "published", !.by = e] ELSE v
           f == [v \in versions |-> Set(v)]
<1> USE DEF CtInv
<1>1. versions' = {Set(v) : v \in versions}
    BY DEF PublishVersion
<1>2. \A v \in versions : /\ Set(v) \in VersionRow /\ Set(v).no = v.no
                          /\ v.state = "published" => Set(v) = v
    BY DEF VersionsInv, VersionRow, MayPublish
<1> HIDE DEF Set
<1>3. f \in Bijection(versions, versions')
    BY <1>1, <1>2 DEF VersionsInv, Bijection, Injection, Surjection, IsInjective
<1>4. IsFiniteSet(versions') /\ Cardinality(versions') = Cardinality(versions)
    BY <1>3, FS_Bijection DEF ExistsBijection, VersionsInv
<1>5. Numbers' = Numbers
    BY <1>1, <1>2 DEF Numbers
<1>6. \A v \in versions : v.state = "published" => v \in versions'
    BY <1>1, <1>2
<1>7. \A m : IsPublished(m) => IsPublished(m)'
    BY <1>6 DEF IsPublished
<1>8. VersionsInv'
    BY <1>1, <1>2, <1>4, <1>5 DEF VersionsInv, VersionsDense
<1>9. EditsInv'
    BY <1>4, <1>7 DEF PublishVersion, EditsInv, Idling
<1>10. AttachedPublished'
    BY <1>6 DEF PublishVersion, AttachedPublished
<1> QED
    BY <1>6, <1>8, <1>9, <1>10

LEMMA CtStep == CtInv /\ [CtNext]_ctVars => CtInv'
<1> SUFFICES ASSUME CtInv, [CtNext]_ctVars PROVE CtInv'
    OBVIOUS
<1> USE DEF CtInv
<1>1. CASE UNCHANGED ctVars
    BY <1>1, VersionsKept DEF ctVars, EditsInv, WindowSane, Within, AttachedPublished, IsPublished
<1>2. ASSUME NEW e \in Editor, OpenCompetition(e) PROVE CtInv'
  <2>1. VersionsInv' /\ \A m : IsPublished(m) => IsPublished(m)'
    BY <1>2, VersionsKept DEF OpenCompetition
  <2>2. EditsInv'
    BY <1>2, <2>1 DEF OpenCompetition, EditsInv, Idling
  <2>3. WindowSane'
    BY <1>2 DEF OpenCompetition, WindowSane, Within
  <2>4. AttachedPublished'
    BY <1>2 DEF OpenCompetition, AttachedPublished, EditsInv, IsPublished
  <2> QED
    BY <2>1, <2>2, <2>3, <2>4
<1>3. ASSUME NEW e \in Editor, LockCompetition(e) PROVE CtInv'
  <2>1. VersionsInv' /\ \A m : IsPublished(m) => IsPublished(m)'
    BY <1>3, VersionsKept DEF LockCompetition
  <2>2. EditsInv'
    BY <1>3, <2>1 DEF LockCompetition, EditsInv, Idling
  <2>3. WindowSane'
    BY <1>3 DEF LockCompetition, WindowSane, Within
  <2>4. AttachedPublished'
    BY <1>3 DEF LockCompetition, AttachedPublished, EditsInv, IsPublished
  <2> QED
    BY <2>1, <2>2, <2>3, <2>4
<1>4. ASSUME NEW e \in Editor, LoadCompetition(e) PROVE CtInv'
  <2>1. VersionsInv' /\ \A m : IsPublished(m) => IsPublished(m)'
    BY <1>4, VersionsKept DEF LoadCompetition
  <2>2. EditsInv'
    BY <1>4, <2>1 DEF LoadCompetition, EditsInv, Idling
  <2>3. WindowSane'
    BY <1>4 DEF LoadCompetition, WindowSane, Within
  <2>4. AttachedPublished'
    BY <1>4 DEF LoadCompetition, AttachedPublished, EditsInv, IsPublished
  <2> QED
    BY <2>1, <2>2, <2>3, <2>4
<1>5. ASSUME NEW e \in Editor, UpdateCompetition(e) PROVE CtInv'
  <2>1. VersionsInv' /\ \A m : IsPublished(m) => IsPublished(m)'
    BY <1>5, VersionsKept DEF UpdateCompetition
  <2>2. EditsInv'
    BY <1>5, <2>1 DEF UpdateCompetition, EditsInv, Idling
  <2>3. WindowSane'
    BY <1>5 DEF UpdateCompetition, WindowSane, CompetitionChecks, Within
  <2>4. AttachedPublished'
    BY <1>5 DEF UpdateCompetition, AttachedPublished, EditsInv, IsPublished
  <2> QED
    BY <2>1, <2>2, <2>3, <2>4
<1>6. ASSUME NEW e \in Editor, CreateDraft(e) PROVE CtInv'
  <2>1. VersionsInv' /\ \A m : IsPublished(m) => IsPublished(m)'
    BY <1>6, VersionsKept DEF CreateDraft
  <2>2. EditsInv'
    BY <1>6, <2>1, HighestIsCount DEF CreateDraft, EditsInv, Idling
  <2>3. WindowSane'
    BY <1>6 DEF CreateDraft, WindowSane, Within
  <2>4. AttachedPublished'
    BY <1>6 DEF CreateDraft, AttachedPublished, EditsInv, IsPublished
  <2> QED
    BY <2>1, <2>2, <2>3, <2>4
<1>7. ASSUME NEW e \in Editor, Publish(e) PROVE CtInv'
  <2>1. VersionsInv' /\ \A m : IsPublished(m) => IsPublished(m)'
    BY <1>7, VersionsKept DEF Publish
  <2>2. EditsInv'
    BY <1>7, <2>1 DEF Publish, EditsInv, Idling
  <2>3. WindowSane'
    BY <1>7 DEF Publish, WindowSane, Within
  <2>4. AttachedPublished'
    BY <1>7 DEF Publish, AttachedPublished, EditsInv, IsPublished
  <2> QED
    BY <2>1, <2>2, <2>3, <2>4
<1>8. ASSUME NEW e \in Editor, Attach(e) PROVE CtInv'
  <2>1. VersionsInv' /\ \A m : IsPublished(m) => IsPublished(m)'
    BY <1>8, VersionsKept DEF Attach
  <2>2. EditsInv'
    BY <1>8, <2>1 DEF Attach, EditsInv, Idling, IsPublished
  <2>3. WindowSane'
    BY <1>8 DEF Attach, WindowSane, Within
  <2>4. AttachedPublished'
    BY <1>8 DEF Attach, AttachedPublished, EditsInv, IsPublished
  <2> QED
    BY <2>1, <2>2, <2>3, <2>4
<1>9. ASSUME NEW e \in Editor, AttachPublication(e) PROVE CtInv'
  <2>1. VersionsInv' /\ \A m : IsPublished(m) => IsPublished(m)'
    BY <1>9, VersionsKept DEF AttachPublication
  <2>2. EditsInv'
    BY <1>9, <2>1 DEF AttachPublication, EditsInv, Idling
  <2>3. WindowSane'
    BY <1>9 DEF AttachPublication, WindowSane, Within
  <2>4. AttachedPublished'
    BY <1>9 DEF AttachPublication, AttachedPublished, EditsInv, IsPublished
  <2> QED
    BY <2>1, <2>2, <2>3, <2>4
<1>10. ASSUME NEW e \in Editor, Detach(e) PROVE CtInv'
  <2>1. VersionsInv' /\ \A m : IsPublished(m) => IsPublished(m)'
    BY <1>10, VersionsKept DEF Detach
  <2>2. EditsInv'
    BY <1>10, <2>1 DEF Detach, EditsInv, Idling
  <2>3. WindowSane'
    BY <1>10 DEF Detach, WindowSane, Within
  <2>4. AttachedPublished'
    BY <1>10 DEF Detach, AttachedPublished, EditsInv, IsPublished
  <2> QED
    BY <2>1, <2>2, <2>3, <2>4
<1>11. ASSUME NEW e \in Editor, AddVersion(e) PROVE CtInv'
    BY <1>11, VersionAdded DEF AddVersion, WindowSane, Within
<1>12. ASSUME NEW e \in Editor, PublishVersion(e) PROVE CtInv'
    BY <1>12, VersionPublished DEF PublishVersion, WindowSane, Within
<1> QED
    BY <1>1, <1>2, <1>3, <1>4, <1>5, <1>6, <1>7, <1>8, <1>9, <1>10, <1>11, <1>12 DEF CtNext, WindowStep, VersionStep

\* Every reachable state has the invariant.
LEMMA CtInvariant == CtSpec => []CtInv
<1> QED
    BY CtStart, CtStep, PTL DEF CtSpec

\* Under any number of editors: the stored window is sane, the versions are
\* numbered 1..n although two drafts may read the same highest number, and no
\* competition publishes a draft (competition_service, version_service,
\* publication_service).
THEOREM CatalogSafeHolds == CtSpec => []CatalogSafe
<1>1. CtInv => CatalogSafe
    BY DEF CtInv, CatalogSafe, VersionsInv
<1> QED
    BY <1>1, CtInvariant, PTL

\* No step changes or removes a published version, whoever read it as a draft
\* before (publish).
THEOREM PublishedOnceHolds == CtSpec => PublishedOnce
<1>1. ASSUME CtInv, [CtNext]_ctVars
      PROVE  [\A v \in versions : v.state = "published" => v \in versions']_ctVars
  <2> USE <1>1
  <2>1. CASE versions' = versions
    BY <2>1
  <2>2. ASSUME NEW e \in Editor, AddVersion(e) PROVE \A v \in versions : v \in versions'
    BY <2>2 DEF AddVersion
  <2>3. ASSUME NEW e \in Editor, PublishVersion(e)
        PROVE  \A v \in versions : v.state = "published" => v \in versions'
    BY <2>3, VersionPublished
  <2> QED
    BY <2>1, <2>2, <2>3 DEF CtNext, WindowStep, VersionStep, ctVars, OpenCompetition, LockCompetition,
       LoadCompetition, UpdateCompetition, CreateDraft, Publish, Attach, AttachPublication, Detach
<1> QED
    BY <1>1, CtInvariant, PTL DEF CtSpec, PublishedOnce

-----------------------------------------------------------------------------
(* The CVE cache. *)

\* The first n of a set of ids are n at most.
LEMMA FirstBound ==
    ASSUME NEW ids, IsFiniteSet(ids), ids \subseteq Nat, NEW n \in Nat
    PROVE  First(ids, n) \subseteq ids /\ Cardinality(First(ids, n)) <= n
<1> DEFINE F == First(ids, n)
           below(i) == {j \in ids : j < i}
<1>1. F \subseteq ids /\ \A i \in F : Cardinality(below(i)) < n
    BY DEF First
<1>2. IsFiniteSet(F)
    BY <1>1, FS_Subset
<1>3. CASE F = {}
    BY <1>1, <1>3, FS_EmptySet
<1>4. CASE F # {}
  <2>1. PICK m \in F : \A i \in F : i <= m
    BY <1>1, <1>2, <1>4, FiniteMax DEF HasMax
  <2>2. F \ {m} \subseteq below(m)
    <3> SUFFICES ASSUME NEW i \in F, i # m PROVE i \in ids /\ i < m
      OBVIOUS
    <3> i \in Nat /\ m \in Nat /\ i \in ids
      BY <1>1, <2>1
    <3> QED
      BY <2>1
  <2>3. IsFiniteSet(below(m)) /\ Cardinality(below(m)) \in Nat
    BY FS_Subset, FS_CardinalityType
  <2>4. Cardinality(F \ {m}) <= Cardinality(below(m))
    BY <2>2, <2>3, FS_Subset
  <2>5. Cardinality(F \ {m}) = Cardinality(F) - 1 /\ Cardinality(F) \in Nat
    BY <1>2, <2>1, FS_RemoveElement, FS_CardinalityType
  <2>6. Cardinality(below(m)) < n
    BY <1>1, <2>1
  <2> QED
    BY <1>1, <2>3, <2>4, <2>5, <2>6
<1> QED
    BY <1>3, <1>4

\* An answer keeps what the query asks for, the keyword aside.
Fits(q, got) ==
    IF q.what = "get" THEN got \subseteq {q.id}
    ELSE Cardinality(got) <= q.limit /\ \A i \in got : InRange(i, q)

\* Two queries of one file ask for the same, the keyword aside.
LEMMA SameFileFits ==
    ASSUME NEW p \in CveQuery, NEW q \in CveQuery, _cache_path(p) = _cache_path(q), NEW got, Fits(p, got)
    PROVE  Fits(q, got)
<1>1. /\ p.what = q.what /\ p.id = q.id /\ p.category = q.category /\ p.min = q.min
      /\ p.after = q.after /\ p.limit = q.limit
  <2>1. \A r \in CveQuery : LET k == _cache_path(r) IN
            /\ k.what = r.what /\ k.id = r.id /\ k.category = r.category /\ k.min = r.min
            /\ k.after = r.after /\ k.limit = r.limit
    <3> SUFFICES ASSUME NEW r \in CveQuery
                 PROVE  LET k == _cache_path(r) IN
                        /\ k.what = r.what /\ k.id = r.id /\ k.category = r.category /\ k.min = r.min
                        /\ k.after = r.after /\ k.limit = r.limit
      OBVIOUS
    <3>1. r \in [what : {"get", "fetch"}, id : Nat, category : STRING, min : Nat,
                 after : Nat, word : DOMAIN Sanitized, limit : Nat]
      BY CveAssumption
    <3> QED
      BY <3>1 DEF _cache_path
  <2> QED
    BY <2>1
<1> QED
    BY <1>1 DEF Fits, InRange

\* Both sources answer what was asked.
LEMMA SourceFits ==
    ASSUME nvd \subseteq DOMAIN CveInfo, NEW q \in CveQuery, NEW source
    PROVE  Fits(q, FromSource(source, q)) /\ FromSource(source, q) \subseteq Nat
<1>1. \A S \in SUBSET DOMAIN CveInfo : IsFiniteSet(S) /\ S \subseteq Nat
    BY CveAssumption, FS_Subset
<1>2. q.limit \in Nat
    BY CveAssumption
<1>3. Fits(q, Snapshot(q)) /\ Snapshot(q) \subseteq Nat
  <2>1. CASE q.what = "get"
    BY <2>1, CveAssumption DEF Fits, Snapshot
  <2>2. CASE q.what # "get"
    <3> DEFINE ids == {i \in Bundled : _matches(i, q)}
    <3>1. IsFiniteSet(ids) /\ ids \subseteq Nat
      BY <1>1, CveAssumption
    <3>2. First(ids, q.limit) \subseteq ids /\ Cardinality(First(ids, q.limit)) <= q.limit
      BY <1>2, <3>1, FirstBound
    <3> QED
      BY <2>2, <3>1, <3>2 DEF Fits, Snapshot, _filter_records, _matches
  <2> QED
    BY <2>1, <2>2
<1>4. Fits(q, NvdCveSource(q)) /\ NvdCveSource(q) \subseteq Nat
  <2>1. CASE q.what = "get"
    BY <2>1, CveAssumption DEF Fits, NvdCveSource
  <2>2. CASE q.what # "get"
    <3> DEFINE ids == {i \in NvdAnswers(q) : InRange(i, q)}
    <3>1. NvdAnswers(q) \subseteq nvd
      BY DEF NvdAnswers, First
    <3>2. IsFiniteSet(ids) /\ ids \subseteq Nat
      BY <1>1, <3>1
    <3>3. First(ids, q.limit) \subseteq ids /\ Cardinality(First(ids, q.limit)) <= q.limit
      BY <1>2, <3>2, FirstBound
    <3> QED
      BY <2>2, <3>2, <3>3 DEF Fits, NvdCveSource
  <2> QED
    BY <2>1, <2>2
<1> QED
    BY <1>3, <1>4 DEF FromSource

(* The inductive invariant. *)

CveKeys == {_cache_path(q) : q \in CveQuery}
NoQuery == [what |-> None]
CvePc == {"idle", "read", "cached", "fetch", "truncate", "write", "fetched", "ended"}
CveState == [pc : CvePc, q : CveQuery \cup {NoQuery}, source : {None, "snapshot", "nvd"}, got : SUBSET Nat, at : Nat]
CacheEntry == {NoCacheFile, Torn} \cup [state : {"whole"}, expires_at : Nat, records : SUBSET Nat]

CveShape ==
    /\ nvd \subseteq DOMAIN CveInfo
    /\ clock \in Nat
    /\ cacheFile \in [CveKeys -> CacheEntry]
    /\ cve \in [CveCaller -> CveState]
    /\ \A c \in CveCaller : cve[c].pc \notin {"idle", "ended"} => cve[c].q \in CveQuery

\* What a command is about to write, or has got, is an answer to its query.
GotFits == \A c \in CveCaller : cve[c].pc \in {"truncate", "write", "fetched", "cached"} => Fits(cve[c].q, cve[c].got)

\* A file that decodes holds one answer, whole, for each query that reads it.
FilesWhole ==
    \A k \in CveKeys : cacheFile[k].state = "whole" =>
        /\ \A q \in CveQuery : _cache_path(q) = k => Fits(q, cacheFile[k].records)
        /\ \E w \in written : w.key = k /\ w.got = cacheFile[k].records /\ cacheFile[k].expires_at = w.at + Ttl

CveInv == CveShape /\ GotFits /\ FilesWhole /\ CachedWhole

LEMMA CveStart == CveInit => CveInv
<1> SUFFICES ASSUME CveInit PROVE CveInv
    OBVIOUS
<1>1. Idle \in CveState /\ Idle.pc = "idle"
    BY DEF Idle, CveState, CvePc, NoQuery, None
<1>2. CveShape
    BY <1>1, CveAssumption DEF CveInit, CveShape, CveKeys, CacheEntry
<1> QED
    BY <1>1, <1>2 DEF CveInit, CveInv, GotFits, FilesWhole, CachedWhole, CveKeys, NoCacheFile

LEMMA CveStep == CveInv /\ [CveNext]_cveVars => CveInv'
<1> SUFFICES ASSUME CveInv, [CveNext]_cveVars PROVE CveInv'
    OBVIOUS
<1> USE DEF CveInv
<1>1. CASE UNCHANGED cveVars
    BY <1>1 DEF cveVars, CveShape, GotFits, FilesWhole, CachedWhole
<1>2. CASE PublishCve \/ ClockTick
    BY <1>2 DEF PublishCve, ClockTick, CveShape, GotFits, FilesWhole, CachedWhole
<1>3. ASSUME NEW c \in CveCaller, NEW q \in CveQuery, NEW source \in {"snapshot", "nvd"}, Ask(c, q, source) PROVE CveInv'
  <2>1. CveShape'
    BY <1>3 DEF Ask, Idle, None, CveShape, CveState, CvePc
  <2>2. GotFits'
    BY <1>3 DEF Ask, Idle, None, CveShape, CveState, GotFits
  <2>3. FilesWhole'
    BY <1>3 DEF Ask, Idle, None, CveShape, FilesWhole
  <2>4. CachedWhole'
    BY <1>3 DEF Ask, Idle, None, CveShape, CveState, CachedWhole
  <2> QED
    BY <2>1, <2>2, <2>3, <2>4
<1>4. ASSUME NEW c \in CveCaller, _read_cache(c) PROVE CveInv'
  <2> DEFINE k == _cache_path(cve[c].q)
             f == cacheFile[k]
  <2>1. cve[c] \in CveState /\ cve[c].q \in CveQuery /\ k \in CveKeys /\ f \in CacheEntry
    BY <1>4 DEF _read_cache, CveShape, CveKeys
  <2>2. UNCHANGED <<nvd, cacheFile, clock, written>>
    BY <1>4 DEF _read_cache
  <2>3. FilesWhole'
    BY <2>2 DEF FilesWhole
  <2>4. CASE Readable(f)
    <3>1. f.state = "whole" /\ f.expires_at >= clock /\ f.expires_at \in Nat /\ f.records \in SUBSET Nat
      BY <2>1, <2>4 DEF Readable, CacheEntry, NoCacheFile, Torn
    <3>2. cve' = [cve EXCEPT ![c] = [cve[c] EXCEPT !.pc = "cached", !.at = clock, !.got = f.records]]
      BY <1>4, <2>4, <3>1 DEF _read_cache
    <3>3. CveShape'
      BY <2>1, <2>2, <3>1, <3>2 DEF CveShape, CveState, CvePc
    <3>4. GotFits'
      BY <2>1, <3>1, <3>2 DEF CveShape, CveState, GotFits, FilesWhole
    <3>5. CachedWhole'
      <4>1. PICK w \in written : w.key = k /\ w.got = f.records /\ f.expires_at = w.at + Ttl
        BY <2>1, <3>1 DEF FilesWhole
      <4>2. cve'[c].q = cve[c].q /\ cve'[c].got = f.records /\ cve'[c].at = clock
        BY <2>1, <3>2 DEF CveShape, CveState
      <4>3. clock <= w.at + Ttl
        BY <3>1, <4>1 DEF CveShape
      <4>4. \A d \in CveCaller \ {c} : cve'[d] = cve[d]
        BY <3>2 DEF CveShape
      <4> QED
        BY <2>2, <4>1, <4>2, <4>3, <4>4 DEF CachedWhole
    <3> QED
      BY <2>3, <3>3, <3>4, <3>5
  <2>5. CASE ~Readable(f)
    <3>1. cve' = [cve EXCEPT ![c] = [cve[c] EXCEPT !.pc = "fetch"]]
      BY <1>4, <2>5 DEF _read_cache
    <3>2. CveShape'
      BY <2>1, <2>2, <3>1 DEF CveShape, CveState, CvePc
    <3>3. GotFits' /\ CachedWhole'
      BY <2>1, <2>2, <3>1 DEF CveShape, CveState, GotFits, CachedWhole
    <3> QED
      BY <2>3, <3>2, <3>3
  <2> QED
    BY <2>4, <2>5
<1>5. ASSUME NEW c \in CveCaller, FetchRecords(c) PROVE CveInv'
  <2> DEFINE got == FromSource(cve[c].source, cve[c].q)
  <2>1. cve[c] \in CveState /\ cve[c].q \in CveQuery
    BY <1>5 DEF FetchRecords, CveShape
  <2>2. Fits(cve[c].q, got) /\ got \in SUBSET Nat
    BY <2>1, SourceFits DEF CveShape
  <2>3. cve' = [cve EXCEPT ![c] = [cve[c] EXCEPT !.pc = "truncate", !.got = got]]
    BY <1>5 DEF FetchRecords
  <2>a. UNCHANGED <<nvd, cacheFile, clock, written>>
    BY <1>5 DEF FetchRecords
  <2> HIDE DEF got
  <2>4. CveShape'
    BY <2>1, <2>2, <2>3, <2>a DEF CveShape, CveState, CvePc
  <2>5. GotFits' /\ CachedWhole'
    BY <2>1, <2>2, <2>3, <2>a DEF CveShape, CveState, GotFits, CachedWhole
  <2>6. FilesWhole'
    BY <1>5 DEF FetchRecords, FilesWhole
  <2> QED
    BY <2>4, <2>5, <2>6
<1>6. ASSUME NEW c \in CveCaller, FetchFails(c) PROVE CveInv'
  <2>1. CveShape'
    BY <1>6 DEF FetchFails, CveEnded, Idle, NoQuery, CveShape, CveState, CvePc
  <2>2. GotFits'
    BY <1>6 DEF FetchFails, CveEnded, Idle, NoQuery, CveShape, CveState, GotFits
  <2>3. FilesWhole'
    BY <1>6 DEF FetchFails, CveEnded, Idle, NoQuery, CveShape, FilesWhole
  <2>4. CachedWhole'
    BY <1>6 DEF FetchFails, CveEnded, Idle, NoQuery, CveShape, CveState, CachedWhole
  <2> QED
    BY <2>1, <2>2, <2>3, <2>4
<1>7. ASSUME NEW c \in CveCaller, Truncate(c) PROVE CveInv'
  <2>1. CveShape'
    <3>1. cve[c] \in CveState /\ cve[c].q \in CveQuery /\ Torn \in CacheEntry
      BY <1>7 DEF Truncate, CveShape, CacheEntry
    <3>2. cacheFile' \in [CveKeys -> CacheEntry]
      BY <1>7, <3>1 DEF Truncate, CveShape
    <3> QED
      BY <1>7, <3>1, <3>2 DEF Truncate, CveShape, CveState, CvePc
  <2>2. GotFits'
    BY <1>7 DEF Truncate, Torn, CveShape, CveState, GotFits
  <2>3. FilesWhole'
    BY <1>7 DEF Truncate, Torn, CveShape, FilesWhole
  <2>4. CachedWhole'
    BY <1>7 DEF Truncate, Torn, CveShape, CveState, CachedWhole
  <2> QED
    BY <2>1, <2>2, <2>3, <2>4
<1>8. ASSUME NEW c \in CveCaller, _write_cache(c) PROVE CveInv'
  <2> DEFINE k == _cache_path(cve[c].q)
             mine == File(cve[c].at + Ttl, cve[c].got)
             row == [key |-> k, got |-> cve[c].got, at |-> cve[c].at]
  <2>1. cve[c] \in CveState /\ cve[c].q \in CveQuery /\ k \in CveKeys
    BY <1>8 DEF _write_cache, CveShape, CveKeys
  <2>2. mine \in CacheEntry /\ Torn \in CacheEntry /\ Torn.state # "whole"
    BY <2>1, CveAssumption DEF File, CacheEntry, CveState, Torn
  <2>3. PICK g \in {mine, Torn} : cacheFile' = [cacheFile EXCEPT ![k] = g]
    BY <1>8 DEF _write_cache
  <2>4. /\ written' = written \cup {row}
        /\ cve' = [cve EXCEPT ![c] = [cve[c] EXCEPT !.pc = "fetched"]]
        /\ UNCHANGED <<nvd, clock>>
    BY <1>8 DEF _write_cache
  <2>5. Fits(cve[c].q, cve[c].got)
    BY <1>8 DEF _write_cache, GotFits
  <2>6. CveShape'
    <3> HIDE DEF mine
    <3>1. cacheFile' \in [CveKeys -> CacheEntry]
      BY <2>1, <2>2, <2>3 DEF CveShape
    <3> QED
      BY <2>1, <2>4, <3>1 DEF CveShape, CveState, CvePc
  <2>7. GotFits' /\ CachedWhole'
    BY <2>1, <2>4, <2>5 DEF CveShape, CveState, GotFits, CachedWhole
  <2>8. FilesWhole'
    <3> SUFFICES ASSUME NEW j \in CveKeys, cacheFile'[j].state = "whole"
                 PROVE  /\ \A q \in CveQuery : _cache_path(q) = j => Fits(q, cacheFile'[j].records)
                        /\ \E w \in written' : w.key = j /\ w.got = cacheFile'[j].records
                                               /\ cacheFile'[j].expires_at = w.at + Ttl
      BY DEF FilesWhole
    <3>1. CASE j = k
      <4>1. cacheFile'[j] = mine
        BY <2>1, <2>2, <2>3, <3>1 DEF CveShape
      <4>2. mine.records = cve[c].got /\ mine.expires_at = cve[c].at + Ttl
        BY DEF File
      <4>3. \A q \in CveQuery : _cache_path(q) = k => Fits(q, cve[c].got)
        BY <2>1, <2>5, SameFileFits
      <4>4. row \in written' /\ row.key = k /\ row.got = cve[c].got /\ row.at = cve[c].at
        BY <2>4
      <4> HIDE DEF mine, row
      <4> QED
        BY <3>1, <4>1, <4>2, <4>3, <4>4
    <3>2. CASE j # k
      <4>1. cacheFile'[j] = cacheFile[j]
        BY <2>3, <3>2 DEF CveShape
      <4> QED
        BY <2>4, <4>1 DEF FilesWhole
    <3> QED
      BY <3>1, <3>2
  <2> QED
    BY <2>6, <2>7, <2>8
<1>9. ASSUME NEW c \in CveCaller, Killed(c) PROVE CveInv'
  <2>1. CveShape'
    BY <1>9 DEF Killed, CveEnded, Idle, NoQuery, CveShape, CveState, CvePc
  <2>2. GotFits'
    BY <1>9 DEF Killed, CveEnded, Idle, NoQuery, CveShape, CveState, GotFits
  <2>3. FilesWhole'
    BY <1>9 DEF Killed, CveEnded, Idle, NoQuery, CveShape, FilesWhole
  <2>4. CachedWhole'
    BY <1>9 DEF Killed, CveEnded, Idle, NoQuery, CveShape, CveState, CachedWhole
  <2> QED
    BY <2>1, <2>2, <2>3, <2>4
<1> QED
    BY <1>1, <1>2, <1>3, <1>4, <1>5, <1>6, <1>7, <1>8, <1>9 DEF CveNext

\* Every reachable state has the invariant.
LEMMA CveInvariant == CveSpec => []CveInv
<1> QED
    BY CveStart, CveStep, PTL DEF CveSpec

\* Any number of commands may share the cache directory, overtake each other
\* and die while they write: an answer keeps the category, score, date and
\* limit asked for, and a cached one is whole and within its time
\* (_read_cache, _write_cache, _cache_path).
THEOREM CveSafeHolds == CveSpec => []CveSafe
<1>1. CveInv => CveSafe
    BY DEF CveInv, CveSafe, GotFits, Fits, AnswerFits
<1> QED
    BY <1>1, CveInvariant, PTL

-----------------------------------------------------------------------------
(* The total of a scoreboard, a fold over a set of events: by induction on    *)
(* the number of events, it is the sum, in whatever order they are taken.    *)

\* Induction, stated for a set of numbers.
LEMMA LeastNatural == ASSUME NEW T, T \subseteq Nat, T # {} PROVE \E x \in T : \A y \in T : x <= y
<1> DEFINE R == OpToRel(<,Nat)
<1>1. IsWellFoundedOn(R, Nat) BY NatLessThanWellFounded
<1>2. \A x, y \in Nat : <<y,x>> \in R <=> y < x BY DEF OpToRel
<1> HIDE DEF R
<1>3. PICK x \in T : \A y \in T : ~ (<<y, x>> \in R) BY <1>1, WFMin
<1>4. \A y \in T : y \in Nat /\ x \in Nat /\ ~(y < x) BY <1>2, <1>3
<1> QED BY <1>4

LEMMA NaturalInduction == ASSUME NEW S, 0 \in S, \A n \in Nat : n \in S => n + 1 \in S PROVE Nat \subseteq S
<1> DEFINE T == Nat \ S
<1>1. SUFFICES ASSUME T # {} PROVE FALSE OBVIOUS
<1>2. PICK x \in T : \A y \in T : x <= y BY <1>1, LeastNatural
<1>3. x \in Nat /\ x # 0 BY <1>2
<1>4. x - 1 \in Nat /\ ~(x <= x - 1) BY <1>3
<1>5. x - 1 \in S BY <1>2, <1>4
<1>6. x \in S BY <1>4, <1>5, <1>3
<1> QED BY <1>6, <1>2

\* The points of a set of events as the recursive function that TotalPoints is.
Picked(S) == CHOOSE e \in S : TRUE
PointsFrom(f, s) == IF s = {} THEN 0 ELSE Picked(s).points + f[s \ {Picked(s)}]
IsTotal(f, E) == f = [s \in SUBSET E |-> PointsFrom(f, s)]
TotalOf(E) == CHOOSE f : IsTotal(f, E)

LEMMA TotalIs == ASSUME NEW S PROVE TotalPoints(S) = TotalOf(S)[S]
BY DEF TotalPoints, MapThenFoldSet, TotalOf, IsTotal, PointsFrom, Picked

LEMMA PickedIn == ASSUME NEW S, S # {} PROVE Picked(S) \in S
BY DEF Picked

LEMMA Smaller == ASSUME NEW S, IsFiniteSet(S), NEW x \in S
    PROVE IsFiniteSet(S \ {x}) /\ Cardinality(S) \in Nat /\ Cardinality(S \ {x}) \in Nat /\ Cardinality(S) = Cardinality(S \ {x}) + 1
<1>1. IsFiniteSet(S \ {x}) /\ Cardinality(S \ {x}) = Cardinality(S) - 1 BY FS_RemoveElement
<1>2. Cardinality(S) \in Nat /\ Cardinality(S \ {x}) \in Nat BY <1>1, FS_CardinalityType
<1> QED BY <1>1, <1>2

LEMMA TotalExists == ASSUME NEW E, IsFiniteSet(E) PROVE IsTotal(TotalOf(E), E)
<1> DEFINE D(n) == {s \in SUBSET E : Cardinality(s) <= n}
           N == {n \in Nat : \E g : g = [s \in D(n) |-> PointsFrom(g, s)]}
<1>1. \A s \in SUBSET E : IsFiniteSet(s) /\ Cardinality(s) \in Nat /\ Cardinality(s) <= Cardinality(E)
  BY FS_Subset, FS_CardinalityType
<1>2. 0 \in N
  <2> DEFINE g == [s \in D(0) |-> 0]
  <2>1. \A s \in D(0) : s = {}
    <3> SUFFICES ASSUME NEW s \in D(0) PROVE s = {} OBVIOUS
    <3>1. IsFiniteSet(s) /\ Cardinality(s) = 0 BY <1>1
    <3> QED BY <3>1, FS_EmptySet
  <2>2. g = [s \in D(0) |-> PointsFrom(g, s)] BY <2>1 DEF PointsFrom
  <2> QED BY <2>2
<1>3. ASSUME NEW n \in Nat, n \in N PROVE n + 1 \in N
  <2>1. PICK g : g = [s \in D(n) |-> PointsFrom(g, s)] BY <1>3
  <2> DEFINE h == [s \in D(n + 1) |-> PointsFrom(g, s)]
  <2>2. ASSUME NEW s \in D(n + 1) PROVE h[s] = PointsFrom(h, s)
    <3>1. CASE s = {} BY <3>1 DEF PointsFrom
    <3>2. CASE s # {}
      <4>1. PICK p : p = Picked(s) OBVIOUS
      <4>2. p \in s BY <3>2, <4>1, PickedIn
      <4>3. Cardinality(s) = Cardinality(s \ {p}) + 1 /\ Cardinality(s \ {p}) \in Nat BY <1>1, <4>2, Smaller
      <4>4. s \ {p} \in D(n) /\ s \ {p} \in D(n + 1) BY <1>3, <4>3
      <4>5. h[s \ {p}] = g[s \ {p}] BY <2>1, <4>4
      <4>6. h[s] = PointsFrom(g, s) OBVIOUS
      <4> HIDE DEF h
      <4> QED BY <3>2, <4>1, <4>5, <4>6 DEF PointsFrom
    <3> QED BY <3>1, <3>2
  <2>3. h = [s \in D(n + 1) |-> PointsFrom(h, s)] BY <2>2
  <2>4. n + 1 \in Nat BY <1>3
  <2> HIDE DEF h
  <2>5. \E k : k = [s \in D(n + 1) |-> PointsFrom(k, s)] BY <2>3
  <2> QED BY <2>4, <2>5
<1>4. Cardinality(E) \in N /\ D(Cardinality(E)) = SUBSET E
  <2>1. Nat \subseteq N
    <3> HIDE DEF N
    <3> QED BY <1>2, <1>3, NaturalInduction
  <2> QED BY <1>1, <2>1, FS_CardinalityType
<1>5. \E g : IsTotal(g, E) BY <1>4 DEF IsTotal
<1> QED BY <1>5 DEF TotalOf

LEMMA TotalsAgree == ASSUME NEW B, IsFiniteSet(B), NEW A, A \subseteq B, NEW f, IsTotal(f, A), NEW g, IsTotal(g, B)
    PROVE \A s \in SUBSET A : f[s] = g[s]
<1> DEFINE N == {n \in Nat : \A s \in SUBSET A : Cardinality(s) = n => f[s] = g[s]}
<1>1. \A s \in SUBSET A : IsFiniteSet(s) /\ Cardinality(s) \in Nat /\ s \in SUBSET B
  BY FS_Subset, FS_CardinalityType
<1>2. \A s \in SUBSET A : f[s] = PointsFrom(f, s) /\ g[s] = PointsFrom(g, s) BY <1>1 DEF IsTotal
<1>3. 0 \in N
  <2>1. ASSUME NEW s \in SUBSET A, Cardinality(s) = 0 PROVE f[s] = g[s]
    <3>1. s = {} BY <1>1, <2>1, FS_EmptySet
    <3> QED BY <1>2, <3>1 DEF PointsFrom
  <2> QED BY <2>1
<1>4. ASSUME NEW n \in Nat, n \in N PROVE n + 1 \in N
  <2>1. ASSUME NEW s \in SUBSET A, Cardinality(s) = n + 1 PROVE f[s] = g[s]
    <3>1. s # {} BY <1>4, <2>1, FS_EmptySet
    <3>2. PICK p : p = Picked(s) OBVIOUS
    <3>3. p \in s BY <3>1, <3>2, PickedIn
    <3>4. Cardinality(s) = Cardinality(s \ {p}) + 1 /\ Cardinality(s \ {p}) \in Nat BY <1>1, <3>3, Smaller
    <3>5. Cardinality(s \ {p}) = n /\ s \ {p} \in SUBSET A BY <2>1, <3>4
    <3>6. f[s \ {p}] = g[s \ {p}] BY <1>4, <3>5
    <3> QED BY <1>2, <3>1, <3>2, <3>6 DEF PointsFrom
  <2> QED BY <2>1
<1>5. Nat \subseteq N
  <2> HIDE DEF N
  <2> QED BY <1>3, <1>4, NaturalInduction
<1> QED BY <1>1, <1>5

\* Whichever event the fold takes first, the total is the sum.
LEMMA TotalSplits == ASSUME NEW S, IsFiniteSet(S), \A e \in S : e.points \in Nat
    PROVE /\ TotalPoints(S) \in Nat
          /\ \A x \in S : TotalPoints(S) = x.points + TotalPoints(S \ {x})
<1>0. PICK F : F = TotalOf(S) OBVIOUS
<1>1. IsTotal(F, S) BY <1>0, TotalExists
<1>2. \A T \in SUBSET S : IsFiniteSet(T) /\ Cardinality(T) \in Nat BY FS_Subset, FS_CardinalityType
<1>3. \A T \in SUBSET S : TotalPoints(T) = F[T]
  <2> SUFFICES ASSUME NEW T \in SUBSET S PROVE TotalPoints(T) = F[T] OBVIOUS
  <2>1. IsTotal(TotalOf(T), T) BY <1>2, TotalExists
  <2>2. TotalOf(T)[T] = F[T] BY <1>1, <2>1, TotalsAgree
  <2> QED BY <2>2, TotalIs
<1>4. \A T \in SUBSET S : F[T] = PointsFrom(F, T) BY <1>1 DEF IsTotal
<1> DEFINE Good(T) == F[T] \in Nat /\ \A x \in T : F[T] = x.points + F[T \ {x}]
           N == {n \in Nat : \A T \in SUBSET S : Cardinality(T) <= n => Good(T)}
<1>5. 0 \in N
  <2>1. ASSUME NEW T \in SUBSET S, Cardinality(T) <= 0 PROVE Good(T)
    <3>1. Cardinality(T) = 0 BY <1>2, <2>1
    <3>2. T = {} BY <1>2, <3>1, FS_EmptySet
    <3>3. F[T] = 0 BY <1>4, <3>2 DEF PointsFrom
    <3> QED BY <3>2, <3>3
  <2> QED BY <2>1
<1>6. ASSUME NEW n \in Nat, n \in N PROVE n + 1 \in N
  <2>1. ASSUME NEW T \in SUBSET S, T # {}, Cardinality(T) <= n + 1 PROVE Good(T)
    <3>2. PICK p : p = Picked(T) OBVIOUS
    <3>3. p \in T BY <2>1, <3>2, PickedIn
    <3>4. ASSUME NEW x \in T PROVE T \ {x} \in SUBSET S /\ Good(T \ {x})
      <4>1. Cardinality(T) = Cardinality(T \ {x}) + 1 /\ Cardinality(T \ {x}) \in Nat BY <1>2, Smaller
      <4>2. Cardinality(T \ {x}) <= n /\ T \ {x} \in SUBSET S BY <2>1, <4>1
      <4> HIDE DEF Good
      <4> QED BY <1>6, <4>2
    <3>5. F[T] = p.points + F[T \ {p}] /\ p.points \in Nat /\ F[T \ {p}] \in Nat BY <1>4, <2>1, <3>2, <3>3, <3>4 DEF PointsFrom
    <3>6. ASSUME NEW x \in T PROVE F[T] = x.points + F[T \ {x}]
      <4>1. CASE x = p BY <3>5, <4>1
      <4>2. CASE x # p
        <5>1. F[T \ {p}] = x.points + F[(T \ {p}) \ {x}] BY <3>3, <3>4, <4>2
        <5>2. F[T \ {x}] = p.points + F[(T \ {x}) \ {p}] BY <3>3, <3>4, <4>2
        <5>3. (T \ {p}) \ {x} = (T \ {x}) \ {p} OBVIOUS
        <5>4. F[(T \ {p}) \ {x}] \in Nat
          <6>1. Cardinality(T) = Cardinality(T \ {p}) + 1 /\ Cardinality(T \ {p}) \in Nat BY <1>2, <3>3, Smaller
          <6>2. IsFiniteSet(T \ {p}) /\ x \in T \ {p} BY <1>2, <3>3, <3>4, <4>2
          <6>3. Cardinality(T \ {p}) = Cardinality((T \ {p}) \ {x}) + 1 /\ Cardinality((T \ {p}) \ {x}) \in Nat
            BY <6>2, Smaller
          <6>4. Cardinality((T \ {p}) \ {x}) <= n /\ (T \ {p}) \ {x} \in SUBSET S BY <2>1, <6>1, <6>3
          <6>5. Good((T \ {p}) \ {x})
            <7> HIDE DEF Good
            <7> QED BY <1>6, <6>4
          <6> QED BY <6>5
        <5>5. x.points \in Nat OBVIOUS
        <5>6. PICK a, b, c, d : a = F[(T \ {p}) \ {x}] /\ b = x.points /\ c = p.points /\ d = F[T \ {x}] OBVIOUS
        <5>7. F[T] = c + (b + a) /\ d = c + a BY <3>5, <5>1, <5>2, <5>3, <5>6
        <5>8. a \in Nat /\ b \in Nat /\ c \in Nat BY <3>5, <5>4, <5>5, <5>6
        <5>9. F[T] = b + d BY <5>7, <5>8
        <5> QED BY <5>6, <5>9
      <4> QED BY <4>1, <4>2
    <3>7. F[T] \in Nat
      <4>1. PICK a, b : a = p.points /\ b = F[T \ {p}] OBVIOUS
      <4>2. a \in Nat /\ b \in Nat /\ F[T] = a + b BY <3>5, <4>1
      <4> QED BY <4>2
    <3> QED BY <3>6, <3>7
  <2>2. Good({})
    <3>1. F[{}] = 0 BY <1>4 DEF PointsFrom
    <3> QED BY <3>1
  <2>3. \A T \in SUBSET S : Cardinality(T) <= n + 1 => Good(T)
    <3> HIDE DEF Good
    <3> QED BY <2>1, <2>2
  <2>4. n + 1 \in Nat BY <1>6
  <2> HIDE DEF Good
  <2> QED BY <2>3, <2>4
<1>7. Nat \subseteq N
  <2> HIDE DEF N
  <2> QED BY <1>5, <1>6, NaturalInduction
<1>8. Good(S) BY <1>2, <1>7
<1> QED BY <1>3, <1>8

\* One event more or less points changes the total by as much.
LEMMA TotalMoves == ASSUME NEW S, IsFiniteSet(S), NEW e \in S, NEW d, d \notin S \ {e},
                           \A x \in S \cup {d} : x.points \in Nat, d.points = e.points + 1
                    PROVE TotalPoints((S \ {e}) \cup {d}) # TotalPoints(S)
<1>1. PICK R : R = S \ {e} OBVIOUS
<1>2. IsFiniteSet(R) BY <1>1, FS_Subset
<1>3. IsFiniteSet(R \cup {d}) BY <1>2, FS_AddElement
<1>4. (R \cup {d}) \ {d} = R BY <1>1
<1>5. /\ \A x \in R \cup {d} : x.points \in Nat
      /\ \A x \in R : x.points \in Nat
      /\ \A x \in S : x.points \in Nat
  BY <1>1
<1>6. TotalPoints(R) \in Nat BY <1>2, <1>5, TotalSplits
<1>7. TotalPoints(R \cup {d}) = d.points + TotalPoints(R) BY <1>3, <1>4, <1>5, TotalSplits
<1>8. TotalPoints(S) = e.points + TotalPoints(R) BY <1>1, <1>5, TotalSplits
<1>9. PICK a, b, c : a = TotalPoints(R) /\ b = e.points /\ c = d.points OBVIOUS
<1>10. a \in Nat /\ b \in Nat /\ c = b + 1 BY <1>5, <1>6, <1>9
<1>11. c + a # b + a BY <1>10
<1> QED BY <1>1, <1>7, <1>8, <1>9, <1>11
-----------------------------------------------------------------------------
(* Backup and the verification of a restore: the inductive invariant. *)

Event == [seq : Nat \ {0}, contest : Contest, points : Nat]
Boards == {NoProjection} \cup {Projection(S) : S \in SUBSET Event}
Db == [ledger : SUBSET Event, next : Nat \ {0}, audit : Nat, store : SUBSET Content, builds : SUBSET Content,
       boards : [Contest -> Boards], revision : {CODE_MIGRATION_HEAD}]

\* A board is the fold of all events up to some number: a lagging board is
\* not a wrong one.
BoardTrue(db, c) ==
    \/ db.boards[c] = NoProjection
    \/ \E S \in SUBSET EventsOf(db, c) :
         /\ S # {} /\ db.boards[c] = Projection(S)
         /\ \A e \in EventsOf(db, c) : e.seq <= TopSeq(S) => e \in S

DbTrue(db) ==
    /\ db \in Db
    /\ IsFiniteSet(db.ledger)
    /\ \A e \in db.ledger : e.seq < db.next
    /\ \A e, f \in db.ledger : e.seq = f.seq => e = f
    /\ db.builds \subseteq db.store
    /\ \A c \in Contest : BoardTrue(db, c)

\* Every build row of the dump finds its content in the tar.
Tarred == \A b \in dump.builds : b \in DOMAIN tar /\ tar[b] = b
Counted ==
    /\ manifest["score_events_count"] = Cardinality(dump.ledger)
    /\ manifest["score_events_max_seq"] = TopSeq(dump.ledger)

\* The copies before the restore: the dump is a state the platform was in, and
\* of a drained platform it is the state.
CopyInv ==
    /\ step \in {"dump", "tar", "count", "restore"} => damage = "none"
    /\ step \in {"tar", "count", "restore"} =>
         DbTrue(dump) /\ dump.builds \subseteq src.store /\ (quiet => dump = src)
    /\ step \in {"count", "restore"} => Tarred
    /\ step = "restore" /\ quiet => Counted

\* The restored copy shows what happened to it.
RestoredInv ==
    step = "verify" =>
      /\ damage = "none" => DbTrue(dump) /\ Tarred /\ (quiet => Counted)
      /\ quiet /\ damage = "ledger_lost" => manifest["score_events_count"] # Cardinality(dump.ledger)
      /\ damage \in {"artifact_lost", "artifact_changed"} => ~Tarred
      /\ damage = "schema" => dump.revision # CODE_MIGRATION_HEAD
      /\ damage = "ledger_changed" /\ AllCurrent => ~_check_scoreboard_parity

BkInv ==
    /\ step \in {"dump", "tar", "count", "restore", "verify", "verified"}
    /\ quiet \in BOOLEAN
    /\ DbTrue(src)
    /\ CopyInv
    /\ RestoredInv
    /\ NoFalseAlarm /\ DamageCaught /\ ChangeCaught /\ HotBackupSound

\* The greatest number of a finite set of events.
LEMMA TopSeqIsMax ==
    ASSUME NEW S, S \subseteq Event, IsFiniteSet(S)
    PROVE  /\ TopSeq(S) \in Nat
           /\ \A e \in S : e.seq <= TopSeq(S)
           /\ S # {} => \E e \in S : e.seq = TopSeq(S)
<1> DEFINE f == [e \in S |-> e.seq]
           T == {e.seq : e \in S}
           N == T \cup {0}
<1>1. f \in Surjection(S, T)
    BY DEF Surjection
<1>2. IsFiniteSet(T)
    BY <1>1, FS_Surjection
<1>3. IsFiniteSet(N) /\ N \subseteq Nat /\ N # {}
    BY <1>2, FS_AddElement DEF Event
<1>4. HasMax(N)
    BY <1>3, FiniteMax
<1>5. Max(N) \in N /\ \A x \in N : Max(N) >= x
  <2>1. \E m \in N : \A x \in N : m >= x
    BY <1>3, <1>4 DEF HasMax
  <2> HIDE DEF N
  <2> QED
    BY <2>1 DEF Max
<1>6. TopSeq(S) = Max(N)
    BY DEF TopSeq
<1>7. \A e \in S : e.seq \in Nat /\ e.seq > 0 /\ e.seq \in N
    BY DEF Event
<1> HIDE DEF f
<1> QED
  <2>1. TopSeq(S) \in Nat
    BY <1>3, <1>5, <1>6
  <2>2. \A e \in S : e.seq <= TopSeq(S)
    BY <1>5, <1>6, <1>7, <2>1
  <2>3. S # {} => \E e \in S : e.seq = TopSeq(S)
    <3> SUFFICES ASSUME NEW d \in S PROVE \E e \in S : e.seq = TopSeq(S)
      OBVIOUS
    <3>1. TopSeq(S) # 0
      BY <1>7, <2>1, <2>2
    <3> QED
      BY <1>5, <1>6, <3>1
  <2> QED
    BY <2>1, <2>2, <2>3

\* A contest's board that is not behind its ledger is its fold, and no board
\* is ahead.
LEMMA BoardAgrees ==
    ASSUME NEW db, DbTrue(db), NEW c \in Contest, db.boards[c] # NoProjection
    PROVE  LET board == db.boards[c]
               fold == dry_project(db, c)
           IN  /\ EventsOf(db, c) # {}
               /\ board.as_of <= fold.as_of
               /\ board.as_of = fold.as_of => board.total = fold.total
<1> DEFINE E == EventsOf(db, c)
<1>1. E \subseteq Event /\ IsFiniteSet(E)
    BY FS_Subset DEF DbTrue, Db, EventsOf
<1>2. PICK S \in SUBSET E : S # {} /\ db.boards[c] = Projection(S) /\ \A e \in E : e.seq <= TopSeq(S) => e \in S
    BY DEF DbTrue, BoardTrue
<1> HIDE DEF E
<1>3. S \subseteq Event /\ IsFiniteSet(S)
    BY <1>1, <1>2, FS_Subset
<1>4. TopSeq(S) <= TopSeq(E)
    BY <1>1, <1>2, <1>3, TopSeqIsMax
<1>5. TopSeq(S) = TopSeq(E) => S = E
    BY <1>1, <1>2, TopSeqIsMax
<1>6. db.boards[c].as_of = TopSeq(S) /\ dry_project(db, c).as_of = TopSeq(E)
    BY <1>2 DEF Projection, dry_project, E
<1>7. S = E => db.boards[c] = dry_project(db, c)
    BY <1>2 DEF dry_project, E
<1> QED
    BY <1>2, <1>4, <1>5, <1>6, <1>7 DEF E

\* The platform's own steps keep a database true.
LEMMA ScoredDb ==
    ASSUME NEW db, DbTrue(db), NEW k \in Contest, NEW p \in Nat
    PROVE  DbTrue([db EXCEPT !.ledger = @ \cup {[seq |-> db.next, contest |-> k, points |-> p]}, !.next = @ + 1])
<1> DEFINE e == [seq |-> db.next, contest |-> k, points |-> p]
           new == [db EXCEPT !.ledger = @ \cup {e}, !.next = @ + 1]
<1>1. e \in Event /\ e.seq = db.next /\ e.contest = k
    BY DEF Event, DbTrue, Db
<1> HIDE DEF e
<1>2. /\ new.ledger = db.ledger \cup {e} /\ new.next = db.next + 1
      /\ new.builds = db.builds /\ new.store = db.store /\ new.boards = db.boards
      /\ new \in Db
  <2> DEFINE led == db.ledger \cup {e}
             nxt == db.next + 1
  <2>1. led \in SUBSET Event /\ nxt \in Nat \ {0} /\ db \in Db
    BY <1>1 DEF DbTrue, Db
  <2>2. new = [db EXCEPT !.ledger = led, !.next = nxt]
    BY <2>1 DEF Db
  <2> HIDE DEF led, nxt, new
  <2>3. /\ new.ledger = led /\ new.next = nxt
        /\ new.builds = db.builds /\ new.store = db.store /\ new.boards = db.boards
        /\ new \in Db
    BY <2>1, <2>2 DEF Db
  <2> QED
    BY <2>3 DEF led, nxt
<1> HIDE DEF new
<1>3. IsFiniteSet(new.ledger)
    BY <1>2, FS_AddElement DEF DbTrue
<1>4. \A d \in new.ledger : d.seq < new.next
    BY <1>1, <1>2 DEF DbTrue, Db, Event
<1>5. \A d, f \in new.ledger : d.seq = f.seq => d = f
    BY <1>1, <1>2 DEF DbTrue, Db, Event
<1>6. ASSUME NEW c \in Contest PROVE BoardTrue(new, c)
  <2>1. CASE db.boards[c] = NoProjection
    BY <1>2, <2>1 DEF BoardTrue
  <2>2. CASE db.boards[c] # NoProjection
    <3>1. PICK S \in SUBSET EventsOf(db, c) :
              /\ S # {} /\ db.boards[c] = Projection(S)
              /\ \A d \in EventsOf(db, c) : d.seq <= TopSeq(S) => d \in S
      BY <2>2 DEF DbTrue, BoardTrue
    <3>2. S \subseteq Event /\ IsFiniteSet(S) /\ \A d \in S : d.seq < db.next
      BY <3>1, FS_Subset DEF DbTrue, Db, EventsOf
    <3>3. TopSeq(S) < db.next /\ TopSeq(S) \in Nat
      BY <3>1, <3>2, TopSeqIsMax
    <3>4. EventsOf(db, c) \subseteq EventsOf(new, c) /\ EventsOf(new, c) \subseteq EventsOf(db, c) \cup {e}
      BY <1>2 DEF EventsOf
    <3>5. ~(e.seq <= TopSeq(S))
      BY <1>1, <3>3 DEF DbTrue, Db
    <3>6. \A d \in EventsOf(new, c) : d.seq <= TopSeq(S) => d \in S
      BY <3>1, <3>4, <3>5
    <3> QED
      BY <1>2, <3>1, <3>4, <3>6 DEF BoardTrue
  <2> QED
    BY <2>1, <2>2
<1>7. new.builds \subseteq new.store
    BY <1>2 DEF DbTrue
<1>8. DbTrue(new)
    BY <1>2, <1>3, <1>4, <1>5, <1>6, <1>7 DEF DbTrue
<1> QED
    BY <1>8 DEF e, new

LEMMA ProjectedDb ==
    ASSUME NEW db, DbTrue(db), NEW k \in Contest, EventsOf(db, k) # {}
    PROVE  DbTrue([db EXCEPT !.boards[k] = dry_project(db, k)])
<1> DEFINE new == [db EXCEPT !.boards[k] = dry_project(db, k)]
<1>1. dry_project(db, k) = Projection(EventsOf(db, k)) /\ EventsOf(db, k) \in SUBSET Event
    BY DEF dry_project, EventsOf, DbTrue, Db
<1>2. dry_project(db, k) \in Boards
    BY <1>1 DEF Boards
<1>3. /\ new \in Db
      /\ new.ledger = db.ledger /\ new.next = db.next /\ new.builds = db.builds /\ new.store = db.store
      /\ new.boards[k] = dry_project(db, k)
      /\ \A c \in Contest \ {k} : new.boards[c] = db.boards[c]
    BY <1>2 DEF DbTrue, Db
<1> HIDE DEF new
<1>4. \A c \in Contest : EventsOf(new, c) = EventsOf(db, c)
    BY <1>3 DEF EventsOf
<1>5. ASSUME NEW c \in Contest PROVE BoardTrue(new, c)
  <2>1. CASE c = k
    BY <1>1, <1>3, <1>4, <2>1 DEF BoardTrue
  <2>2. CASE c # k
    BY <1>3, <1>4, <2>2 DEF BoardTrue, DbTrue
  <2> QED
    BY <2>1, <2>2
<1>6. DbTrue(new)
    BY <1>3, <1>5 DEF DbTrue
<1> QED
    BY <1>6 DEF new

\* A step that touches neither ledger nor boards.
LEMMA OtherDb ==
    ASSUME NEW db, DbTrue(db), NEW new, new \in Db,
           new.ledger = db.ledger, new.boards = db.boards, new.next >= db.next, new.builds \subseteq new.store
    PROVE  DbTrue(new)
<1>1. \A c \in Contest : EventsOf(new, c) = EventsOf(db, c)
    BY DEF EventsOf
<1>2. \A c \in Contest : BoardTrue(new, c)
    BY <1>1 DEF BoardTrue, DbTrue
<1>3. \A e \in new.ledger : e.seq < new.next
    BY DEF DbTrue, Db, Event
<1> QED
    BY <1>2, <1>3 DEF DbTrue

\* A ledger with one row changed disagrees with the board of that contest, if
\* the board is current.
Current(db) == \A c \in Contest : EventsOf(db, c) # {} => db.boards[c].as_of = dry_project(db, c).as_of
Disagrees(db) == \E c \in Contest : /\ EventsOf(db, c) # {}
                                    /\ db.boards[c].as_of = dry_project(db, c).as_of
                                    /\ db.boards[c].total # dry_project(db, c).total
ChangedBy(db, e) == [db EXCEPT !.ledger = (@ \ {e}) \cup {[e EXCEPT !.points = @ + 1]}]
LEMMA ChangedBoard ==
    ASSUME NEW db, DbTrue(db), NEW e \in db.ledger, NEW new, new = ChangedBy(db, e), Current(new)
    PROVE  Disagrees(new)
<1> USE DEF Current, Disagrees, ChangedBy
<1>1. PICK d : d = [e EXCEPT !.points = @ + 1] OBVIOUS
<1>2. e \in Event /\ e.points \in Nat /\ e.contest \in Contest
  BY DEF DbTrue, Db, Event
<1>3. d \in Event /\ d.seq = e.seq /\ d.contest = e.contest /\ d.points = e.points + 1 /\ d.points \in Nat
  <2>1. PICK p : p = e.points + 1 OBVIOUS
  <2>2. p \in Nat BY <1>2, <2>1
  <2>3. d = [e EXCEPT !.points = p] BY <1>1, <1>2, <2>1 DEF Event
  <2>4. d \in Event /\ d.seq = e.seq /\ d.contest = e.contest /\ d.points = p BY <1>2, <2>2, <2>3 DEF Event
  <2> QED BY <2>1, <2>2, <2>4
<1>4. new.ledger = (db.ledger \ {e}) \cup {d} /\ new.boards = db.boards
  BY <1>1 DEF DbTrue, Db
<1>5. PICK c : c = e.contest OBVIOUS
<1>6. PICK S : S = EventsOf(db, c) OBVIOUS
<1>7. S \subseteq Event /\ IsFiniteSet(S) /\ e \in S
  BY <1>5, <1>6, FS_Subset DEF DbTrue, Db, EventsOf
<1>8. EventsOf(new, c) = (S \ {e}) \cup {d}
  BY <1>3, <1>4, <1>5, <1>6 DEF EventsOf
<1>9. d \notin S \ {e}
  BY <1>3, <1>6 DEF DbTrue, EventsOf
<1>10. TotalPoints(EventsOf(new, c)) # TotalPoints(S)
  <2>1. \A x \in S \cup {d} : x.points \in Nat BY <1>3, <1>7 DEF Event
  <2> QED BY <1>3, <1>7, <1>8, <1>9, <2>1, TotalMoves
<1>11. TopSeq(EventsOf(new, c)) = TopSeq(S)
  <2>1. {x.seq : x \in EventsOf(new, c)} = {x.seq : x \in S} BY <1>3, <1>7, <1>8
  <2> QED BY <2>1 DEF TopSeq
<1>12. dry_project(new, c).as_of = TopSeq(S) /\ dry_project(new, c).total = TotalPoints(EventsOf(new, c))
       /\ dry_project(db, c).as_of = TopSeq(S) /\ dry_project(db, c).total = TotalPoints(S)
  BY <1>6, <1>11 DEF dry_project, Projection
<1>13. EventsOf(new, c) # {} BY <1>8
<1>14. db.boards[c].as_of = TopSeq(S) BY <1>2, <1>4, <1>5, <1>12, <1>13
<1>15. TopSeq(S) \in Nat BY <1>7, TopSeqIsMax
<1>16. db.boards[c] # NoProjection BY <1>14, <1>15 DEF NoProjection
<1>17. db.boards[c].total = TotalPoints(S) BY <1>2, <1>5, <1>12, <1>14, <1>16, BoardAgrees
<1> QED BY <1>2, <1>4, <1>5, <1>10, <1>12, <1>13, <1>14, <1>17

LEMMA BkStart == BkInit => BkInv
<1> SUFFICES ASSUME BkInit PROVE BkInv
    OBVIOUS
<1>1. step = "dump"
    BY DEF BkInit, FirstStep, BackupOrder
<1>2. src \in Db
    BY DEF BkInit, Db, Boards
<1>3. DbTrue(src)
    BY <1>2, FS_EmptySet DEF BkInit, DbTrue, BoardTrue
<1>4. CopyInv /\ RestoredInv /\ NoFalseAlarm /\ DamageCaught /\ ChangeCaught /\ HotBackupSound
    BY <1>1 DEF BkInit, CopyInv, RestoredInv, NoFalseAlarm, DamageCaught, ChangeCaught, HotBackupSound, Verified
<1> QED
    BY <1>1, <1>3, <1>4 DEF BkInit, BkInv

\* What the platform does while the backup is taken: nothing, once a drained
\* platform is dumped.
LEMMA PlatformKeeps ==
    ASSUME BkInv, Running, DbTrue(src'), src.store \subseteq src'.store,
           UNCHANGED <<quiet, step, dump, tar, manifest, damage, report>>
    PROVE  BkInv'
<1>1. quiet => step = "dump"
    BY DEF Running, FirstStep, BackupOrder
<1>2. step \in {"dump", "tar", "count"}
    BY <1>1 DEF Running, BkInv
<1>3. Tarred' = Tarred
    BY DEF Tarred
<1>4. CopyInv'
    BY <1>1, <1>2, <1>3 DEF CopyInv, BkInv
<1>5. RestoredInv' /\ NoFalseAlarm' /\ DamageCaught' /\ ChangeCaught' /\ HotBackupSound'
    BY <1>2 DEF RestoredInv, NoFalseAlarm, DamageCaught, ChangeCaught, HotBackupSound, Verified
<1> QED
    BY <1>4, <1>5 DEF BkInv

LEMMA PlatformStep ==
    ASSUME BkInv,
           \/ \E c \in Contest, p \in 1..2 : Score(c, p)
           \/ Burn \/ Audit
           \/ \E b \in Content : StoreContent(b) \/ AddBuildRow(b)
           \/ \E c \in Contest : ProjectBoard(c)
    PROVE  BkInv'
<1>0. DbTrue(src) /\ src \in Db /\ src.builds \subseteq src.store
    BY DEF BkInv, DbTrue
<1>1. ASSUME NEW c \in Contest, NEW p \in 1..2, Score(c, p) PROVE BkInv'
  <2>1. DbTrue(src')
    <3>1. p \in Nat
      OBVIOUS
    <3>2. src' = [src EXCEPT !.ledger = @ \cup {[seq |-> src.next, contest |-> c, points |-> p]}, !.next = @ + 1]
      BY <1>1 DEF Score
    <3>3. DbTrue([src EXCEPT !.ledger = @ \cup {[seq |-> src.next, contest |-> c, points |-> p]}, !.next = @ + 1])
      BY <1>0, <3>1, ScoredDb
    <3> QED
      BY <3>2, <3>3, Zenon
  <2>2. src'.store = src.store
    BY <1>0, <1>1 DEF Score, Db
  <2> QED
    BY <1>1, <2>1, <2>2, PlatformKeeps DEF Score
<1>2. CASE Burn
  <2>1. src' \in Db /\ src'.ledger = src.ledger /\ src'.boards = src.boards /\ src'.next = src.next + 1
        /\ src'.builds = src.builds /\ src'.store = src.store
    <3> DEFINE nxt == src.next + 1
    <3>1. nxt \in Nat \ {0}
      BY <1>0 DEF Db
    <3>2. src' = [src EXCEPT !.next = nxt]
      BY <1>0, <1>2 DEF Burn, Db
    <3> HIDE DEF nxt
    <3>3. src' \in Db /\ src'.ledger = src.ledger /\ src'.boards = src.boards /\ src'.next = nxt
          /\ src'.builds = src.builds /\ src'.store = src.store
      BY <1>0, <3>1, <3>2 DEF Db
    <3> QED
      BY <3>3 DEF nxt
  <2>2. src'.next >= src.next
    BY <1>0, <2>1 DEF Db
  <2>3. DbTrue(src')
    BY <1>0, <2>1, <2>2, OtherDb
  <2> QED
    BY <1>2, <2>1, <2>3, PlatformKeeps DEF Burn
<1>3. CASE Audit
  <2>1. src' \in Db /\ src'.ledger = src.ledger /\ src'.boards = src.boards /\ src'.next = src.next
        /\ src'.builds = src.builds /\ src'.store = src.store
    <3> DEFINE n == src.audit + 1
    <3>1. n \in Nat
      BY <1>0 DEF Db
    <3>2. src' = [src EXCEPT !.audit = n]
      BY <1>0, <1>3 DEF Audit, Db
    <3> HIDE DEF n
    <3> QED
      BY <1>0, <3>1, <3>2 DEF Db
  <2>2. src'.next >= src.next
    BY <1>0, <2>1 DEF Db
  <2>3. DbTrue(src')
    BY <1>0, <2>1, <2>2, OtherDb
  <2> QED
    BY <1>3, <2>1, <2>3, PlatformKeeps DEF Audit
<1>4. ASSUME NEW b \in Content, StoreContent(b) \/ AddBuildRow(b) PROVE BkInv'
  <2>1. src' \in Db /\ src'.ledger = src.ledger /\ src'.boards = src.boards /\ src'.next = src.next
        /\ src'.builds \subseteq src'.store /\ src.store \subseteq src'.store
    <3>1. CASE StoreContent(b)
      <4> DEFINE st == src.store \cup {b}
      <4>1. st \in SUBSET Content
        BY <1>0 DEF Db
      <4>2. src' = [src EXCEPT !.store = st]
        BY <1>0, <3>1 DEF StoreContent, Db
      <4> QED
        BY <1>0, <4>1, <4>2 DEF Db
    <3>2. CASE AddBuildRow(b)
      <4> DEFINE bs == src.builds \cup {b}
      <4>1. bs \in SUBSET Content /\ bs \subseteq src.store
        BY <1>0, <3>2 DEF Db, AddBuildRow
      <4>2. src' = [src EXCEPT !.builds = bs]
        BY <1>0, <3>2 DEF AddBuildRow, Db
      <4> QED
        BY <1>0, <4>1, <4>2 DEF Db
    <3> QED
      BY <1>4, <3>1, <3>2
  <2>2. src'.next >= src.next
    BY <1>0, <2>1 DEF Db
  <2>3. DbTrue(src')
    BY <1>0, <2>1, <2>2, OtherDb
  <2> QED
    BY <1>4, <2>1, <2>3, PlatformKeeps DEF StoreContent, AddBuildRow
<1>5. ASSUME NEW c \in Contest, ProjectBoard(c) PROVE BkInv'
  <2>1. DbTrue(src')
    BY <1>0, <1>5, ProjectedDb DEF ProjectBoard
  <2>2. src'.store = src.store
    BY <1>0, <1>5 DEF ProjectBoard, Db
  <2> QED
    BY <1>5, <2>1, <2>2, PlatformKeeps DEF ProjectBoard
<1> QED
    BY <1>1, <1>2, <1>3, <1>4, <1>5

\* The three copies of backup.sh.
LEMMA CopyStep ==
    ASSUME BkInv, PgDump \/ Tar \/ WriteManifest
    PROVE  BkInv'
<1> USE DEF BkInv
<1>0. ~Verified' /\ step' # "verify" => RestoredInv' /\ NoFalseAlarm' /\ DamageCaught' /\ ChangeCaught' /\ HotBackupSound'
    BY DEF RestoredInv, NoFalseAlarm, DamageCaught, ChangeCaught, HotBackupSound
<1>1. CASE PgDump
  <2>1. step = "dump" /\ step' = "tar" /\ dump' = src /\ src' = src /\ damage' = damage /\ quiet' = quiet
    BY <1>1 DEF PgDump, BackupOrder
  <2>2. CopyInv' /\ DbTrue(src')
    BY <2>1 DEF CopyInv, DbTrue
  <2> QED
    BY <1>0, <2>1, <2>2 DEF Verified
<1>2. CASE Tar
  <2>1. /\ step = "tar" /\ step' = "count" /\ dump' = dump /\ src' = src /\ damage' = damage /\ quiet' = quiet
        /\ tar' = [k \in src.store |-> k]
    BY <1>2 DEF Tar, BackupOrder
  <2>2. Tarred'
    BY <2>1 DEF Tarred, CopyInv
  <2>3. CopyInv' /\ DbTrue(src')
    BY <2>1, <2>2 DEF CopyInv
  <2> QED
    BY <1>0, <2>1, <2>3 DEF Verified
<1>3. CASE WriteManifest
  <2>1. /\ step = "count" /\ step' = "restore" /\ dump' = dump /\ src' = src /\ damage' = damage /\ quiet' = quiet
        /\ tar' = tar
        /\ manifest' = [score_events_count |-> Cardinality(src.ledger), score_events_max_seq |-> TopSeq(src.ledger),
                        audit_events_count |-> src.audit]
    BY <1>3 DEF WriteManifest
  <2>2. quiet => Counted'
    BY <2>1 DEF Counted, CopyInv
  <2>3. Tarred'
    BY <2>1 DEF Tarred, CopyInv
  <2>4. CopyInv' /\ DbTrue(src')
    BY <2>1, <2>2, <2>3 DEF CopyInv
  <2> QED
    BY <1>0, <2>1, <2>4 DEF Verified
<1> QED
    BY <1>1, <1>2, <1>3

\* The restored copy, whole or with one thing gone wrong.
LEMMA RestoreStep ==
    ASSUME BkInv, Restore
    PROVE  BkInv'
<1> USE DEF BkInv
<1>1. /\ step = "restore" /\ step' = "verify" /\ src' = src /\ quiet' = quiet /\ manifest' = manifest
      /\ damage = "none" /\ DbTrue(dump) /\ dump \in Db /\ Tarred /\ (quiet => Counted)
    BY DEF Restore, CopyInv, DbTrue
<1>2. RestoredInv'
  <2>1. CASE damage' = "none" /\ UNCHANGED <<dump, tar>>
    BY <1>1, <2>1 DEF RestoredInv, Tarred, Counted
  <2>2. CASE damage' = "ledger_lost" /\ \E e \in dump.ledger : dump' = [dump EXCEPT !.ledger = @ \ {e}]
    <3>1. PICK e \in dump.ledger : dump' = [dump EXCEPT !.ledger = @ \ {e}]
      BY <2>2
    <3>2. dump'.ledger = dump.ledger \ {e}
      BY <1>1, <3>1 DEF Db
    <3>3. Cardinality(dump'.ledger) = Cardinality(dump.ledger) - 1 /\ Cardinality(dump.ledger) \in Nat
      BY <1>1, <3>2, FS_RemoveElement, FS_CardinalityType DEF DbTrue
    <3> QED
      BY <1>1, <2>2, <3>3 DEF RestoredInv, Counted
  <2>3. CASE /\ damage' = "ledger_changed"
             /\ \E e \in dump.ledger : dump' = [dump EXCEPT !.ledger = (@ \ {e}) \cup {[e EXCEPT !.points = @ + 1]}]
    <3>1. PICK e \in dump.ledger : dump' = [dump EXCEPT !.ledger = (@ \ {e}) \cup {[e EXCEPT !.points = @ + 1]}]
      BY <2>3
    <3>2. PICK new : new = dump' OBVIOUS
    <3>3. new = ChangedBy(dump, e) BY <3>1, <3>2 DEF ChangedBy
    <3>4. AllCurrent' => Current(new)
      BY <3>2 DEF AllCurrent, EventsOf, dry_project, Current
    <3>5. Current(new) => Disagrees(new)
      BY <1>1, <3>1, <3>3, ChangedBoard
    <3>6. AllCurrent' => ~_check_scoreboard_parity'
      BY <3>2, <3>4, <3>5 DEF _check_scoreboard_parity, Parity, EventsOf, dry_project, Disagrees
    <3> QED
      BY <2>3, <3>6 DEF RestoredInv
  <2>7. CASE damage' = "audit_lost"
    BY <2>7 DEF RestoredInv
  <2>4. CASE damage' = "artifact_lost" /\ dump' = dump
             /\ \E k \in dump.builds \cap DOMAIN tar : tar' = [i \in DOMAIN tar \ {k} |-> tar[i]]
    BY <2>4 DEF RestoredInv, Tarred
  <2>5. CASE damage' = "artifact_changed" /\ dump' = dump
             /\ \E k \in dump.builds \cap DOMAIN tar : tar' = [tar EXCEPT ![k] = Corrupt]
    <3>1. PICK k \in dump.builds \cap DOMAIN tar : tar' = [tar EXCEPT ![k] = Corrupt]
      BY <2>5
    <3>2. k # 0 /\ tar'[k] = 0
      BY <1>1, <3>1, ContentAssumption DEF Db, Corrupt
    <3> QED
      BY <2>5, <3>1, <3>2 DEF RestoredInv, Tarred
  <2>6. CASE damage' = "schema" /\ dump' = [dump EXCEPT !.revision = "older"]
    <3>1. dump'.revision = "older"
      BY <1>1, <2>6 DEF Db
    <3> QED
      BY <2>6, <3>1 DEF RestoredInv, CODE_MIGRATION_HEAD
  <2> QED
    BY <2>1, <2>2, <2>3, <2>4, <2>5, <2>6, <2>7 DEF Restore
<1>3. CopyInv' /\ NoFalseAlarm' /\ DamageCaught' /\ ChangeCaught' /\ HotBackupSound' /\ DbTrue(src')
    BY <1>1 DEF CopyInv, NoFalseAlarm, DamageCaught, ChangeCaught, HotBackupSound, Verified
<1> QED
    BY <1>1, <1>2, <1>3

\* What the verifier reports of the restored copy.
LEMMA VerifyStep ==
    ASSUME BkInv, verify_restore
    PROVE  BkInv'
<1> USE DEF BkInv
<1>1. /\ step = "verify" /\ step' = "verified"
      /\ UNCHANGED <<src, quiet, dump, tar, manifest, damage>>
    BY DEF verify_restore
<1>2. /\ "migration_head" \in report' <=> ~_check_migration_head
      /\ "ledger_seq" \in report' <=> ~_check_ledger_seq
      /\ "ledger_rowcount" \in report' <=> ~_check_ledger_rowcount
      /\ "audit_rowcount" \in report' <=> ~_check_audit_rowcount
      /\ "parity" \in report' <=> ~_check_scoreboard_parity
      /\ "artifacts" \in report' <=> ~_check_artifact_integrity
      /\ report' \subseteq {"migration_head", "ledger_seq", "ledger_rowcount", "audit_rowcount", "parity", "artifacts"}
    BY DEF verify_restore
<1>3. _check_artifact_integrity <=> Tarred
    BY DEF _check_artifact_integrity, Tarred
<1>4. /\ "score_events_count" \in DOMAIN _load_manifest
      /\ _load_manifest["score_events_count"] = manifest["score_events_count"]
      /\ _load_manifest["score_events_max_seq"] = manifest["score_events_max_seq"]
      /\ "audit_events_count" \notin DOMAIN _load_manifest
    BY DEF _load_manifest, ManifestKeys
<1>5. _check_audit_rowcount
    BY <1>4 DEF _check_audit_rowcount, Expects
<1>6. ASSUME damage = "none"
      PROVE  /\ _check_migration_head /\ _check_ledger_seq /\ Tarred
             /\ quiet => _check_ledger_rowcount
             /\ ~_check_scoreboard_parity => Unprojected
  <2>1. DbTrue(dump) /\ Tarred /\ (quiet => Counted)
    BY <1>1, <1>6 DEF RestoredInv
  <2>2. _check_migration_head
    BY <2>1 DEF _check_migration_head, DbTrue, Db
  <2>3. _check_ledger_seq
    BY <2>1 DEF _check_ledger_seq, DbTrue, Db, Event
  <2>4. quiet => _check_ledger_rowcount
    BY <1>4, <2>1 DEF _check_ledger_rowcount, Expects, Counted
  <2>5. ASSUME NEW c \in Contest, ~Parity(c) PROVE Unprojected
    <3>1. CASE dump.boards[c] = NoProjection
      BY <2>5, <3>1 DEF Parity, Unprojected, NoProjection
    <3>2. CASE dump.boards[c] # NoProjection
      BY <2>1, <2>5, <3>2, BoardAgrees DEF Parity
    <3> QED
      BY <3>1, <3>2
  <2> QED
    BY <2>1, <2>2, <2>3, <2>4, <2>5 DEF _check_scoreboard_parity
<1>7. Unprojected' <=> Unprojected
    BY <1>1 DEF Unprojected, EventsOf
<1>8. NoFalseAlarm'
    BY <1>1, <1>2, <1>3, <1>5, <1>6, <1>7 DEF NoFalseAlarm
<1>9. HotBackupSound'
    BY <1>1, <1>2, <1>3, <1>6, <1>7 DEF HotBackupSound
<1>10. DamageCaught'
  <2>1. CASE quiet /\ damage = "ledger_lost"
    <3>1. ~_check_ledger_rowcount
      BY <1>1, <1>4, <2>1 DEF RestoredInv, _check_ledger_rowcount, Expects
    <3> QED
      BY <1>2, <3>1 DEF DamageCaught
  <2>2. CASE damage \in {"artifact_lost", "artifact_changed"}
    BY <1>1, <1>2, <1>3, <2>2 DEF RestoredInv, DamageCaught
  <2>3. CASE damage = "schema"
    BY <1>1, <1>2, <2>3 DEF RestoredInv, DamageCaught, _check_migration_head
  <2> QED
    BY <1>1, <2>1, <2>2, <2>3 DEF DamageCaught
<1>11. CopyInv' /\ RestoredInv' /\ DbTrue(src')
    BY <1>1 DEF CopyInv, RestoredInv
<1>12. ChangeCaught'
  <2>1. AllCurrent' => AllCurrent BY <1>1 DEF AllCurrent, EventsOf, dry_project
  <2> QED BY <1>1, <1>2, <2>1 DEF RestoredInv, ChangeCaught
<1> QED
    BY <1>1, <1>8, <1>9, <1>10, <1>11, <1>12

LEMMA BkStep == BkInv /\ [BkNext]_bkVars => BkInv'
<1> SUFFICES ASSUME BkInv, [BkNext]_bkVars PROVE BkInv'
    OBVIOUS
<1>1. CASE UNCHANGED bkVars
    BY <1>1 DEF bkVars, BkInv, CopyInv, RestoredInv, Tarred, Counted, NoFalseAlarm, DamageCaught,
       ChangeCaught, HotBackupSound, Verified, Unprojected, AllCurrent, dry_project, EventsOf, _check_scoreboard_parity, Parity
<1> QED
    BY <1>1, PlatformStep, CopyStep, RestoreStep, VerifyStep DEF BkNext

\* Every reachable state has the invariant.
LEMMA BkInvariant == BkSpec => []BkInv
<1> QED
    BY BkStart, BkStep, PTL DEF BkSpec

\* The verdict on a restored backup is right in both directions: a faithful
\* restore passes, but for a contest nobody projected yet, one that lost or
\* changed something does not, and what was copied from a running platform is
\* whole (backup.sh, restore.sh, verify.py).
THEOREM BackupSafeHolds == BkSpec => []BackupSafe
<1>1. BkInv => BackupSafe
    BY DEF BkInv, BackupSafe
<1> QED
    BY <1>1, BkInvariant, PTL

-----------------------------------------------------------------------------
(* The local evaluations: the inductive invariant.  At every step of a leg,  *)
(* what is up is either nothing or the leg's own stack, whose fate the leg   *)
(* still decides or has noted; and what a scripted agent has asked for is    *)
(* the beginning of its plan.                                                *)

Kinds == {"delta", "validate", "siblings"}
Stages == {"static", "build", "up", "health", "solve", "finally", "return"}
Remarks == {"static", "command", "timeout", "deadline", "cleanup"}
RunType == [at : Stages, started : BOOLEAN, solved : BOOLEAN, steps : Nat, notes : SUBSET Remarks,
            denied : Nat, raising : BOOLEAN, cleanup : {"none", "down", "failed", "hung"}]

LegInv ==
    /\ job.kind \in Kinds
    /\ leg \in 1..Len(LegsOf(job.kind))
    /\ session \in {"running", "returned", "raised"}
    /\ run \in RunType
    /\ reports \in Seq(RunType)
    /\ session = "running" => Len(reports) = leg - 1
    /\ session = "returned" => Len(reports) = leg
    /\ Len(reports) <= leg
    /\ run.at = "static" => run = NewRun
    /\ Leg = "scenario" => run = NewRun
    /\ run.at \in {"static", "build", "up"} => ~run.started
    /\ run.at \notin {"finally", "return"} => ~run.solved

\* What holds for a stack that was started, also when its leg has ended.
TornInv ==
    /\ run.at = "return" /\ run.started /\ ~job.keep /\ run.cleanup \notin {"failed", "hung"} => Leg \notin up
    /\ StackTornDown

Dirty == \E i \in DOMAIN reports : ~(reports[i].notes \subseteq {"deadline"})
MayHold == \/ run.started /\ run.at \in {"health", "solve", "finally"}
        \/ ~(run.notes \subseteq {"deadline"})
        \/ run.raising
CleanInv ==
    session # "raised" /\ ~job.keep /\ ~Dirty => up = {} \/ (session = "running" /\ up = {Leg} /\ MayHold)

\* What the scripted agent has asked for, on either side of the scenario.
SolvedBy(r) == r.steps \in 1..Len(SolvePlan) /\ r.steps <= MaxSteps /\ SolvePlan[r.steps] \in FlagPaths
NoFlagYet(r) == \A i \in 1..Len(SolvePlan) : i <= r.steps => SolvePlan[i] \notin FlagPaths
Spent(r) == r.steps = MaxSteps \/ r.steps >= Len(SolvePlan)
PlanInv ==
    job.kind = "delta" /\ job.agent = "scripted" =>
      /\ run.steps <= MaxSteps
      /\ Leg = "baseline" /\ run.solved => SolvedBy(run)
      /\ Len(reports) >= 1 /\ reports[1].solved => SolvedBy(reports[1])
      /\ Leg = "adversarial" /\ ~run.solved /\ run.denied = 0 =>
           /\ NoFlagYet(run)
           /\ run.at \in {"finally", "return"} /\ run.notes = {} /\ ~run.raising => Spent(run)
      /\ session = "returned" => Len(reports) = 3 /\ reports[3] = run /\ run.at = "return" /\ ~run.raising /\ leg = 3

DefenseInv ==
    /\ tick \in Nat
    /\ \E T : records \in Seq(T)
    /\ \A n \in DOMAIN records : records[n].tick \in Nat
    /\ delivered # {} => Leg = "adversarial"
    /\ DefenseHolds

LeInv == LegInv /\ TornInv /\ CleanInv /\ PlanInv /\ DefenseInv

LEMMA LegNames ==
    /\ LegsOf("delta") = <<"baseline", "scenario", "adversarial">>
    /\ LegsOf("validate") = <<"a">>
    /\ LegsOf("siblings") = <<"a", "b", "a-solver-vs-b", "b-solver-vs-a">>
BY DEF LegsOf

LEMMA LegsDiffer == ASSUME NEW k \in Kinds
    PROVE /\ Len(LegsOf(k)) \in Nat
          /\ \A i, j \in 1..Len(LegsOf(k)) : i # j => LegsOf(k)[i] # LegsOf(k)[j]
          /\ \A i \in 1..Len(LegsOf(k)) :
               /\ LegsOf(k)[i] \in {"scenario", "adversarial", "baseline"} => k = "delta"
               /\ LegsOf(k)[i] = "scenario" => i = 2
               /\ LegsOf(k)[i] = "baseline" => i = 1
               /\ LegsOf(k)[i] = "adversarial" => i = 3
          /\ k = "delta" => Len(LegsOf(k)) = 3 /\ LegsOf(k)[1] = "baseline" /\ LegsOf(k)[2] = "scenario" /\ LegsOf(k)[3] = "adversarial"
<1>1. CASE k = "delta" BY <1>1, LegNames
<1>2. CASE k = "validate" BY <1>2, LegNames
<1>3. CASE k = "siblings"
  <2>1. LegsOf(k) = <<"a", "b", "a-solver-vs-b", "b-solver-vs-a">> BY <1>3, LegNames
  <2>2. 1..4 = {1, 2, 3, 4} OBVIOUS
  <2>3. Len(LegsOf(k)) = 4 BY <2>1
  <2>4. \A i, j \in {1, 2, 3, 4} : i # j => LegsOf(k)[i] # LegsOf(k)[j] BY <2>1
  <2>5. \A i \in {1, 2, 3, 4} : LegsOf(k)[i] \notin {"scenario", "adversarial", "baseline"} BY <2>1
  <2> QED BY <1>3, <2>2, <2>3, <2>4, <2>5
<1> QED BY <1>1, <1>2, <1>3 DEF Kinds

\* What one step inside a leg does to the run of that leg.
GoesTo(r) ==
    /\ session = "running" /\ Leg # "scenario" /\ run.at # "return"
    /\ run' = r /\ r \in RunType /\ r.at # "static" /\ (r.at \in {"build", "up"} => ~r.started)
    /\ r.at \notin {"finally", "return"} => ~r.solved
    /\ UNCHANGED <<job, leg, reports, session>>
PlanStep(r) ==
    job.kind = "delta" /\ job.agent = "scripted" =>
      /\ r.steps <= MaxSteps
      /\ Leg = "baseline" /\ r.solved => SolvedBy(r)
      /\ Leg = "adversarial" /\ ~r.solved /\ r.denied = 0 =>
           /\ NoFlagYet(r)
           /\ r.at \in {"finally", "return"} /\ r.notes = {} /\ ~r.raising => Spent(r)

LEMMA WithinKeeps ==
    ASSUME LeInv, NEW r, GoesTo(r), PlanStep(r),
           up' \subseteq up \cup {Leg},
           ~job.keep /\ ~Dirty => up' = {} \/ (up' = {Leg} /\ (\/ r.started /\ r.at \in {"health", "solve", "finally"}
                                                             \/ ~(r.notes \subseteq {"deadline"}) \/ r.raising)),
           r.at = "return" /\ r.started /\ ~job.keep /\ r.cleanup \notin {"failed", "hung"} => Leg \notin up',
           DefenseInv'
    PROVE  LeInv'
<1> USE DEF LeInv
<1>0. Leg' = Leg BY DEF GoesTo, Leg
<1>1. LegInv'
  BY <1>0 DEF LegInv, GoesTo
<1>2. TornInv'
  <2>1. DOMAIN reports = 1..Len(reports) /\ Len(reports) = leg - 1 /\ leg \in 1..Len(LegsOf(job.kind)) /\ job.kind \in Kinds
        /\ Len(reports) \in Nat
    BY DEF LegInv, GoesTo
  <2>2. ASSUME NEW i \in DOMAIN reports,
               reports[i].started, ~job.keep, reports[i].cleanup \notin {"failed", "hung"}
        PROVE  LegsOf(job.kind)[i] \notin up'
    <3>1. LegsOf(job.kind)[i] \notin up BY <2>2 DEF TornInv, StackTornDown
    <3>2. i \in 1..Len(LegsOf(job.kind)) /\ i # leg BY <2>1, <2>2, LegsDiffer
    <3>3. LegsOf(job.kind)[i] # Leg BY <2>1, <3>2, LegsDiffer DEF Leg
    <3> QED BY <3>1, <3>3
  <2> QED BY <2>2, <1>0 DEF TornInv, StackTornDown, GoesTo
<1>3. CleanInv'
  BY <1>0 DEF CleanInv, GoesTo, Dirty, MayHold
<1>4. PlanInv'
  BY <1>0 DEF PlanInv, PlanStep, GoesTo
<1> QED BY <1>1, <1>2, <1>3, <1>4

LEMMA DefenseSame == ASSUME DefenseInv, UNCHANGED <<records, delivered, tick>>, delivered # {} => Leg' = Leg PROVE DefenseInv'
<1>1. \A n \in DOMAIN records : RespAt(n)' = RespAt(n) /\ Breaks(n)' = Breaks(n) BY DEF RespAt, Breaks
<1> QED BY <1>1 DEF DefenseInv, DefenseHolds

LEMMA OnlyWithin == ASSUME LeInv, session = "running", Leg # "scenario", run.at # "return", NEW r, Only(r), r \in RunType, r.at # "static",
           r.at \in {"build", "up"} => ~r.started, r.at \notin {"finally", "return"} => ~r.solved
    PROVE GoesTo(r) /\ up' = up /\ DefenseInv'
<1>1. UNCHANGED <<job, leg, reports, session, records, delivered, tick>> /\ run' = r /\ up' = up
  BY DEF Only, Keep, simVars
<1>2. Leg' = Leg BY <1>1 DEF Leg
<1> QED BY <1>1, <1>2, DefenseSame DEF GoesTo, LeInv

\* A leg before its solve: nothing has been asked yet.
LEMMA RunFields == ASSUME NEW r \in RunType
    PROVE /\ r.at \in Stages /\ r.started \in BOOLEAN /\ r.solved \in BOOLEAN /\ r.steps \in Nat
          /\ r.notes \subseteq Remarks /\ r.denied \in Nat /\ r.raising \in BOOLEAN
          /\ r.cleanup \in {"none", "down", "failed", "hung"}
BY DEF RunType

\* The forms in which a step leaves the run.
LEMMA MovedOn == ASSUME NEW r \in RunType, NEW s \in Stages, NEW q, q = [r EXCEPT !.at = s]
    PROVE
          /\ q \in RunType /\ q.at = s /\ q.started = r.started /\ q.solved = r.solved /\ q.steps = r.steps
          /\ q.notes = r.notes /\ q.denied = r.denied /\ q.raising = r.raising /\ q.cleanup = r.cleanup
BY DEF RunType
LEMMA NotedForm == ASSUME run \in RunType, NEW w \in Remarks
    PROVE LET q == Noted(w) IN
          /\ q \in RunType /\ q.at = "finally" /\ q.started = run.started /\ q.solved = run.solved /\ q.steps = run.steps
          /\ q.notes = run.notes \cup {w} /\ q.denied = run.denied /\ q.raising = run.raising /\ q.cleanup = run.cleanup
BY DEF RunType, Noted, Stages
LEMMA HungForm == ASSUME run \in RunType
    PROVE /\ Hung \in RunType /\ Hung.at = "finally" /\ Hung.started = run.started /\ Hung.solved = run.solved
          /\ Hung.steps = run.steps /\ Hung.notes = run.notes /\ Hung.denied = run.denied /\ Hung.raising
          /\ Hung.cleanup = run.cleanup
BY DEF RunType, Hung, Stages

\* A step that only moves the run on, notes something or is cut off.
LEMMA QuietStep ==
    ASSUME LeInv, session = "running", Leg # "scenario", run.at \notin {"return", "finally"},
           NEW r \in RunType, Only(r),
           r.at \in Stages \ {"static"},
           r.started = run.started, r.steps = run.steps, r.denied = run.denied,
           r.solved = run.solved, run.notes \subseteq r.notes, run.raising => r.raising,
           r.started => r.at \in {"health", "solve", "finally"} \/ ~(r.notes \subseteq {"deadline"}) \/ r.raising,
           r.at \in {"finally", "return"} => r.notes # {} \/ r.raising,
           r.at \in {"return", "build", "up"} => ~r.started
    PROVE  LeInv'
<1>0. run.at \notin {"finally", "return"} => ~run.solved BY DEF LeInv, LegInv
<1>1. GoesTo(r) /\ up' = up /\ DefenseInv' BY <1>0, OnlyWithin
<1>2. PlanStep(r)
  <2>1. job.kind = "delta" /\ job.agent = "scripted" => run.steps <= MaxSteps BY DEF LeInv, PlanInv
  <2>2. Leg = "baseline" /\ run.solved /\ job.kind = "delta" /\ job.agent = "scripted" => SolvedBy(r)
    BY DEF LeInv, PlanInv, SolvedBy
  <2>3. Leg = "adversarial" /\ ~run.solved /\ run.denied = 0 /\ job.kind = "delta" /\ job.agent = "scripted" => NoFlagYet(r)
    BY DEF LeInv, PlanInv, NoFlagYet
  <2> QED BY <2>1, <2>2, <2>3 DEF PlanStep
<1>3. ~job.keep /\ ~Dirty => up' = {} \/ (up' = {Leg} /\ (\/ r.started /\ r.at \in {"health", "solve", "finally"}
                                                         \/ ~(r.notes \subseteq {"deadline"}) \/ r.raising))
  BY <1>1 DEF LeInv, CleanInv, MayHold
<1>4. up' \subseteq up \cup {Leg} BY <1>1
<1> QED BY <1>1, <1>2, <1>3, <1>4, WithinKeeps

LEMMA StaticKeeps == ASSUME LeInv, validate_challenge PROVE LeInv'
<1>1. session = "running" /\ Leg # "scenario" /\ run.at = "static" /\ run = NewRun /\ run \in RunType
  BY DEF validate_challenge, LegAt, LeInv, LegInv
<1>2. CASE Only([run EXCEPT !.at = "return", !.notes = {"static"}])
  <2>1. PICK r : r = [run EXCEPT !.at = "return", !.notes = {"static"}] OBVIOUS
  <2>2. /\ r \in RunType /\ r.at = "return" /\ r.started = run.started /\ r.solved = run.solved /\ r.steps = run.steps
        /\ r.notes = {"static"} /\ r.denied = run.denied /\ r.raising = run.raising
    BY <2>1, <1>1 DEF RunType, Stages, Remarks
  <2>3. ~run.started /\ run.notes = {} /\ ~run.raising BY <1>1 DEF NewRun
  <2>4. Only(r) BY <1>2, <2>1
  <2> QED BY <1>1, <2>2, <2>3, <2>4, QuietStep DEF Stages
<1>3. CASE Only([run EXCEPT !.at = IF IsEval /\ job.already THEN "solve" ELSE "build"])
  <2>1. PICK s \in {"solve", "build"} : s = IF IsEval /\ job.already THEN "solve" ELSE "build" OBVIOUS
  <2>2. PICK r : r = [run EXCEPT !.at = s] OBVIOUS
  <2>3. /\ r \in RunType /\ r.at = s /\ r.started = run.started /\ r.solved = run.solved /\ r.steps = run.steps
        /\ r.notes = run.notes /\ r.denied = run.denied /\ r.raising = run.raising
    BY <1>1, <2>2, MovedOn DEF Stages
  <2>4. ~run.started BY <1>1 DEF NewRun
  <2>5. Only(r) BY <1>3, <2>1, <2>2
  <2> QED BY <1>1, <2>1, <2>3, <2>4, <2>5, QuietStep DEF Stages
<1> QED BY <1>2, <1>3 DEF validate_challenge

LEMMA NotedKeeps ==
    ASSUME LeInv, session = "running", Leg # "scenario", run.at \notin {"return", "finally"}, NEW w \in Remarks, Only(Noted(w))
    PROVE LeInv'
<1>0. run \in RunType BY DEF LeInv, LegInv
<1>1. PICK r : r = Noted(w) OBVIOUS
<1>2. /\ r \in RunType /\ r.at = "finally" /\ r.started = run.started /\ r.solved = run.solved /\ r.steps = run.steps
      /\ r.notes = run.notes \cup {w} /\ r.denied = run.denied /\ r.raising = run.raising
  BY <1>0, <1>1, NotedForm
<1>3. Only(r) BY <1>1
<1> QED BY <1>2, <1>3, QuietStep DEF Stages
LEMMA HungKeeps ==
    ASSUME LeInv, session = "running", Leg # "scenario", run.at \notin {"return", "finally"}, Only(Hung)
    PROVE LeInv'
<1>0. run \in RunType BY DEF LeInv, LegInv
<1>1. PICK r : r = Hung OBVIOUS
<1>2. /\ r \in RunType /\ r.at = "finally" /\ r.started = run.started /\ r.solved = run.solved /\ r.steps = run.steps
      /\ r.notes = run.notes /\ r.denied = run.denied /\ r.raising
  BY <1>0, <1>1, HungForm
<1>3. Only(r) BY <1>1
<1> QED BY <1>2, <1>3, QuietStep DEF Stages
LEMMA MoveKeeps ==
    ASSUME LeInv, session = "running", Leg # "scenario", run.at \notin {"return", "finally"}, NEW s \in {"up", "solve"},
           Only([run EXCEPT !.at = s]), s = "up" => ~run.started
    PROVE LeInv'
<1>0. run \in RunType BY DEF LeInv, LegInv
<1>1. PICK r : r = [run EXCEPT !.at = s] OBVIOUS
<1>2. /\ r \in RunType /\ r.at = s /\ r.started = run.started /\ r.solved = run.solved /\ r.steps = run.steps
      /\ r.notes = run.notes /\ r.denied = run.denied /\ r.raising = run.raising
  BY <1>0, <1>1, MovedOn DEF Stages
<1>3. Only(r) BY <1>1
<1>4. r.started \in BOOLEAN BY <1>2, RunFields
<1> QED BY <1>2, <1>3, <1>4, QuietStep DEF Stages

LEMMA BuildKeeps == ASSUME LeInv, ComposeBuild PROVE LeInv'
<1>1. session = "running" /\ Leg # "scenario" /\ run.at = "build" /\ ~run.started
  BY DEF ComposeBuild, LegAt, LeInv, LegInv
<1>2. Only([run EXCEPT !.at = "up"]) \/ Only(Noted("command")) \/ Only(Hung) BY DEF ComposeBuild
<1> QED BY <1>1, <1>2, MoveKeeps, NotedKeeps, HungKeeps DEF Remarks

LEMMA HealthKeeps == ASSUME LeInv, _wait_for_health PROVE LeInv'
<1>1. session = "running" /\ Leg # "scenario" /\ run.at = "health" BY DEF _wait_for_health, LegAt
<1>2. Only([run EXCEPT !.at = "solve"]) \/ Only(Noted("timeout")) \/ Only(Hung) BY DEF _wait_for_health, TimedOut
<1> QED BY <1>1, <1>2, MoveKeeps, NotedKeeps, HungKeeps DEF Remarks

LEMMA SolveRaisesKeeps == ASSUME LeInv, SolveRaises PROVE LeInv'
<1>1. session = "running" /\ Leg # "scenario" /\ run.at = "solve" BY DEF SolveRaises, LegAt
<1>2. Only(Noted("timeout")) \/ Only(Hung) BY DEF SolveRaises, TimedOut
<1> QED BY <1>1, <1>2, NotedKeeps, HungKeeps DEF Remarks

LEMMA ScriptKeeps == ASSUME LeInv, SolverScript PROVE LeInv'
<1>1. session = "running" /\ Leg # "scenario" /\ run.at = "solve" /\ Leg \notin {"baseline", "adversarial"}
  BY DEF SolverScript, LegAt, IsEval
<1>2. CASE Only(Noted("command")) \/ Only(Hung)
  BY <1>1, <1>2, NotedKeeps, HungKeeps DEF Remarks
<1>3. CASE Only([run EXCEPT !.at = "finally", !.solved = TRUE])
  <2>0. run \in RunType BY DEF LeInv, LegInv
  <2>1. PICK r : r = [run EXCEPT !.at = "finally", !.solved = TRUE] OBVIOUS
  <2>2. /\ r \in RunType /\ r.at = "finally" /\ r.started = run.started /\ r.solved /\ r.steps = run.steps
        /\ r.notes = run.notes /\ r.denied = run.denied /\ r.raising = run.raising /\ r.cleanup = run.cleanup
    BY <2>0, <2>1 DEF RunType, Stages
  <2>3. Only(r) BY <1>3, <2>1
  <2>4. GoesTo(r) /\ up' = up /\ DefenseInv' BY <1>1, <2>2, <2>3, OnlyWithin
  <2>5. job.kind # "delta"
    BY <1>1, LegsDiffer DEF LeInv, LegInv, Leg
  <2>6. PlanStep(r) BY <2>5 DEF PlanStep
  <2>7. ~job.keep /\ ~Dirty => up' = {} \/ (up' = {Leg} /\ (\/ r.started /\ r.at \in {"health", "solve", "finally"}
                                                         \/ ~(r.notes \subseteq {"deadline"}) \/ r.raising))
    BY <1>1, <2>2, <2>4 DEF LeInv, CleanInv, MayHold
  <2> QED BY <2>2, <2>4, <2>6, <2>7, WithinKeeps
<1> QED BY <1>2, <1>3 DEF SolverScript

LEMMA UpKeeps == ASSUME LeInv, ComposeUp PROVE LeInv'
<1>1. session = "running" /\ Leg # "scenario" /\ run.at = "up" /\ ~run.started /\ run \in RunType
  BY DEF ComposeUp, LegAt, LeInv, LegInv
<1>2. UNCHANGED <<job, leg, reports, session, records, delivered, tick>> BY DEF ComposeUp, Keep, simVars
<1>a. DefenseInv' BY <1>2, DefenseSame DEF LeInv, Leg
<1>3. up' \subseteq up \cup {Leg} /\ (up = {} => up' \in {{}, {Leg}}) /\ (up # {} => up' = up)
  BY DEF ComposeUp, _project_name
<1>b. \/ run' = [run EXCEPT !.at = "health", !.started = TRUE]
      \/ run' = Noted("command") \/ run' = Hung
  BY DEF ComposeUp
<1>4. PICK r : r = run' OBVIOUS
<1>5. /\ r \in RunType /\ r.at \in {"health", "finally"} /\ r.solved = run.solved /\ r.steps = run.steps
      /\ r.denied = run.denied /\ run.notes \subseteq r.notes
      /\ \/ r.started /\ r.at = "health"
         \/ ~(r.notes \subseteq {"deadline"})
         \/ r.raising
  <2>1. CASE r = [run EXCEPT !.at = "health", !.started = TRUE]
    <3>1. /\ r \in RunType /\ r.at = "health" /\ r.solved = run.solved /\ r.steps = run.steps
          /\ r.denied = run.denied /\ r.notes = run.notes /\ r.started
      BY <1>1, <2>1 DEF RunType, Stages
    <3> QED BY <3>1
  <2>2. CASE r = Noted("command")
    <3>1. /\ r \in RunType /\ r.at = "finally" /\ r.solved = run.solved /\ r.steps = run.steps
          /\ r.denied = run.denied /\ r.notes = run.notes \cup {"command"}
      BY <1>1, <2>2, NotedForm DEF Remarks
    <3> QED BY <3>1
  <2>3. CASE r = Hung
    <3>1. /\ r \in RunType /\ r.at = "finally" /\ r.solved = run.solved /\ r.steps = run.steps
          /\ r.denied = run.denied /\ r.notes = run.notes /\ r.raising
      BY <1>1, <2>3, HungForm
    <3> QED BY <3>1
  <2> QED BY <1>b, <1>4, <2>1, <2>2, <2>3
<1>9. ~run.solved BY <1>1 DEF LeInv, LegInv
<1>6. GoesTo(r) BY <1>1, <1>2, <1>4, <1>5, <1>9 DEF GoesTo
<1>7. PlanStep(r)
  <2>1. job.kind = "delta" /\ job.agent = "scripted" => run.steps <= MaxSteps BY DEF LeInv, PlanInv
  <2>2. Leg = "baseline" /\ run.solved /\ job.kind = "delta" /\ job.agent = "scripted" => SolvedBy(r)
    BY <1>5 DEF LeInv, PlanInv, SolvedBy
  <2>3. Leg = "adversarial" /\ ~run.solved /\ run.denied = 0 /\ job.kind = "delta" /\ job.agent = "scripted" => NoFlagYet(r)
    BY <1>5 DEF LeInv, PlanInv, NoFlagYet
  <2>4. r.at = "finally" => r.notes # {} \/ r.raising BY <1>5
  <2> QED BY <1>5, <2>1, <2>2, <2>3, <2>4 DEF PlanStep
<1>8. ~job.keep /\ ~Dirty => up' = {} \/ (up' = {Leg} /\ (\/ r.started /\ r.at \in {"health", "solve", "finally"}
                                                         \/ ~(r.notes \subseteq {"deadline"}) \/ r.raising))
  BY <1>1, <1>3, <1>5 DEF LeInv, CleanInv
<1> QED BY <1>3, <1>5, <1>6, <1>7, <1>8, <1>a, WithinKeeps

LEMMA EndsKeeps == ASSUME LeInv, SolveEnds PROVE LeInv'
<1>1. session = "running" /\ Leg # "scenario" /\ run.at = "solve" BY DEF SolveEnds, LegAt
<1>2. CASE Only(Noted("deadline")) BY <1>1, <1>2, NotedKeeps DEF Remarks
<1>3. CASE (run.steps = MaxSteps \/ NextPaths = {} \/ job.agent = "llm") /\ Only([run EXCEPT !.at = "finally"])
  <2>0. run \in RunType BY DEF LeInv, LegInv
  <2>1. PICK r : r = [run EXCEPT !.at = "finally"] OBVIOUS
  <2>2. /\ r \in RunType /\ r.at = "finally" /\ r.started = run.started /\ r.solved = run.solved /\ r.steps = run.steps
        /\ r.notes = run.notes /\ r.denied = run.denied /\ r.raising = run.raising /\ r.cleanup = run.cleanup
    BY <2>0, <2>1 DEF RunType, Stages
  <2>3. Only(r) BY <1>3, <2>1
  <2>4. GoesTo(r) /\ up' = up /\ DefenseInv' BY <1>1, <2>2, <2>3, OnlyWithin
  <2>5. PlanStep(r)
    <3>1. job.agent = "scripted" => Spent(r)
      <4>1. ASSUME job.agent = "scripted", NextPaths = {} PROVE r.steps >= Len(SolvePlan)
        <5>1. run.steps \in Nat /\ Len(SolvePlan) \in Nat BY <2>0, StepsAssumption, RunFields
        <5>2. ~(run.steps < Len(SolvePlan)) BY <4>1 DEF NextPaths
        <5> QED BY <5>1, <5>2, <2>2
      <4> QED BY <4>1, <1>3, <2>2 DEF Spent
    <3>2. job.kind = "delta" /\ job.agent = "scripted" => run.steps <= MaxSteps BY DEF LeInv, PlanInv
    <3>3. Leg = "baseline" /\ run.solved /\ job.kind = "delta" /\ job.agent = "scripted" => SolvedBy(r)
      BY <2>2 DEF LeInv, PlanInv, SolvedBy
    <3>4. Leg = "adversarial" /\ ~run.solved /\ run.denied = 0 /\ job.kind = "delta" /\ job.agent = "scripted" => NoFlagYet(r)
      BY <2>2 DEF LeInv, PlanInv, NoFlagYet
    <3> QED BY <2>2, <3>1, <3>2, <3>3, <3>4 DEF PlanStep
  <2>7. ~job.keep /\ ~Dirty => up' = {} \/ (up' = {Leg} /\ (\/ r.started /\ r.at \in {"health", "solve", "finally"}
                                                         \/ ~(r.notes \subseteq {"deadline"}) \/ r.raising))
    BY <1>1, <2>2, <2>4 DEF LeInv, CleanInv, MayHold
  <2> QED BY <2>2, <2>4, <2>5, <2>7, WithinKeeps
<1> QED BY <1>2, <1>3 DEF SolveEnds

LEMMA AskKeeps == ASSUME LeInv, SolveStep PROVE LeInv'
<1>1. session = "running" /\ Leg # "scenario" /\ run.at = "solve" /\ run \in RunType /\ run.steps < MaxSteps /\ ~run.solved
  BY DEF SolveStep, LegAt, LeInv, LegInv
<1>2. UNCHANGED <<job, leg, reports, session, records, tick, up>> BY DEF SolveStep, Keep, simVars
<1>3. Leg' = Leg BY <1>2 DEF Leg
<1>4. run.steps \in Nat /\ run.denied \in Nat /\ MaxSteps \in Nat /\ Len(SolvePlan) \in Nat BY <1>1, RunFields, StepsAssumption
<1>5. PICK sent : sent = [run EXCEPT !.steps = @ + 1] OBVIOUS
<1>6. PICK path \in NextPaths :
          IF Denied(path)
          THEN run' = [sent EXCEPT !.denied = @ + 1] /\ delivered' = delivered
          ELSE /\ run' = IF path \in FlagPaths THEN [sent EXCEPT !.solved = TRUE, !.at = "finally"] ELSE sent
               /\ delivered' = IF Leg = "adversarial" THEN delivered \cup {<<path, run.steps>>} ELSE delivered
  BY <1>5 DEF SolveStep
<1>7. /\ sent \in RunType /\ sent.at = "solve" /\ sent.started = run.started /\ sent.solved = run.solved
      /\ sent.steps = run.steps + 1 /\ sent.notes = run.notes /\ sent.denied = run.denied
      /\ sent.raising = run.raising /\ sent.cleanup = run.cleanup
  BY <1>1, <1>4, <1>5 DEF RunType
<1>8. PICK r : r = run' OBVIOUS
<1>9. /\ r \in RunType /\ r.at \in {"solve", "finally"} /\ r.started = run.started /\ r.steps = run.steps + 1
      /\ r.notes = run.notes /\ r.raising = run.raising
      /\ IF Denied(path) THEN r.denied = run.denied + 1 /\ ~r.solved /\ r.at = "solve"
         ELSE /\ r.denied = run.denied
              /\ IF path \in FlagPaths THEN r.solved /\ r.at = "finally" ELSE ~r.solved /\ r.at = "solve"
  <2>1. CASE Denied(path)
    <3>1. r = [sent EXCEPT !.denied = @ + 1] BY <1>6, <1>8, <2>1
    <3>2. /\ r \in RunType /\ r.at = "solve" /\ r.started = sent.started /\ r.steps = sent.steps /\ r.solved = sent.solved
          /\ r.notes = sent.notes /\ r.raising = sent.raising /\ r.denied = sent.denied + 1
      BY <1>4, <1>7, <3>1 DEF RunType
    <3> QED BY <1>1, <1>7, <2>1, <3>2
  <2>2. CASE ~Denied(path) /\ path \in FlagPaths
    <3>1. r = [sent EXCEPT !.solved = TRUE, !.at = "finally"] BY <1>6, <1>8, <2>2
    <3>2. /\ r \in RunType /\ r.at = "finally" /\ r.started = sent.started /\ r.steps = sent.steps /\ r.solved
          /\ r.notes = sent.notes /\ r.raising = sent.raising /\ r.denied = sent.denied
      BY <1>7, <3>1 DEF RunType, Stages
    <3> QED BY <1>1, <1>7, <2>2, <3>2
  <2>3. CASE ~Denied(path) /\ path \notin FlagPaths
    <3>1. r = sent BY <1>6, <1>8, <2>3
    <3> QED BY <1>1, <1>7, <2>3, <3>1
  <2> QED BY <2>1, <2>2, <2>3
<1>10. GoesTo(r) BY <1>1, <1>2, <1>8, <1>9 DEF GoesTo
<1>11. PlanStep(r)
  <2> SUFFICES ASSUME job.kind = "delta", job.agent = "scripted" PROVE
      /\ r.steps <= MaxSteps
      /\ Leg = "baseline" /\ r.solved => SolvedBy(r)
      /\ Leg = "adversarial" /\ ~r.solved /\ r.denied = 0 =>
           /\ NoFlagYet(r)
           /\ r.at \in {"finally", "return"} /\ r.notes = {} /\ ~r.raising => Spent(r)
    BY DEF PlanStep
  <2>1. path = SolvePlan[run.steps + 1] /\ run.steps < Len(SolvePlan) BY DEF NextPaths
  <2>2. r.steps <= MaxSteps /\ r.steps \in 1..Len(SolvePlan) BY <1>1, <1>4, <1>9, <2>1
  <2>3. r.solved => SolvedBy(r) BY <1>9, <2>1, <2>2 DEF SolvedBy
  <2>4. ASSUME Leg = "adversarial", ~r.solved, r.denied = 0 PROVE NoFlagYet(r) /\ r.at = "solve"
    <3>1. ~Denied(path) /\ run.denied = 0 /\ path \notin FlagPaths /\ r.at = "solve" BY <1>4, <1>9, <2>4
    <3>2. NoFlagYet(run) BY <1>1, <2>4, <3>1 DEF LeInv, PlanInv
    <3>3. \A i \in 1..Len(SolvePlan) : i <= r.steps => i <= run.steps \/ i = run.steps + 1 BY <1>4, <1>9
    <3> QED BY <3>1, <3>2, <3>3, <2>1 DEF NoFlagYet
  <2> QED BY <2>2, <2>3, <2>4
<1>12. ~job.keep /\ ~Dirty => up' = {} \/ (up' = {Leg} /\ (\/ r.started /\ r.at \in {"health", "solve", "finally"}
                                                         \/ ~(r.notes \subseteq {"deadline"}) \/ r.raising))
  BY <1>1, <1>2, <1>9 DEF LeInv, CleanInv, MayHold
<1>13. DefenseInv'
  <2>1. CASE delivered' = delivered BY <1>2, <1>3, <2>1, DefenseSame DEF LeInv
  <2>2. CASE Leg = "adversarial" /\ ~Denied(path) /\ delivered' = delivered \cup {<<path, run.steps>>}
    <3>0. DefenseInv BY DEF LeInv
    <3>1. ASSUME NEW n \in DOMAIN records, Breaks(n), RespAt(n).target \in Touches[path] PROVE run.steps < records[n].tick
      <4>1. PICK t : t = RespAt(n).target OBVIOUS
      <4>2. records[n].tick \in BrokenOf(t) BY <3>1, <4>1 DEF BrokenOf
      <4>3. BrokenOf(t) \subseteq Nat BY <3>0 DEF BrokenOf, DefenseInv
      <4>4. \E x \in BrokenOf(t) : \A u \in BrokenOf(t) : x <= u BY <4>2, <4>3, LeastNatural
      <4>5. BrokenAt(t) \in BrokenOf(t) /\ \A u \in BrokenOf(t) : BrokenAt(t) <= u BY <4>4 DEF BrokenAt
      <4>6. ~(run.steps >= BrokenAt(t)) BY <2>2, <3>1, <4>1, <4>2 DEF Denied
      <4>7. BrokenAt(t) \in Nat /\ records[n].tick \in Nat /\ BrokenAt(t) <= records[n].tick BY <4>2, <4>3, <4>5
      <4> HIDE DEF BrokenAt
      <4> QED BY <1>4, <4>6, <4>7
    <3>2. \A n \in DOMAIN records : RespAt(n)' = RespAt(n) /\ Breaks(n)' = Breaks(n) BY <1>2 DEF RespAt, Breaks
    <3>3. ASSUME NEW d \in delivered', NEW n \in DOMAIN records, Breaks(n), RespAt(n).target \in Touches[d[1]]
          PROVE  d[2] < records[n].tick
      <4>1. CASE d \in delivered BY <3>0, <3>3, <4>1 DEF DefenseInv, DefenseHolds
      <4>2. CASE d = <<path, run.steps>> BY <3>1, <3>3, <4>2
      <4> QED BY <2>2, <4>1, <4>2
    <3>4. DefenseHolds' BY <1>2, <3>2, <3>3 DEF DefenseHolds
    <3> QED BY <1>2, <1>3, <2>2, <3>0, <3>4 DEF DefenseInv
  <2> QED BY <1>6, <2>1, <2>2
<1>14. up' \subseteq up \cup {Leg} BY <1>2
<1>15. r.at # "return" BY <1>9
<1> QED BY <1>10, <1>11, <1>12, <1>13, <1>14, <1>15, WithinKeeps

LEMMA FinallyKeeps == ASSUME LeInv, Finally PROVE LeInv'
<1>1. session = "running" /\ Leg # "scenario" /\ run.at = "finally" /\ run \in RunType
  BY DEF Finally, LegAt, LeInv, LegInv
<1>2. UNCHANGED <<job, leg, reports, session, records, tick, delivered>> BY DEF Finally, Keep, simVars
<1>3. DefenseInv' BY <1>2, DefenseSame DEF LeInv, Leg
<1>4. PICK r : r = run' OBVIOUS
<1>5. /\ r \in RunType /\ r.at = "return" /\ r.started = run.started /\ r.solved = run.solved /\ r.steps = run.steps
      /\ r.denied = run.denied /\ run.notes \subseteq r.notes /\ (run.raising => r.raising)
      /\ \/ ~MustTearDown /\ up' = up /\ r.notes = run.notes
         \/ MustTearDown /\ up' = up \ {Leg}
         \/ MustTearDown /\ up' = up /\ r.cleanup \in {"failed", "hung"} /\ ("cleanup" \in r.notes \/ r.raising)
  <2>1. CASE run' = [run EXCEPT !.at = "return"] /\ ~MustTearDown /\ up' = up
    <3>1. /\ r \in RunType /\ r.at = "return" /\ r.started = run.started /\ r.solved = run.solved /\ r.steps = run.steps
          /\ r.denied = run.denied /\ r.notes = run.notes /\ r.raising = run.raising
      BY <1>1, <1>4, <2>1 DEF RunType, Stages
    <3> QED BY <2>1, <3>1
  <2>2. CASE run' = [run EXCEPT !.at = "return", !.cleanup = "down"] /\ MustTearDown /\ up' = up \ {_project_name}
    <3>1. /\ r \in RunType /\ r.at = "return" /\ r.started = run.started /\ r.solved = run.solved /\ r.steps = run.steps
          /\ r.denied = run.denied /\ r.notes = run.notes /\ r.raising = run.raising
      BY <1>1, <1>4, <2>2 DEF RunType, Stages
    <3> QED BY <2>2, <3>1 DEF _project_name
  <2>3. CASE run' = NotedCleanup /\ MustTearDown /\ up' = up
    <3>1. /\ r \in RunType /\ r.at = "return" /\ r.started = run.started /\ r.solved = run.solved /\ r.steps = run.steps
          /\ r.denied = run.denied /\ r.notes = run.notes \cup {"cleanup"} /\ r.raising = run.raising /\ r.cleanup = "failed"
      BY <1>1, <1>4, <2>3 DEF RunType, Stages, Remarks, NotedCleanup
    <3> QED BY <2>3, <3>1
  <2>4. CASE run' = [run EXCEPT !.at = "return", !.cleanup = "hung", !.raising = TRUE] /\ MustTearDown /\ up' = up
    <3>1. /\ r \in RunType /\ r.at = "return" /\ r.started = run.started /\ r.solved = run.solved /\ r.steps = run.steps
          /\ r.denied = run.denied /\ r.notes = run.notes /\ r.raising /\ r.cleanup = "hung"
      BY <1>1, <1>4, <2>4 DEF RunType, Stages
    <3> QED BY <2>4, <3>1
  <2> QED BY <2>1, <2>2, <2>3, <2>4 DEF Finally
<1>6. GoesTo(r) BY <1>1, <1>2, <1>4, <1>5 DEF GoesTo
<1>7. PlanStep(r)
  <2>1. job.kind = "delta" /\ job.agent = "scripted" => run.steps <= MaxSteps BY DEF LeInv, PlanInv
  <2>2. Leg = "baseline" /\ run.solved /\ job.kind = "delta" /\ job.agent = "scripted" => SolvedBy(r)
    BY <1>5 DEF LeInv, PlanInv, SolvedBy
  <2>3. Leg = "adversarial" /\ ~run.solved /\ run.denied = 0 /\ job.kind = "delta" /\ job.agent = "scripted"
          => NoFlagYet(r) /\ (run.notes = {} /\ ~run.raising => Spent(r))
    BY <1>1, <1>5 DEF LeInv, PlanInv, NoFlagYet, Spent
  <2>4. r.notes = {} /\ ~r.raising => run.notes = {} /\ ~run.raising BY <1>5
  <2> QED BY <1>5, <2>1, <2>2, <2>3, <2>4 DEF PlanStep
<1>8. ~job.keep /\ ~Dirty => up' = {} \/ (up' = {Leg} /\ (\/ r.started /\ r.at \in {"health", "solve", "finally"}
                                                         \/ ~(r.notes \subseteq {"deadline"}) \/ r.raising))
  <2> SUFFICES ASSUME ~job.keep, ~Dirty PROVE up' = {} \/ (up' = {Leg} /\ (~(r.notes \subseteq {"deadline"}) \/ r.raising))
    OBVIOUS
  <2>1. up = {} \/ (up = {Leg} /\ MayHold) BY <1>1 DEF LeInv, CleanInv
  <2>2. CASE ~MustTearDown BY <1>5, <2>1, <2>2 DEF MustTearDown, MayHold
  <2>3. CASE MustTearDown /\ up' = up \ {Leg} BY <2>1, <2>3
  <2>4. CASE up' = up /\ ("cleanup" \in r.notes \/ r.raising) BY <2>1, <2>4
  <2> QED BY <1>5, <2>2, <2>3, <2>4
<1>9. up' \subseteq up \cup {Leg} BY <1>5
<1>10. r.started /\ ~job.keep /\ r.cleanup \notin {"failed", "hung"} => Leg \notin up' BY <1>5 DEF MustTearDown
<1> QED BY <1>3, <1>6, <1>7, <1>8, <1>9, <1>10, WithinKeeps

LEMMA ReportAdded == ASSUME LegInv, NEW q \in RunType, session = "running", reports' = Append(reports, q)
    PROVE /\ reports' \in Seq(RunType) /\ Len(reports') = leg /\ leg \in Nat /\ leg >= 1 /\ Len(reports) = leg - 1
          /\ DOMAIN reports' = 1..leg /\ DOMAIN reports = 1..(leg - 1)
          /\ \A i \in DOMAIN reports : reports'[i] = reports[i]
          /\ reports'[leg] = q
<1>1. reports \in Seq(RunType) /\ Len(reports) = leg - 1 /\ Len(reports) \in Nat /\ DOMAIN reports = 1..Len(reports)
  BY DEF LegInv
<1>2. leg \in Nat /\ leg >= 1 /\ Len(reports) + 1 = leg
  <2>1. leg \in 1..Len(LegsOf(job.kind)) /\ Len(LegsOf(job.kind)) \in Nat BY LegsDiffer DEF LegInv
  <2> QED BY <1>1, <2>1
<1>3. /\ reports' \in Seq(RunType) /\ Len(reports') = Len(reports) + 1
      /\ \A i \in 1..Len(reports) : reports'[i] = reports[i]
      /\ reports'[Len(reports) + 1] = q
  BY <1>1, AppendProperties
<1> QED BY <1>1, <1>2, <1>3

LEMMA TornKept == ASSUME LeInv, session = "running", NEW q \in RunType, reports' = Append(reports, q),
                         UNCHANGED <<job, up>>, q.started /\ ~job.keep /\ q.cleanup \notin {"failed", "hung"} => Leg \notin up
                  PROVE StackTornDown'
<1>1. LegInv /\ StackTornDown BY DEF LeInv, TornInv
<1>2. /\ DOMAIN reports' = 1..leg /\ DOMAIN reports = 1..(leg - 1) /\ leg \in Nat
      /\ \A i \in DOMAIN reports : reports'[i] = reports[i]
      /\ reports'[leg] = q
  BY <1>1, ReportAdded
<1>3. \A i \in DOMAIN reports' : i \in DOMAIN reports \/ i = leg BY <1>2
<1> QED BY <1>1, <1>2, <1>3 DEF StackTornDown, Leg

LEMMA NewRunFacts == /\ NewRun \in RunType /\ NewRun.at = "static" /\ ~NewRun.started /\ ~NewRun.solved /\ NewRun.steps = 0
                     /\ NewRun.notes = {} /\ NewRun.denied = 0 /\ ~NewRun.raising
BY DEF NewRun, RunType, Stages, Remarks

LEMMA LegEndsKeeps == ASSUME LeInv, LegEnds PROVE LeInv'
<1>1. session = "running" /\ Leg # "scenario" /\ run.at = "return" /\ run \in RunType /\ reports' = Append(reports, run)
      /\ job.kind \in Kinds /\ leg \in 1..Len(LegsOf(job.kind)) /\ Len(LegsOf(job.kind)) \in Nat
  BY LegsDiffer DEF LegEnds, LegAt, LeInv, LegInv
<1>2. UNCHANGED <<job, up, delivered, tick, records>> BY DEF LegEnds, Keep, simVars
<1>3. /\ reports' \in Seq(RunType) /\ Len(reports') = leg /\ leg \in Nat /\ leg >= 1 /\ Len(reports) = leg - 1
      /\ DOMAIN reports' = 1..leg /\ DOMAIN reports = 1..(leg - 1)
      /\ \A i \in DOMAIN reports : reports'[i] = reports[i]
      /\ reports'[leg] = run
  BY <1>1, ReportAdded DEF LeInv
<1>4. StackTornDown' BY <1>1, <1>2, TornKept DEF LeInv, TornInv
<1>5. ~job.keep /\ ~Dirty' /\ ~run.raising => up = {}
  <2> SUFFICES ASSUME ~job.keep, ~Dirty', ~run.raising PROVE up = {} OBVIOUS
  <2>1. ~Dirty BY <1>3 DEF Dirty
  <2>2. run.notes \subseteq {"deadline"} BY <1>3 DEF Dirty
  <2> QED BY <1>1, <2>1, <2>2 DEF LeInv, CleanInv, MayHold
<1>6. job.kind = "delta" /\ job.agent = "scripted" /\ Len(reports') >= 1 /\ reports'[1].solved => SolvedBy(reports'[1])
  <2> SUFFICES ASSUME job.kind = "delta", job.agent = "scripted", reports'[1].solved PROVE SolvedBy(reports'[1]) OBVIOUS
  <2>1. CASE leg = 1
    <3>1. Leg = "baseline" /\ reports'[1] = run BY <1>1, <1>3, <2>1, LegsDiffer DEF Leg
    <3> QED BY <3>1 DEF LeInv, PlanInv
  <2>2. CASE leg # 1
    <3>1. Len(reports) >= 1 /\ 1 \in DOMAIN reports BY <1>3, <2>2
    <3>2. reports'[1] = reports[1] BY <1>3, <3>1
    <3> QED BY <3>1, <3>2 DEF LeInv, PlanInv
  <2> QED BY <2>1, <2>2
<1>7. CASE ~run.raising /\ MoreLegs
  <2>1. leg' = leg + 1 /\ run' = NewRun /\ session' = "running" /\ leg < Len(LegsOf(job.kind))
    BY <1>1, <1>7 DEF LegEnds, MoreLegs
  <2>2. LegInv'
    <3>1. leg' \in 1..Len(LegsOf(job.kind)) BY <1>1, <1>3, <2>1
    <3> QED BY <1>1, <1>2, <1>3, <2>1, <3>1, NewRunFacts DEF LegInv
  <2>3. TornInv' BY <1>4, <2>1, NewRunFacts DEF TornInv
  <2>4. CleanInv' BY <1>2, <1>5, <1>7 DEF CleanInv
  <2>5. PlanInv'
    <3>1. 0 <= MaxSteps /\ \A i \in 1..Len(SolvePlan) : ~(i <= 0) BY StepsAssumption
    <3>2. NoFlagYet(run') BY <2>1, <3>1, NewRunFacts DEF NoFlagYet
    <3> QED BY <1>2, <1>6, <2>1, <3>1, <3>2, NewRunFacts DEF PlanInv
  <2>6. DefenseInv'
    <3>1. delivered = {}
      <4>1. SUFFICES ASSUME delivered # {} PROVE FALSE OBVIOUS
      <4>2. Leg = "adversarial" BY <4>1 DEF LeInv, DefenseInv
      <4> QED BY <1>1, <2>1, <4>2, LegsDiffer DEF Leg
    <3> QED BY <1>2, <3>1, DefenseSame DEF LeInv
  <2> QED BY <2>2, <2>3, <2>4, <2>5, <2>6 DEF LeInv
<1>8. CASE ~(~run.raising /\ MoreLegs)
  <2>1. leg' = leg /\ run' = run /\ session' = IF run.raising THEN "raised" ELSE "returned" BY <1>8 DEF LegEnds
  <2>2. Leg' = Leg BY <1>2, <2>1 DEF Leg
  <2>3. LegInv'
    <3>1. session' \in {"returned", "raised"} BY <2>1
    <3> QED BY <1>1, <1>2, <1>3, <2>1, <2>2, <3>1 DEF LeInv, LegInv
  <2>4. TornInv' BY <1>2, <1>4, <2>1, <2>2 DEF LeInv, TornInv
  <2>5. CleanInv' BY <1>2, <1>5, <2>1 DEF CleanInv
  <2>6. PlanInv'
    <3> SUFFICES ASSUME job.kind = "delta", job.agent = "scripted" PROVE PlanInv' BY <1>2 DEF PlanInv
    <3>1. session' = "returned" => leg = 3 /\ ~run.raising
      <4>1. session' = "returned" => ~run.raising /\ ~MoreLegs BY <1>8, <2>1
      <4>2. ~MoreLegs => ~(leg < Len(LegsOf(job.kind))) BY DEF MoreLegs
      <4>3. Len(LegsOf(job.kind)) = 3 BY <1>1, LegsDiffer
      <4>4. leg \in 1..3 BY <1>1, <4>3
      <4> QED BY <4>1, <4>2, <4>3, <4>4
    <3>2. session' = "returned" => Len(reports') = 3 /\ reports'[3] = run BY <1>3, <3>1
    <3> QED BY <1>1, <1>2, <1>6, <2>1, <2>2, <3>1, <3>2 DEF LeInv, PlanInv, NoFlagYet, Spent, SolvedBy
  <2>7. DefenseInv' BY <1>2, <2>2, DefenseSame DEF LeInv
  <2> QED BY <2>3, <2>4, <2>5, <2>6, <2>7 DEF LeInv
<1> QED BY <1>7, <1>8

LEMMA SimTicks == ASSUME SimNext, tick \in Nat, NEW T, records \in Seq(T), \A n \in DOMAIN records : records[n].tick \in Nat
    PROVE /\ tick' \in Nat
          /\ \E U : records' \in Seq(U)
          /\ \A n \in DOMAIN records' : records'[n].tick \in Nat
<1>1. ASSUME NEW role, NextTurn(role) PROVE tick' \in Nat BY <1>1 DEF NextTurn
<1>2. ASSUME PollTurn PROVE UNCHANGED <<tick, records>> BY <1>2 DEF PollTurn
<1>3. ASSUME NEW role, NEW applying, NEW raises, NEW decided, Decide(role, applying, raises, decided)
      PROVE tick' \in Nat /\ records' = records
  BY <1>1, <1>3 DEF Decide
<1>4. ASSUME NEW role, NEW applying, _apply_responses(role, applying)
      PROVE /\ tick' \in Nat
            /\ \/ records' = records
               \/ \E r : records' = Append(records, [tick |-> tick, role |-> role, resp |-> r])
  BY <1>1, <1>4 DEF _apply_responses
<1>5. tick' \in Nat /\ (records' = records \/ \E role, r : records' = Append(records, [tick |-> tick, role |-> role, resp |-> r]))
  BY <1>2, <1>3, <1>4 DEF SimNext, AttackerDecides, AttackerApplies, DefenderDecides, DefenderApplies
<1>6. CASE records' = records BY <1>5, <1>6
<1>7. CASE \E role, r : records' = Append(records, [tick |-> tick, role |-> role, resp |-> r])
  <2>1. PICK q : records' = Append(records, q) /\ q.tick = tick BY <1>7
  <2>2. records \in Seq(T \cup {q})
    <3>1. DOMAIN records = 1..Len(records) /\ Len(records) \in Nat /\ records \in [1..Len(records) -> T] BY LenProperties
    <3>2. records \in [1..Len(records) -> T \cup {q}] BY <3>1
    <3> QED BY <3>1, <3>2, SeqDef
  <2>3. /\ records' \in Seq(T \cup {q}) /\ Len(records') = Len(records) + 1
        /\ \A i \in 1..Len(records) : records'[i] = records[i]
        /\ records'[Len(records) + 1] = q
    BY <2>1, <2>2, AppendProperties
  <2>4. DOMAIN records' = 1..(Len(records) + 1) /\ DOMAIN records = 1..Len(records) /\ Len(records) \in Nat
    BY <2>2, <2>3, LenProperties
  <2>5. \A n \in DOMAIN records' : n \in DOMAIN records \/ n = Len(records) + 1 BY <2>4
  <2> QED BY <1>5, <2>1, <2>3, <2>4, <2>5
<1> QED BY <1>5, <1>6, <1>7

LEMMA ScenarioKeeps == ASSUME LeInv, ScenarioLeg PROVE LeInv'
<1>1. session = "running" /\ Leg = "scenario" /\ run = NewRun /\ delivered = {}
  BY DEF ScenarioLeg, LeInv, LegInv, DefenseInv
<1>2. job.kind = "delta" /\ leg = 2 /\ Len(LegsOf(job.kind)) = 3 /\ LegsOf(job.kind)[3] = "adversarial"
  BY <1>1, LegsDiffer DEF LeInv, LegInv, Leg
<1>3. CASE SimNext /\ UNCHANGED leVars
  <2>1. UNCHANGED <<job, leg, run, reports, up, delivered, session>> BY <1>3 DEF leVars
  <2>2. Leg' = Leg BY <2>1 DEF Leg
  <2>3. LegInv' BY <2>1, <2>2 DEF LeInv, LegInv
  <2>4. TornInv' BY <2>1, <2>2 DEF LeInv, TornInv, StackTornDown
  <2>5. CleanInv' BY <2>1, <2>2 DEF LeInv, CleanInv, Dirty, MayHold
  <2>6. PlanInv' BY <2>1, <2>2 DEF LeInv, PlanInv
  <2>7. PICK T : records \in Seq(T) BY DEF LeInv, DefenseInv
  <2>8. tick' \in Nat /\ (\E U : records' \in Seq(U)) /\ \A n \in DOMAIN records' : records'[n].tick \in Nat
    BY <1>3, <2>7, SimTicks DEF LeInv, DefenseInv
  <2>9. DefenseInv' BY <1>1, <2>1, <2>8 DEF DefenseInv, DefenseHolds
  <2> QED BY <2>3, <2>4, <2>5, <2>6, <2>9 DEF LeInv
<1>4. CASE /\ leg' = leg + 1
           /\ reports' = Append(reports, NewRun)
           /\ UNCHANGED <<job, run, up, delivered, session, simVars>>
  <2>0. UNCHANGED <<records, tick>> BY <1>4 DEF simVars
  <2>1. /\ reports' \in Seq(RunType) /\ Len(reports') = leg /\ Len(reports) = leg - 1
        /\ DOMAIN reports' = 1..leg /\ DOMAIN reports = 1..(leg - 1)
        /\ \A i \in DOMAIN reports : reports'[i] = reports[i]
        /\ reports'[leg] = NewRun
    BY <1>1, <1>4, ReportAdded, NewRunFacts DEF LeInv
  <2>2. Leg' = "adversarial" /\ leg' = 3 BY <1>2, <1>4 DEF Leg
  <2>3. LegInv' BY <1>1, <1>2, <1>4, <2>1, <2>2, NewRunFacts DEF LeInv, LegInv
  <2>4. TornInv'
    <3>1. StackTornDown' BY <1>1, <1>4, TornKept, NewRunFacts
    <3> QED BY <1>1, <1>4, <3>1, NewRunFacts DEF TornInv
  <2>5. CleanInv'
    <3>1. ~Dirty' => ~Dirty BY <1>2, <2>1 DEF Dirty
    <3>2. ~MayHold BY <1>1, NewRunFacts DEF MayHold
    <3> QED BY <1>1, <1>4, <3>1, <3>2 DEF LeInv, CleanInv
  <2>6. PlanInv'
    <3>1. 0 <= MaxSteps /\ \A i \in 1..Len(SolvePlan) : ~(i <= 0) BY StepsAssumption
    <3>2. NoFlagYet(run') BY <1>1, <1>4, <3>1, NewRunFacts DEF NoFlagYet
    <3>3. Len(reports) = 1 /\ 1 \in DOMAIN reports /\ reports'[1] = reports[1] BY <1>2, <2>1
    <3>4. job.agent = "scripted" /\ reports'[1].solved => SolvedBy(reports'[1]) BY <1>2, <3>3 DEF LeInv, PlanInv
    <3> QED BY <1>1, <1>4, <3>1, <3>2, <3>4, NewRunFacts DEF PlanInv
  <2>7. DefenseInv' BY <1>1, <1>4, <2>0, DefenseSame DEF LeInv
  <2> QED BY <2>3, <2>4, <2>5, <2>6, <2>7 DEF LeInv
<1>5. CASE session' = "raised" /\ UNCHANGED <<job, leg, run, reports, up, delivered, simVars>>
  <2>0. UNCHANGED <<records, tick>> BY <1>5 DEF simVars
  <2>1. Leg' = Leg BY <1>5 DEF Leg
  <2>2. LegInv' BY <1>1, <1>5, <2>1 DEF LeInv, LegInv
  <2>3. TornInv' BY <1>5, <2>1 DEF LeInv, TornInv, StackTornDown
  <2>4. CleanInv' BY <1>5 DEF CleanInv
  <2>5. PlanInv' BY <1>5, <2>1 DEF LeInv, PlanInv
  <2>6. DefenseInv' BY <1>5, <2>0, <2>1, DefenseSame DEF LeInv
  <2> QED BY <2>2, <2>3, <2>4, <2>5, <2>6 DEF LeInv
<1> QED BY <1>3, <1>4, <1>5 DEF ScenarioLeg

LEMMA LeBegins == LeInit => LeInv
<1> SUFFICES ASSUME LeInit PROVE LeInv OBVIOUS
<1>1. /\ job \in Jobs /\ leg = 1 /\ run = NewRun /\ reports = <<>> /\ up = {} /\ delivered = {} /\ session = "running"
      /\ tick = 0 /\ records = <<>>
  BY DEF LeInit, SimInit
<1>2. job.kind \in Kinds BY <1>1, JobsAssumption DEF Kinds
<1>3. 1 \in 1..Len(LegsOf(job.kind)) /\ Leg # "scenario"
  <2>1. Len(LegsOf(job.kind)) >= 1
    <3>1. Len(LegsOf("delta")) = 3 BY LegNames
    <3>2. Len(LegsOf("validate")) = 1 BY LegNames
    <3>3. Len(LegsOf("siblings")) = 4 BY LegNames
    <3>4. PICK k \in Kinds : k = job.kind BY <1>2
    <3>5. Len(LegsOf(k)) \in {1, 3, 4} BY <3>1, <3>2, <3>3 DEF Kinds
    <3> QED BY <3>4, <3>5
  <2>2. Len(LegsOf(job.kind)) \in Nat BY <1>2, LegsDiffer
  <2>3. 1 \in 1..Len(LegsOf(job.kind)) BY <2>1, <2>2
  <2> QED BY <1>1, <1>2, <2>3, LegsDiffer DEF Leg
<1>4. Len(reports) = 0 /\ DOMAIN reports = {} /\ reports \in Seq(RunType) /\ DOMAIN records = {} /\ records \in Seq({})
  BY <1>1
<1>5. LegInv BY <1>1, <1>2, <1>3, <1>4, NewRunFacts DEF LegInv
<1>6. TornInv BY <1>1, <1>4 DEF TornInv, StackTornDown
<1>7. CleanInv BY <1>1 DEF CleanInv
<1>8. PlanInv
  <2>1. 0 <= MaxSteps /\ \A i \in 1..Len(SolvePlan) : ~(i <= 0) BY StepsAssumption
  <2>2. NoFlagYet(run) BY <1>1, <2>1, NewRunFacts DEF NoFlagYet
  <2> QED BY <1>1, <1>4, <2>1, <2>2, NewRunFacts DEF PlanInv
<1>9. DefenseInv BY <1>1, <1>4 DEF DefenseInv, DefenseHolds
<1> QED BY <1>5, <1>6, <1>7, <1>8, <1>9 DEF LeInv

LEMMA LeStays == LeInv /\ UNCHANGED <<leVars, simVars>> => LeInv'
<1> SUFFICES ASSUME LeInv, UNCHANGED <<leVars, simVars>> PROVE LeInv' OBVIOUS
<1>1. UNCHANGED <<job, leg, run, reports, up, delivered, session, tick, records>> BY DEF leVars, simVars
<1>2. Leg' = Leg BY <1>1 DEF Leg
<1>3. LegInv' BY <1>1, <1>2 DEF LeInv, LegInv
<1>4. TornInv' BY <1>1, <1>2 DEF LeInv, TornInv, StackTornDown
<1>5. CleanInv' BY <1>1, <1>2 DEF LeInv, CleanInv, Dirty, MayHold
<1>6. PlanInv' BY <1>1, <1>2 DEF LeInv, PlanInv
<1>7. DefenseInv' BY <1>1, <1>2, DefenseSame DEF LeInv
<1> QED BY <1>3, <1>4, <1>5, <1>6, <1>7 DEF LeInv

LEMMA DropNamed == ASSUME LeInv PROVE DropExplained
<1> SUFFICES ASSUME session = "returned", job.kind = "delta", job.agent = "scripted", reports[1].solved, ~reports[3].solved,
                    reports[3].denied = 0, reports[3].notes = {}
             PROVE  FALSE
  <2>1. session = "returned" /\ job.kind = "delta" /\ job.agent = "scripted" => reports[3].denied \in Nat
    BY RunFields DEF LeInv, PlanInv, LegInv
  <2> QED BY <2>1 DEF DropExplained
<1>1. Len(reports) = 3 /\ reports[3] = run /\ run.at = "return" /\ ~run.raising /\ leg = 3 BY DEF LeInv, PlanInv
<1>2. Leg = "adversarial" BY <1>1, LegsDiffer DEF LeInv, LegInv, Leg
<1>3. SolvedBy(reports[1]) BY <1>1 DEF LeInv, PlanInv
<1>4. NoFlagYet(run) /\ Spent(run) BY <1>1, <1>2 DEF LeInv, PlanInv
<1>5. PICK k : k = reports[1].steps OBVIOUS
<1>6. k \in 1..Len(SolvePlan) /\ k <= MaxSteps /\ SolvePlan[k] \in FlagPaths BY <1>3, <1>5 DEF SolvedBy
<1>7. run.steps \in Nat /\ MaxSteps \in Nat /\ Len(SolvePlan) \in Nat BY StepsAssumption, RunFields DEF LeInv, LegInv
<1>8. k <= run.steps BY <1>4, <1>6, <1>7 DEF Spent
<1> QED BY <1>4, <1>6, <1>8 DEF NoFlagYet

LEMMA CleanSaid == ASSUME LeInv PROVE CleanVerdict
<1> SUFFICES ASSUME session = "returned", ~job.keep, \A i \in DOMAIN reports : reports[i].notes \subseteq {"deadline"}
             PROVE  up = {}
  BY DEF CleanVerdict
<1>1. ~Dirty BY DEF Dirty
<1> QED BY <1>1 DEF LeInv, CleanInv

THEOREM LocalEvalSafeHolds == LeSpec => []LocalEvalSafe
<1>1. LeInv /\ [LeNext]_<<leVars, simVars>> => LeInv'
  <2> SUFFICES ASSUME LeInv, [LeNext]_<<leVars, simVars>> PROVE LeInv' OBVIOUS
  <2>1. CASE LeNext
    BY <2>1, StaticKeeps, BuildKeeps, UpKeeps, HealthKeeps, AskKeeps, EndsKeeps, SolveRaisesKeeps, ScriptKeeps,
       FinallyKeeps, LegEndsKeeps, ScenarioKeeps DEF LeNext
  <2>2. CASE UNCHANGED <<leVars, simVars>> BY <2>2, LeStays
  <2> QED BY <2>1, <2>2
<1>2. LeInv => LocalEvalSafe
  BY DropNamed, CleanSaid DEF LeInv, LocalEvalSafe, TornInv, DefenseInv
<1> QED BY <1>1, <1>2, LeBegins, PTL DEF LeSpec

-----------------------------------------------------------------------------
(* Builds.  The order of a compose file's services is a recursive function    *)
(* over the sets of services still to place: what it returns is proved by     *)
(* induction on those sets.                                                   *)

LEMMA SubsetInduction == ASSUME NEW S, IsFiniteSet(S), NEW G,
                                \A R \in SUBSET S : (\A Q \in SUBSET R : Q # R => Q \in G) => R \in G
    PROVE SUBSET S \subseteq G
<1> DEFINE T == {Cardinality(R) : R \in (SUBSET S) \ G}
<1>1. \A R \in SUBSET S : IsFiniteSet(R) /\ Cardinality(R) \in Nat BY FS_Subset, FS_CardinalityType
<1>2. SUFFICES ASSUME (SUBSET S) \ G # {} PROVE FALSE OBVIOUS
<1>3. T \subseteq Nat /\ T # {} BY <1>1, <1>2
<1>4. PICK n \in T : \A m \in T : n <= m
  <2> HIDE DEF T
  <2> QED BY <1>3, LeastNatural
<1>5. PICK R \in (SUBSET S) \ G : Cardinality(R) = n BY <1>4
<1>6. PICK Q \in SUBSET R : Q # R /\ Q \notin G
  <2>1. R \in SUBSET S /\ R \notin G BY <1>5
  <2> QED BY <2>1
<1>7. Cardinality(Q) <= Cardinality(R) /\ Cardinality(Q) # Cardinality(R) BY <1>1, <1>5, <1>6, FS_Subset
<1>8. Cardinality(Q) \in T /\ Cardinality(Q) \in Nat /\ Cardinality(R) \in Nat BY <1>1, <1>5, <1>6
<1> QED BY <1>4, <1>5, <1>7, <1>8

Increasing(s) == \A i, j \in DOMAIN s : i < j => s[i] < s[j]

LEMMA RankedExists == ASSUME NEW S, S \subseteq Nat, IsFiniteSet(S)
    PROVE \E s \in [1..Cardinality(S) -> S] : Range(s) = S /\ Increasing(s)
<1> DEFINE Good(n) == \A X \in SUBSET Nat : IsFiniteSet(X) /\ Cardinality(X) = n =>
                          \E s \in [1..n -> X] : Range(s) = X /\ Increasing(s)
           G == {n \in Nat : Good(n)}
<1>1. 0 \in G
  <2>1. SUFFICES ASSUME NEW X \in SUBSET Nat, IsFiniteSet(X), Cardinality(X) = 0
                 PROVE \E s \in [1..0 -> X] : Range(s) = X /\ Increasing(s)
    OBVIOUS
  <2>2. X = {} BY <2>1, FS_EmptySet
  <2>3. DOMAIN [i \in 1..0 |-> 0] = {} OBVIOUS
  <2>4. Range([i \in 1..0 |-> 0]) = {} BY <2>3 DEF Range
  <2>5. Increasing([i \in 1..0 |-> 0]) BY <2>3 DEF Increasing
  <2>6. [i \in 1..0 |-> 0] \in [1..0 -> X] OBVIOUS
  <2> QED BY <2>2, <2>4, <2>5, <2>6
<1>2. ASSUME NEW n \in Nat, Good(n) PROVE Good(n + 1)
  <2>1. SUFFICES ASSUME NEW X \in SUBSET Nat, IsFiniteSet(X), Cardinality(X) = n + 1
                 PROVE \E s \in [1..(n + 1) -> X] : Range(s) = X /\ Increasing(s)
    OBVIOUS
  <2>2. X # {} BY <2>1, FS_EmptySet
  <2>3. PICK m \in X : \A y \in X : m <= y BY <2>2, LeastNatural
  <2>4. IsFiniteSet(X \ {m}) /\ Cardinality(X \ {m}) = n
    <3>1. IsFiniteSet(X \ {m}) /\ Cardinality(X \ {m}) = Cardinality(X) - 1 BY <2>1, <2>3, FS_RemoveElement
    <3> QED BY <3>1, <2>1
  <2>5. PICK r \in [1..n -> X \ {m}] : Range(r) = X \ {m} /\ Increasing(r) BY <1>2, <2>4
  <2> DEFINE s == [i \in 1..(n + 1) |-> IF i = 1 THEN m ELSE r[i - 1]]
  <2>6. s \in [1..(n + 1) -> X] BY <2>3
  <2>7. Increasing(s)
    <3> SUFFICES ASSUME NEW i \in 1..(n + 1), NEW j \in 1..(n + 1), i < j PROVE s[i] < s[j]
      BY DEF Increasing
    <3>1. j - 1 \in 1..n /\ s[j] = r[j - 1] OBVIOUS
    <3>2. CASE i = 1
      <4>1. r[j - 1] \in X \ {m} BY <3>1
      <4>2. m <= r[j - 1] /\ m # r[j - 1] /\ m \in Nat /\ r[j - 1] \in Nat BY <4>1, <2>3
      <4> QED BY <3>1, <3>2, <4>1, <2>3, <4>2
    <3>3. CASE i # 1
      <4>1. i - 1 \in 1..n /\ s[i] = r[i - 1] /\ i - 1 < j - 1 BY <3>3
      <4> QED BY <4>1, <3>1, <2>5 DEF Increasing
    <3> QED BY <3>2, <3>3
  <2>8. Range(s) = X
    <3>1. ASSUME NEW x \in X PROVE \E i \in 1..(n + 1) : s[i] = x
      <4>1. CASE x = m BY <4>1
      <4>2. CASE x # m
        <5>1. PICK i \in 1..n : r[i] = x BY <4>2, <2>5 DEF Range
        <5>2. i + 1 \in 1..(n + 1) /\ s[i + 1] = x BY <5>1
        <5> QED BY <5>2
      <4> QED BY <4>1, <4>2
    <3>2. DOMAIN s = 1..(n + 1) /\ \A i \in 1..(n + 1) : s[i] \in X BY <2>6
    <3> HIDE DEF s
    <3> QED BY <3>1, <3>2 DEF Range
  <2> QED BY <2>6, <2>7, <2>8
<1> HIDE DEF Good
<1>3. Nat \subseteq G
  <2>1. \A n \in Nat : n \in G => n + 1 \in G BY <1>2
  <2> HIDE DEF G
  <2> QED BY <1>1, <2>1, NaturalInduction
<1>4. Good(Cardinality(S)) BY <1>3, FS_CardinalityType
<1> QED BY <1>4 DEF Good

LEMMA RankedFacts == ASSUME NEW T, T \subseteq Nat, IsFiniteSet(T)
    PROVE /\ Ranked(T) \in Seq(T) /\ Len(Ranked(T)) = Cardinality(T) /\ Cardinality(T) \in Nat
          /\ \A x \in T : \E i \in 1..Len(Ranked(T)) : Ranked(T)[i] = x
          /\ \A i, j \in 1..Len(Ranked(T)) : i < j => Ranked(T)[i] < Ranked(T)[j]
<1>1. /\ Ranked(T) \in [1..Cardinality(T) -> T]
      /\ Range(Ranked(T)) = T /\ \A i, j \in DOMAIN Ranked(T) : i < j => Ranked(T)[i] < Ranked(T)[j]
  BY RankedExists DEF Ranked, Increasing
<1>2. Cardinality(T) \in Nat BY FS_CardinalityType
<1>3. Ranked(T) \in Seq(T) /\ Len(Ranked(T)) = Cardinality(T) BY <1>1, <1>2
<1>4. DOMAIN Ranked(T) = 1..Len(Ranked(T)) BY <1>1, <1>3
<1> QED BY <1>1, <1>2, <1>3, <1>4 DEF Range

\* One layer, and the recursive function that Layers is.
ReadyIn(R, deps) == {n \in R : deps[n] \cap R = {}}
PlaceOne(f, R, deps, onCycle) ==
    IF R = {} THEN <<>>
    ELSE IF ReadyIn(R, deps) = {} THEN IF onCycle THEN Ranked(R) ELSE <<>>
    ELSE Ranked(ReadyIn(R, deps)) \o f[R \ ReadyIn(R, deps)]
IsPlace(f, S, deps, onCycle) == f = [R \in SUBSET S |-> PlaceOne(f, R, deps, onCycle)]
PlaceOf(S, deps, onCycle) == CHOOSE f : IsPlace(f, S, deps, onCycle)

LEMMA LayersIs == ASSUME NEW S, NEW deps, NEW oc PROVE Layers(S, deps, oc) = PlaceOf(S, deps, oc)[S]
BY DEF Layers, PlaceOf, IsPlace, PlaceOne, ReadyIn

LEMMA PlaceExists == ASSUME NEW S, IsFiniteSet(S), NEW deps, NEW oc
    PROVE IsPlace(PlaceOf(S, deps, oc), S, deps, oc)
<1> DEFINE D(n) == {s \in SUBSET S : Cardinality(s) <= n}
           N == {n \in Nat : \E g : g = [s \in D(n) |-> PlaceOne(g, s, deps, oc)]}
<1>1. \A s \in SUBSET S : IsFiniteSet(s) /\ Cardinality(s) \in Nat /\ Cardinality(s) <= Cardinality(S)
  BY FS_Subset, FS_CardinalityType
<1>2. 0 \in N
  <2> DEFINE g == [s \in D(0) |-> <<>>]
  <2>1. \A s \in D(0) : s = {}
    <3> SUFFICES ASSUME NEW s \in D(0) PROVE s = {} OBVIOUS
    <3>1. IsFiniteSet(s) /\ Cardinality(s) = 0 BY <1>1
    <3> QED BY <3>1, FS_EmptySet
  <2>2. g = [s \in D(0) |-> PlaceOne(g, s, deps, oc)] BY <2>1 DEF PlaceOne
  <2> QED BY <2>2
<1>3. ASSUME NEW n \in Nat, n \in N PROVE n + 1 \in N
  <2>1. PICK g : g = [s \in D(n) |-> PlaceOne(g, s, deps, oc)] BY <1>3
  <2> DEFINE h == [s \in D(n + 1) |-> PlaceOne(g, s, deps, oc)]
  <2>2. \A s \in D(n + 1) : h[s] = PlaceOne(h, s, deps, oc)
    <3> SUFFICES ASSUME NEW s \in D(n + 1) PROVE h[s] = PlaceOne(h, s, deps, oc) OBVIOUS
    <3>0. h[s] = PlaceOne(g, s, deps, oc) OBVIOUS
    <3> DEFINE r == ReadyIn(s, deps)
    <3>1. CASE s = {} \/ r = {}
      <4> HIDE DEF h
      <4> QED BY <3>0, <3>1 DEF PlaceOne
    <3>2. CASE s # {} /\ r # {}
      <4>0. r \subseteq s BY DEF ReadyIn
      <4>1. s \in SUBSET S /\ s \ r \in SUBSET s /\ s \ r # s BY <3>2, <4>0
      <4>2. Cardinality(s \ r) <= Cardinality(s) /\ Cardinality(s \ r) # Cardinality(s)
        <5>1. IsFiniteSet(s) BY <1>1, <4>1
        <5> HIDE DEF r
        <5> QED BY <5>1, <4>1, FS_Subset
      <4>3. Cardinality(s \ r) \in Nat /\ Cardinality(s) \in Nat /\ Cardinality(s) <= n + 1 BY <1>1, <4>1
      <4>4. Cardinality(s \ r) <= n /\ Cardinality(s \ r) <= n + 1 BY <1>3, <4>2, <4>3
      <4>5. s \ r \in D(n) /\ s \ r \in D(n + 1) BY <4>1, <4>4
      <4>6. h[s \ r] = PlaceOne(g, s \ r, deps, oc) BY <4>5
      <4>7. g[s \ r] = PlaceOne(g, s \ r, deps, oc) BY <4>5, <2>1
      <4> HIDE DEF h
      <4> QED BY <3>0, <3>2, <4>6, <4>7 DEF PlaceOne
    <3> QED BY <3>1, <3>2
  <2>3. h = [s \in D(n + 1) |-> PlaceOne(h, s, deps, oc)] BY <2>2
  <2>4. n + 1 \in Nat BY <1>3
  <2> HIDE DEF h
  <2>5. \E k : k = [s \in D(n + 1) |-> PlaceOne(k, s, deps, oc)] BY <2>3
  <2> QED BY <2>4, <2>5
<1>4. Cardinality(S) \in N /\ D(Cardinality(S)) = SUBSET S
  <2>1. Nat \subseteq N
    <3> HIDE DEF N
    <3> QED BY <1>2, <1>3, NaturalInduction
  <2> QED BY <1>1, <2>1, FS_CardinalityType
<1>5. \E g : IsPlace(g, S, deps, oc) BY <1>4 DEF IsPlace
<1> QED BY <1>5 DEF PlaceOf

\* No service of the set can be placed before the others of it.
Stuck(B, deps) == B # {} /\ \A n \in B : deps[n] \cap B # {}

NoneStuck(S, deps) == \A B \in SUBSET S : ~Stuck(B, deps)

\* A sequence without repetition in which whatever a service needs, if it is
\* there at all, comes before it.
InOrder(s, R, deps) ==
    /\ s \in Seq(R)
    /\ \A i, j \in 1..Len(s) : i # j => s[i] # s[j]
    /\ \A i, j \in 1..Len(s) : s[j] \in deps[s[i]] => j < i
Has(s, R) == \A x \in R : \E i \in 1..Len(s) : s[i] = x

LEMMA Wider == ASSUME NEW T, NEW R, T \subseteq R, NEW s \in Seq(T) PROVE s \in Seq(R)
OBVIOUS

LEMMA Joined == ASSUME NEW R, NEW a \in Seq(R), NEW b \in Seq(R)
    PROVE /\ a \o b \in Seq(R) /\ Len(a \o b) = Len(a) + Len(b) /\ Len(a) \in Nat /\ Len(b) \in Nat
          /\ \A i \in 1..Len(a) : i \in 1..Len(a \o b) /\ (a \o b)[i] = a[i] /\ a[i] \in R
          /\ \A i \in 1..Len(b) : Len(a) + i \in 1..Len(a \o b) /\ (a \o b)[Len(a) + i] = b[i] /\ b[i] \in R
          /\ \A k \in 1..Len(a \o b) : k \in 1..Len(a) \/ \E i \in 1..Len(b) : k = Len(a) + i
<1>1. a \o b \in Seq(R) /\ Len(a \o b) = Len(a) + Len(b) /\ Len(a) \in Nat /\ Len(b) \in Nat OBVIOUS
<1>2. \A i \in 1..Len(a) : i \in 1..Len(a \o b) /\ (a \o b)[i] = a[i] /\ a[i] \in R OBVIOUS
<1>3. \A i \in 1..Len(b) : Len(a) + i \in 1..Len(a \o b) /\ (a \o b)[Len(a) + i] = b[i] /\ b[i] \in R OBVIOUS
<1>4. ASSUME NEW k \in 1..Len(a \o b), k \notin 1..Len(a) PROVE \E i \in 1..Len(b) : k = Len(a) + i
  <2>1. k - Len(a) \in 1..Len(b) /\ k = Len(a) + (k - Len(a)) BY <1>1, <1>4
  <2> QED BY <2>1
<1> QED BY <1>1, <1>2, <1>3, <1>4

LEMMA ReadyFacts == ASSUME NEW S, S \subseteq Nat, IsFiniteSet(S), NEW deps, NEW R \in SUBSET S, ReadyIn(R, deps) # {}
    PROVE /\ R \ ReadyIn(R, deps) \in SUBSET R /\ R \ ReadyIn(R, deps) # R
          /\ ReadyIn(R, deps) \subseteq R
          /\ Ranked(ReadyIn(R, deps)) \in Seq(ReadyIn(R, deps))
          /\ \A x \in ReadyIn(R, deps) : deps[x] \cap R = {}
          /\ Has(Ranked(ReadyIn(R, deps)), ReadyIn(R, deps))
          /\ \A i, j \in 1..Len(Ranked(ReadyIn(R, deps))) : i # j => Ranked(ReadyIn(R, deps))[i] # Ranked(ReadyIn(R, deps))[j]
<1>1. ReadyIn(R, deps) \subseteq R /\ \A x \in ReadyIn(R, deps) : deps[x] \cap R = {} BY DEF ReadyIn
<1> DEFINE T == ReadyIn(R, deps)
<1> HIDE DEF T
<1>2. T \subseteq Nat /\ T \in SUBSET S BY <1>1 DEF T
<1>3. IsFiniteSet(T) BY <1>2, FS_Subset
<1>4. /\ Ranked(T) \in Seq(T)
      /\ \A x \in T : \E i \in 1..Len(Ranked(T)) : Ranked(T)[i] = x
      /\ \A i, j \in 1..Len(Ranked(T)) : i < j => Ranked(T)[i] < Ranked(T)[j]
  BY <1>2, <1>3, RankedFacts
<1>5. ASSUME NEW i \in 1..Len(Ranked(T)), NEW j \in 1..Len(Ranked(T)), i # j PROVE Ranked(T)[i] # Ranked(T)[j]
  <2>0. PICK s : s = Ranked(T) OBVIOUS
  <2>1. s \in Seq(Nat) /\ i \in 1..Len(s) /\ j \in 1..Len(s)
    <3>1. s \in Seq(T) BY <1>4, <2>0
    <3>2. s \in Seq(Nat) BY <3>1, <1>2, Wider
    <3> QED BY <3>2, <1>5, <2>0
  <2>2. s[i] \in Nat /\ s[j] \in Nat /\ i \in Nat /\ j \in Nat BY <2>1
  <2>3. i < j \/ j < i BY <2>2, <1>5
  <2>4. s[i] < s[j] \/ s[j] < s[i] BY <2>0, <2>1, <2>3, <1>4
  <2> QED BY <2>0, <2>2, <2>4
<1> QED BY <1>1, <1>2, <1>4, <1>5 DEF T, Has

LEMMA JoinedInOrder ==
    ASSUME NEW R, NEW deps, NEW T, T \subseteq R, \A x \in T : deps[x] \cap R = {},
           NEW a \in Seq(T), \A i, j \in 1..Len(a) : i # j => a[i] # a[j],
           NEW b, InOrder(b, R \ T, deps)
    PROVE InOrder(a \o b, R, deps)
<1>1. b \in Seq(R \ T) BY DEF InOrder
<1>2. a \in Seq(R) /\ b \in Seq(R) BY <1>1
<1> DEFINE c == a \o b
<1>3. /\ c \in Seq(R) /\ Len(c) = Len(a) + Len(b) /\ Len(a) \in Nat /\ Len(b) \in Nat
      /\ \A i \in 1..Len(a) : c[i] = a[i] 
      /\ \A i \in 1..Len(b) : c[Len(a) + i] = b[i]
      /\ \A k \in 1..Len(c) : k \in 1..Len(a) \/ \E i \in 1..Len(b) : k = Len(a) + i
  BY <1>2, Joined
<1>4. \A i \in 1..Len(a) : a[i] \in T OBVIOUS
<1>5. \A i \in 1..Len(b) : b[i] \in R \ T BY <1>1
<1> HIDE DEF c
<1>6. ASSUME NEW i \in 1..Len(c), NEW j \in 1..Len(c), i # j PROVE c[i] # c[j]
  <2>1. CASE i \in 1..Len(a) /\ j \in 1..Len(a) BY <1>3, <1>6, <2>1
  <2>2. CASE i \in 1..Len(a) /\ j \notin 1..Len(a)
    <3>1. PICK m \in 1..Len(b) : j = Len(a) + m BY <1>3, <2>2
    <3> QED BY <1>3, <1>4, <1>5, <2>2, <3>1
  <2>3. CASE i \notin 1..Len(a) /\ j \in 1..Len(a)
    <3>1. PICK m \in 1..Len(b) : i = Len(a) + m BY <1>3, <2>3
    <3> QED BY <1>3, <1>4, <1>5, <2>3, <3>1
  <2>4. CASE i \notin 1..Len(a) /\ j \notin 1..Len(a)
    <3>1. PICK m \in 1..Len(b) : i = Len(a) + m BY <1>3, <2>4
    <3>2. PICK k \in 1..Len(b) : j = Len(a) + k BY <1>3, <2>4
    <3>3. m # k BY <1>6, <3>1, <3>2
    <3>4. b[m] # b[k] BY <3>3, <3>1, <3>2 DEF InOrder
    <3>5. c[i] = b[m] /\ c[j] = b[k] BY <1>3, <3>1, <3>2
    <3> QED BY <3>4, <3>5
  <2> QED BY <2>1, <2>2, <2>3, <2>4
<1>7. ASSUME NEW i \in 1..Len(c), NEW j \in 1..Len(c), c[j] \in deps[c[i]] PROVE j < i
  <2>0. c[j] \in R BY <1>3
  <2>1. i \notin 1..Len(a) BY <1>3, <1>4, <1>7, <2>0
  <2>2. PICK m \in 1..Len(b) : i = Len(a) + m BY <1>3, <2>1
  <2>3. CASE j \in 1..Len(a) BY <1>3, <2>2, <2>3
  <2>4. CASE j \notin 1..Len(a)
    <3>1. PICK k \in 1..Len(b) : j = Len(a) + k BY <1>3, <2>4
    <3>2. c[i] = b[m] /\ c[j] = b[k] BY <1>3, <2>2, <3>1
    <3>3. b[k] \in deps[b[m]] BY <1>7, <3>2
    <3>4. k < m BY <3>3, <2>2, <3>1 DEF InOrder
    <3> QED BY <1>3, <2>2, <3>1, <3>4
  <2> QED BY <2>3, <2>4
<1>8. InOrder(c, R, deps) BY <1>3, <1>6, <1>7 DEF InOrder
<1> QED BY <1>8 DEF c

LEMMA PlaceInOrder == ASSUME NEW S, S \subseteq Nat, IsFiniteSet(S), NEW deps, NEW f, IsPlace(f, S, deps, FALSE)
    PROVE \A R \in SUBSET S : InOrder(f[R], R, deps)
<1> DEFINE G == {R \in SUBSET S : InOrder(f[R], R, deps)}
<1>1. ASSUME NEW R \in SUBSET S, \A Q \in SUBSET R : Q # R => Q \in G PROVE R \in G
  <2>1. f[R] = PlaceOne(f, R, deps, FALSE) BY DEF IsPlace
  <2>2. CASE f[R] = <<>>
    <3>1. InOrder(<<>>, R, deps) BY DEF InOrder
    <3> QED BY <2>2, <3>1
  <2>3. CASE R # {} /\ ReadyIn(R, deps) # {}
    <3> DEFINE T == ReadyIn(R, deps)
    <3>1. /\ R \ T \in SUBSET R /\ R \ T # R /\ T \subseteq R /\ Ranked(T) \in Seq(T)
          /\ \A x \in T : deps[x] \cap R = {}
          /\ \A i, j \in 1..Len(Ranked(T)) : i # j => Ranked(T)[i] # Ranked(T)[j]
      BY <2>3, ReadyFacts
    <3>2. f[R] = Ranked(T) \o f[R \ T] BY <2>1, <2>3 DEF PlaceOne
    <3> HIDE DEF T
    <3>3. InOrder(f[R \ T], R \ T, deps) BY <1>1, <3>1
    <3>4. InOrder(Ranked(T) \o f[R \ T], R, deps)
      <4> PICK a, b : a = Ranked(T) /\ b = f[R \ T] OBVIOUS
      <4> QED BY <3>1, <3>3, JoinedInOrder
    <3> QED BY <3>2, <3>4
  <2> QED BY <2>1, <2>2, <2>3 DEF PlaceOne
<1>2. SUBSET S \subseteq G
  <2> HIDE DEF G
  <2> QED BY <1>1, SubsetInduction
<1> QED BY <1>2

LEMMA PlaceOutside == ASSUME NEW S, S \subseteq Nat, IsFiniteSet(S), NEW deps, NEW f, IsPlace(f, S, deps, FALSE),
                             NEW B, Stuck(B, deps)
    PROVE \A R \in SUBSET S : B \subseteq R => \A i \in 1..Len(f[R]) : f[R][i] \notin B
<1> DEFINE G == {R \in SUBSET S : B \subseteq R => \A i \in 1..Len(f[R]) : f[R][i] \notin B}
<1>1. ASSUME NEW R \in SUBSET S, \A Q \in SUBSET R : Q # R => Q \in G PROVE R \in G
  <2>1. f[R] = PlaceOne(f, R, deps, FALSE) BY DEF IsPlace
  <2>2. CASE f[R] = <<>>
    <3>1. Len(<<>>) = 0 OBVIOUS
    <3> QED BY <2>2, <3>1
  <2>3. CASE R # {} /\ ReadyIn(R, deps) # {}
    <3> DEFINE T == ReadyIn(R, deps)
    <3>1. /\ R \ T \in SUBSET R /\ R \ T # R /\ T \subseteq R /\ Ranked(T) \in Seq(T)
          /\ \A x \in T : deps[x] \cap R = {}
      BY <2>3, ReadyFacts
    <3>2. f[R] = Ranked(T) \o f[R \ T] BY <2>1, <2>3 DEF PlaceOne
    <3> HIDE DEF T
    <3>3. ASSUME B \subseteq R, NEW i \in 1..Len(f[R]) PROVE f[R][i] \notin B
      <4>1. T \cap B = {} BY <3>1, <3>3 DEF Stuck
      <4>2. B \subseteq R \ T BY <3>3, <4>1
      <4>3. \A k \in 1..Len(f[R \ T]) : f[R \ T][k] \notin B BY <1>1, <3>1, <4>2
      <4>4. f[R \ T] \in Seq(R \ T)
        <5>1. R \ T \in SUBSET S BY <3>1
        <5> QED BY <5>1, PlaceInOrder DEF InOrder
      <4>0. PICK a, b : a = Ranked(T) /\ b = f[R \ T] OBVIOUS
      <4>8. a \in Seq(T) /\ b \in Seq(R \ T) BY <3>1, <4>4, <4>0
      <4>5. a \in Seq(R) /\ b \in Seq(R) BY <3>1, <4>8, Wider
      <4>6. CASE i \in 1..Len(a)
        <5>1. f[R][i] = a[i] BY <3>2, <4>0, <4>5, <4>6, Joined
        <5>2. a[i] \in T BY <4>8, <4>6
        <5> QED BY <4>1, <5>1, <5>2
      <4>7. CASE \E k \in 1..Len(b) : i = Len(a) + k
        <5>1. PICK k \in 1..Len(b) : i = Len(a) + k BY <4>7
        <5>2. f[R][i] = b[k] BY <3>2, <4>0, <4>5, <5>1, Joined
        <5> QED BY <4>0, <4>3, <5>1, <5>2
      <4>9. f[R] = a \o b BY <3>2, <4>0
      <4>10. \A k \in 1..Len(a \o b) : k \in 1..Len(a) \/ \E m \in 1..Len(b) : k = Len(a) + m BY <4>5, Joined
      <4> QED BY <3>3, <4>6, <4>7, <4>9, <4>10
    <3> QED BY <3>3
  <2> QED BY <2>1, <2>2, <2>3 DEF PlaceOne
<1>2. SUBSET S \subseteq G
  <2> HIDE DEF G
  <2> QED BY <1>1, SubsetInduction
<1> QED BY <1>2

LEMMA PlaceAll == ASSUME NEW S, S \subseteq Nat, IsFiniteSet(S), NEW deps, NEW f, IsPlace(f, S, deps, FALSE),
                         NoneStuck(S, deps)
    PROVE \A R \in SUBSET S : Has(f[R], R)
<1> DEFINE G == {R \in SUBSET S : Has(f[R], R)}
<1>1. ASSUME NEW R \in SUBSET S, \A Q \in SUBSET R : Q # R => Q \in G PROVE R \in G
  <2>1. f[R] = PlaceOne(f, R, deps, FALSE) BY DEF IsPlace
  <2>2. CASE R = {} BY <2>2 DEF Has
  <2>3. CASE R # {}
    <3> DEFINE T == ReadyIn(R, deps)
    <3>0. T # {}
      <4>1. PICK n \in R : deps[n] \cap R = {} BY <2>3 DEF Stuck, NoneStuck
      <4> QED BY <4>1 DEF ReadyIn
    <3>1. /\ R \ T \in SUBSET R /\ R \ T # R /\ T \subseteq R /\ Ranked(T) \in Seq(T)
          /\ Has(Ranked(T), T)
      BY <3>0, ReadyFacts
    <3>2. f[R] = Ranked(T) \o f[R \ T] BY <2>1, <2>3, <3>0 DEF PlaceOne
    <3> HIDE DEF T
    <3>3. Has(f[R \ T], R \ T) BY <1>1, <3>1
    <3>4. f[R \ T] \in Seq(R \ T)
      <4>1. R \ T \in SUBSET S BY <3>1
      <4> QED BY <4>1, PlaceInOrder DEF InOrder
    <3>8. PICK a, b : a = Ranked(T) /\ b = f[R \ T] OBVIOUS
    <3>9. a \in Seq(T) /\ b \in Seq(R \ T) BY <3>1, <3>4, <3>8
    <3>5. a \in Seq(R) /\ b \in Seq(R) BY <3>1, <3>9, Wider
    <3>6. ASSUME NEW x \in R PROVE \E i \in 1..Len(f[R]) : f[R][i] = x
      <4>1. CASE x \in T
        <5>1. PICK i \in 1..Len(a) : a[i] = x BY <3>1, <3>8, <4>1 DEF Has
        <5>2. i \in 1..Len(f[R]) /\ f[R][i] = a[i] BY <3>2, <3>8, <3>5, <5>1, Joined
        <5> QED BY <5>1, <5>2
      <4>2. CASE x \notin T
        <5>1. PICK i \in 1..Len(b) : b[i] = x BY <3>3, <3>8, <4>2 DEF Has
        <5>2. Len(a) + i \in 1..Len(a \o b) /\ (a \o b)[Len(a) + i] = b[i] BY <3>5, <5>1, Joined
        <5>3. f[R] = a \o b BY <3>2, <3>8
        <5> QED BY <5>1, <5>2, <5>3
      <4> QED BY <4>1, <4>2
    <3> QED BY <3>6 DEF Has
  <2> QED BY <2>2, <2>3
<1>2. SUBSET S \subseteq G
  <2> HIDE DEF G
  <2> QED BY <1>1, SubsetInduction
<1> QED BY <1>2

LEMMA PlaceSame == ASSUME NEW S, S \subseteq Nat, IsFiniteSet(S), NEW deps, NEW f, NEW g, NEW p, NEW q, IsPlace(f, S, deps, p),
                          IsPlace(g, S, deps, q), NoneStuck(S, deps)
    PROVE f[S] = g[S]
<1> DEFINE G == {R \in SUBSET S : f[R] = g[R]}
<1>1. ASSUME NEW R \in SUBSET S, \A Q \in SUBSET R : Q # R => Q \in G PROVE R \in G
  <2>1. f[R] = PlaceOne(f, R, deps, p) BY DEF IsPlace
  <2>2. g[R] = PlaceOne(g, R, deps, q) BY DEF IsPlace
  <2>3. CASE R = {} BY <2>1, <2>2, <2>3 DEF PlaceOne
  <2>4. CASE R # {}
    <3>0. ReadyIn(R, deps) # {}
      <4>1. PICK n \in R : deps[n] \cap R = {} BY <2>4 DEF Stuck, NoneStuck
      <4> QED BY <4>1 DEF ReadyIn
    <3>1. R \ ReadyIn(R, deps) \in SUBSET R /\ R \ ReadyIn(R, deps) # R BY <3>0, ReadyFacts
    <3>2. f[R \ ReadyIn(R, deps)] = g[R \ ReadyIn(R, deps)] BY <1>1, <3>1
    <3> QED BY <2>1, <2>2, <2>4, <3>0, <3>2 DEF PlaceOne
  <2> QED BY <2>3, <2>4
<1>2. SUBSET S \subseteq G
  <2> HIDE DEF G
  <2> QED BY <1>1, SubsetInduction
<1>3. S \in G BY <1>2
<1> QED BY <1>3

\* What _topological_order returns, for any services and dependencies.
LEMMA LayersFacts == ASSUME NEW S, S \subseteq Nat, IsFiniteSet(S), NEW deps
    PROVE /\ InOrder(Layers(S, deps, FALSE), S, deps)
          /\ Cardinality(S) \in Nat
          /\ Len(Layers(S, deps, FALSE)) < Cardinality(S) <=> ~NoneStuck(S, deps)
          /\ NoneStuck(S, deps) => /\ Has(Layers(S, deps, FALSE), S)
                                                      /\ Layers(S, deps, TRUE) = Layers(S, deps, FALSE)
<1>1. PICK f : f = PlaceOf(S, deps, FALSE) OBVIOUS
<1>2. PICK g : g = PlaceOf(S, deps, TRUE) OBVIOUS
<1>3. IsPlace(f, S, deps, FALSE) /\ IsPlace(g, S, deps, TRUE) BY <1>1, <1>2, PlaceExists
<1>4. Layers(S, deps, FALSE) = f[S] /\ Layers(S, deps, TRUE) = g[S] BY <1>1, <1>2, LayersIs
<1>5. PICK o : o = f[S] OBVIOUS
<1>6. S \in SUBSET S OBVIOUS
<1>7. InOrder(o, S, deps) BY <1>3, <1>5, <1>6, PlaceInOrder
<1>8. ASSUME NoneStuck(S, deps) PROVE Has(o, S) /\ g[S] = o
  <2>1. Has(o, S) BY <1>3, <1>5, <1>6, <1>8, PlaceAll
  <2>2. IsPlace(f, S, deps, FALSE) /\ IsPlace(g, S, deps, TRUE) BY <1>3
  <2>0. PICK p, q : p = FALSE /\ q = TRUE OBVIOUS
  <2>4. IsPlace(f, S, deps, p) /\ IsPlace(g, S, deps, q) BY <2>0, <2>2
  <2>3. f[S] = g[S] BY <1>8, <2>4, PlaceSame
  <2> QED BY <1>5, <1>6, <2>1, <2>3
<1>9. Cardinality(S) \in Nat BY FS_CardinalityType
<1>10. o \in Seq(S) /\ Len(o) \in Nat /\ o \in [1..Len(o) -> S] BY <1>7 DEF InOrder
<1>11. o \in Injection(1..Len(o), S) BY <1>7, <1>10 DEF InOrder, Injection, IsInjective
<1>12. Len(o) <= Cardinality(S) /\ (Len(o) = Cardinality(S) <=> o \in Surjection(1..Len(o), S))
  <2>1. Cardinality(1..Len(o)) = Len(o)
    <3>1. Len(o) \in Int /\ 1 \in Int BY <1>10
    <3>2. Cardinality(1..Len(o)) = IF 1 > Len(o) THEN 0 ELSE Len(o) - 1 + 1 BY <3>1, FS_Interval
    <3> QED BY <1>10, <3>2
  <2>2. /\ Cardinality(1..Len(o)) <= Cardinality(S)
        /\ Cardinality(1..Len(o)) = Cardinality(S) <=> o \in Surjection(1..Len(o), S)
    BY <1>11, FS_Injection
  <2> QED BY <2>1, <2>2
<1>13. o \in Surjection(1..Len(o), S) <=> Has(o, S) BY <1>10 DEF Surjection, Has
<1>14. ASSUME NEW B \in SUBSET S, Stuck(B, deps) PROVE ~Has(o, S)
  <2>1. \A i \in 1..Len(o) : o[i] \notin B BY <1>3, <1>5, <1>6, <1>14, PlaceOutside
  <2> QED BY <2>1, <1>14 DEF Has, Stuck
<1>15. Len(o) < Cardinality(S) <=> ~NoneStuck(S, deps)
  <2>1. Len(o) < Cardinality(S) <=> ~Has(o, S) BY <1>9, <1>10, <1>12, <1>13
  <2> QED BY <2>1, <1>8, <1>14 DEF NoneStuck
<1> QED BY <1>4, <1>5, <1>7, <1>8, <1>9, <1>15

\* A set in which everybody needs somebody of it has a cycle, and the other
\* way round.
LEMMA WalkExists == ASSUME NEW B, NEW deps, Stuck(B, deps)
    PROVE \A n \in Nat : \E p \in [0..n -> B] : \A i \in 1..n : p[i] \in deps[p[i - 1]]
<1> DEFINE G == {n \in Nat : \E p \in [0..n -> B] : \A i \in 1..n : p[i] \in deps[p[i - 1]]}
<1>1. 0 \in G
  <2>1. PICK x \in B : TRUE BY DEF Stuck
  <2>2. [i \in 0..0 |-> x] \in [0..0 -> B] /\ 1..0 = {} BY <2>1
  <2> QED BY <2>2
<1>2. ASSUME NEW n \in Nat, n \in G PROVE n + 1 \in G
  <2>1. PICK p \in [0..n -> B] : \A i \in 1..n : p[i] \in deps[p[i - 1]] BY <1>2
  <2>2. n \in 0..n /\ p[n] \in B BY <1>2, <2>1
  <2>3. PICK y \in B : y \in deps[p[n]] BY <2>2 DEF Stuck
  <2> DEFINE q == [i \in 0..(n + 1) |-> IF i = n + 1 THEN y ELSE p[i]]
  <2>4. q \in [0..(n + 1) -> B] BY <2>1, <2>3, <1>2
  <2>5. ASSUME NEW i \in 1..(n + 1) PROVE q[i] \in deps[q[i - 1]]
    <3>1. CASE i = n + 1
      <4>1. i - 1 = n /\ i \in 0..(n + 1) /\ n \in 0..(n + 1) /\ n # n + 1 BY <1>2, <3>1
      <4>2. q[i] = y /\ q[i - 1] = p[n] BY <3>1, <4>1
      <4> QED BY <4>2, <2>3
    <3>2. CASE i # n + 1
      <4>1. i \in 1..n /\ i \in 0..(n + 1) /\ i - 1 \in 0..(n + 1) /\ i - 1 # n + 1 BY <1>2, <3>2
      <4>2. q[i] = p[i] /\ q[i - 1] = p[i - 1] BY <3>2, <4>1
      <4> QED BY <4>1, <4>2, <2>1
    <3> QED BY <3>1, <3>2
  <2>6. n + 1 \in Nat BY <1>2
  <2> HIDE DEF q
  <2> QED BY <2>4, <2>5, <2>6
<1>3. Nat \subseteq G
  <2> HIDE DEF G
  <2> QED BY <1>1, <1>2, NaturalInduction
<1> QED BY <1>3

LEMMA AcyclicIs == ASSUME NEW c, IsFiniteSet(c.services), \A s \in c.services : c.deps[s] \subseteq c.services
    PROVE Acyclic(c) <=> NoneStuck(c.services, c.deps)
<1> PICK S, deps : S = c.services /\ deps = c.deps OBVIOUS
<1>0. \A x, y \in S : <<x, y>> \in Needs(c) <=> y \in deps[x] BY DEF Needs
<1>1. Acyclic(c) <=> ~\E n \in 1..Cardinality(S) : \E w \in [0..n -> S] :
                         w[0] = w[n] /\ \A i \in 1..n : <<w[i - 1], w[i]>> \in Needs(c)
  BY DEF Acyclic
<1>2. IsFiniteSet(S) /\ Cardinality(S) \in Nat BY FS_CardinalityType
<1>3. ASSUME NEW n \in 1..Cardinality(S), NEW w \in [0..n -> S], w[0] = w[n], \A i \in 1..n : <<w[i - 1], w[i]>> \in Needs(c)
      PROVE ~NoneStuck(S, deps)
  <2> DEFINE B == {w[i] : i \in 0..n}
  <2>0. n \in Nat /\ n > 0 BY <1>2
  <2>1. B \subseteq S /\ B # {}
    <3>1. 0 \in 0..n BY <2>0
    <3> QED BY <3>1
  <2>2. ASSUME NEW x \in B PROVE deps[x] \cap B # {}
    <3>1. PICK i \in 0..n : x = w[i] BY <2>2
    <3>2. PICK j \in 0..(n - 1) : x = w[j]
      <4>1. CASE i = n
        <5>1. 0 \in 0..(n - 1) BY <2>0
        <5> QED BY <5>1, <4>1, <3>1, <1>3
      <4>2. CASE i # n
        <5>1. i \in 0..(n - 1) BY <4>2, <3>1, <2>0
        <5> QED BY <5>1, <3>1
      <4> QED BY <4>1, <4>2
    <3>3. j + 1 \in 1..n /\ j + 1 \in 0..n /\ j \in 0..n /\ (j + 1) - 1 = j BY <3>2, <2>0
    <3>4. <<w[j], w[j + 1]>> \in Needs(c) BY <1>3, <3>3
    <3>5. w[j] \in S /\ w[j + 1] \in S BY <3>3
    <3>6. w[j + 1] \in deps[x] BY <3>2, <3>4, <3>5, <1>0
    <3>7. w[j + 1] \in B BY <3>3
    <3> QED BY <3>6, <3>7
  <2> HIDE DEF B
  <2> QED BY <2>1, <2>2 DEF NoneStuck, Stuck
<1>4. ASSUME NEW B \in SUBSET S, Stuck(B, deps)
      PROVE \E n \in 1..Cardinality(S) : \E w \in [0..n -> S] :
                w[0] = w[n] /\ \A i \in 1..n : <<w[i - 1], w[i]>> \in Needs(c)
  <2>1. IsFiniteSet(B) /\ Cardinality(B) \in Nat /\ Cardinality(B) <= Cardinality(S) BY <1>2, FS_Subset, FS_CardinalityType
  <2>2. PICK m \in Nat : m = Cardinality(B) BY <2>1
  <2>3. PICK p \in [0..m -> B] : \A i \in 1..m : p[i] \in deps[p[i - 1]] BY <1>4, <2>2, WalkExists
  <2>4. IsFiniteSet(0..m) /\ Cardinality(0..m) = m + 1
    <3>1. m \in Int /\ 0 \in Int /\ ~(0 > m) /\ m - 0 + 1 = m + 1 BY <2>2
    <3>2. IsFiniteSet(0..m) /\ Cardinality(0..m) = IF 0 > m THEN 0 ELSE m - 0 + 1 BY <3>1, FS_Interval
    <3> QED BY <3>1, <3>2
  <2>5. Cardinality(B) < Cardinality(0..m) BY <2>2, <2>4
  <2>6. PICK x, y \in 0..m : x # y /\ p[x] = p[y] BY <2>1, <2>3, <2>4, <2>5, FS_PigeonHole
  <2>7. PICK k, l \in 0..m : k < l /\ p[k] = p[l]
    <3>1. x < y \/ y < x BY <2>2, <2>6
    <3> QED BY <3>1, <2>6
  <2>8. PICK n : n = l - k OBVIOUS
  <2>9. n \in Nat /\ n > 0 /\ n <= m /\ k \in Nat /\ k + n = l BY <2>2, <2>7, <2>8
  <2> DEFINE w == [i \in 0..n |-> p[k + i]]
  <2>10. \A i \in 0..n : k + i \in 0..m BY <2>2, <2>7, <2>9
  <2>11. w \in [0..n -> S] BY <2>3, <2>10
  <2>12. w[0] = w[n]
    <3>1. 0 \in 0..n /\ n \in 0..n /\ k + 0 = k BY <2>9
    <3> QED BY <3>1, <2>7, <2>9
  <2>13. ASSUME NEW i \in 1..n PROVE <<w[i - 1], w[i]>> \in Needs(c)
    <3>1. i \in 0..n /\ i - 1 \in 0..n /\ k + (i - 1) = (k + i) - 1 BY <2>9, <2>13
    <3>2. k + i \in 1..m BY <2>2, <2>7, <2>9, <2>13
    <3>3. w[i] = p[k + i] /\ w[i - 1] = p[(k + i) - 1] BY <3>1
    <3>4. w[i] \in deps[w[i - 1]] BY <2>3, <3>2, <3>3
    <3>5. w[i] \in S /\ w[i - 1] \in S BY <2>11, <3>1
    <3> QED BY <1>0, <3>4, <3>5
  <2>14. n \in 1..Cardinality(S) BY <1>2, <2>1, <2>2, <2>9
  <2> HIDE DEF w
  <2> QED BY <2>11, <2>12, <2>13, <2>14
<1>5. Acyclic(c) <=> NoneStuck(S, deps) BY <1>1, <1>3, <1>4 DEF NoneStuck
<1> QED BY <1>5

GoodFile(c) == c \in ComposeFiles \ {NoCompose} /\ ~ComposeManifestError(c)

LEMMA FileFacts == ASSUME NEW c \in ComposeFiles \ {NoCompose}
    PROVE /\ c.services \subseteq Nat /\ c.services \subseteq SvcName /\ c.services # {} /\ IsFiniteSet(c.services)
          /\ c.deps \in [c.services -> SUBSET SvcName]
          /\ c.ports \subseteq c.services /\ c.usable \subseteq c.services
          /\ InOrder(_topological_order(c), c.services, c.deps)
          /\ (\A s \in c.services : c.deps[s] \subseteq c.services) =>
                /\ Acyclic(c) <=> NoneStuck(c.services, c.deps)
                /\ Len(_topological_order(c)) < Cardinality(c.services) <=> ~Acyclic(c)
          /\ NoneStuck(c.services, c.deps) => /\ Has(_topological_order(c), c.services)
                                              /\ Layers(c.services, c.deps, TRUE) = _topological_order(c)
<1>1. /\ c.services \subseteq SvcName /\ c.services # {} /\ IsFiniteSet(c.services)
      /\ c.deps \in [c.services -> SUBSET SvcName]
      /\ c.ports \subseteq c.services /\ c.usable \subseteq c.services /\ SvcName \subseteq Nat
  BY BuildsAssumption
<1>2. c.services \subseteq Nat BY <1>1
<1> PICK S, deps : S = c.services /\ deps = c.deps OBVIOUS
<1>3. S \subseteq Nat /\ IsFiniteSet(S) BY <1>1, <1>2
<1>4. _topological_order(c) = Layers(S, deps, FALSE) BY DEF _topological_order
<1>5. /\ InOrder(Layers(S, deps, FALSE), S, deps)
      /\ Len(Layers(S, deps, FALSE)) < Cardinality(S) <=> ~NoneStuck(S, deps)
      /\ NoneStuck(S, deps) => Has(Layers(S, deps, FALSE), S) /\ Layers(S, deps, TRUE) = Layers(S, deps, FALSE)
  BY <1>3, LayersFacts
<1>6. ASSUME \A s \in c.services : c.deps[s] \subseteq c.services PROVE Acyclic(c) <=> NoneStuck(c.services, c.deps)
  BY <1>1, <1>6, AcyclicIs
<1> QED BY <1>1, <1>2, <1>4, <1>5, <1>6

LEMMA GoodFacts == ASSUME NEW c, GoodFile(c)
    PROVE /\ c.services = c.usable /\ \A s \in c.services : c.deps[s] \subseteq c.services
          /\ NoneStuck(c.services, c.deps) /\ Has(_topological_order(c), c.services)
          /\ Layers(c.services, c.deps, TRUE) = _topological_order(c)
<1>1. c \in ComposeFiles \ {NoCompose} BY DEF GoodFile
<1>2. /\ c.services \subseteq c.usable /\ \A s \in c.services : c.deps[s] \subseteq c.services
      /\ ~(Len(_topological_order(c)) < Cardinality(c.services))
  BY DEF GoodFile, ComposeManifestError, _safe_build_context
<1>3. NoneStuck(c.services, c.deps) BY <1>1, <1>2, FileFacts
<1>4. c.usable \subseteq c.services BY <1>1, FileFacts
<1>5. Has(_topological_order(c), c.services) /\ Layers(c.services, c.deps, TRUE) = _topological_order(c)
  BY <1>1, <1>3, FileFacts
<1> QED BY <1>2, <1>3, <1>4, <1>5

LEMMA ErrorIs == ASSUME NEW c \in ComposeFiles \ {NoCompose}
    PROVE ComposeManifestError(c) <=> \/ Cardinality(c.services) > MAX_STACK_SERVICES
                                      \/ c.usable # c.services
                                      \/ \E s \in c.services : ~ c.deps[s] \subseteq c.services
                                      \/ ~Acyclic(c)
<1>1. (\E s \in c.services : ~_safe_build_context(c, s)) <=> c.usable # c.services
  <2>1. c.usable \subseteq c.services BY FileFacts
  <2> QED BY <2>1 DEF _safe_build_context
<1>2. (\A s \in c.services : c.deps[s] \subseteq c.services) =>
          (Len(_topological_order(c)) < Cardinality(c.services) <=> ~Acyclic(c))
  BY FileFacts
<1> QED BY <1>1, <1>2 DEF ComposeManifestError

\* The launching worker orders whatever rows name the services of a file and
\* what each needs.
LEMMA StackOrder == ASSUME NEW c, GoodFile(c), NEW stack, {r.service : r \in stack} = c.services,
                           \A r \in stack : r.deps = c.deps[r.service]
    PROVE _order_stack(stack) = _topological_order(c)
<1>1. c \in ComposeFiles \ {NoCompose} BY DEF GoodFile
<1>2. c.deps \in [c.services -> SUBSET SvcName] BY <1>1, FileFacts
<1>3. \A s \in c.services : c.deps[s] \subseteq c.services BY GoodFacts
<1> DEFINE d == [n \in c.services |-> (CHOOSE r \in stack : r.service = n).deps \cap c.services]
<1>4. ASSUME NEW n \in c.services PROVE d[n] = c.deps[n]
  <2>1. \E r \in stack : r.service = n BY <1>4
  <2>2. PICK q : q = CHOOSE r \in stack : r.service = n OBVIOUS
  <2>3. q \in stack /\ q.service = n BY <2>1, <2>2
  <2>4. d[n] = q.deps \cap c.services BY <2>2
  <2>5. q.deps = c.deps[n] BY <2>3
  <2> QED BY <1>3, <2>4, <2>5
<1>5. d = c.deps BY <1>2, <1>4
<1>6. _order_stack(stack) = Layers(c.services, d, TRUE) BY DEF _order_stack
<1> HIDE DEF d
<1>7. Layers(c.services, c.deps, TRUE) = _topological_order(c) BY GoodFacts
<1> QED BY <1>5, <1>6, <1>7

LEMMA OrdersAgreeHolds == ASSUME compose \in ComposeFiles PROVE OrdersAgree
<1> SUFFICES ASSUME compose # NoCompose PROVE OrdersAgree BY DEF OrdersAgree
<1>0. PICK c : c = compose OBVIOUS
<1>1. c \in ComposeFiles \ {NoCompose} BY <1>0
<1> DEFINE recorded == {[service |-> s, digest |-> s, deps |-> c.deps[s], primary |-> FALSE] : s \in c.services}
           order == _topological_order(c)
<1>2. ComposeManifestError(c) <=> \/ Cardinality(c.services) > MAX_STACK_SERVICES
                                  \/ c.usable # c.services
                                  \/ \E s \in c.services : ~ c.deps[s] \subseteq c.services
                                  \/ ~Acyclic(c)
  BY <1>1, ErrorIs
<1>3. ASSUME ~ComposeManifestError(c)
      PROVE /\ \A i, k \in DOMAIN order : <<order[i], order[k]>> \in Needs(c) => k < i
            /\ Range(order) = c.services
            /\ _order_stack(recorded) = order
  <2>1. GoodFile(c) BY <1>1, <1>3 DEF GoodFile
  <2>2. InOrder(order, c.services, c.deps) BY <1>1, FileFacts
  <2>3. Has(order, c.services) BY <2>1, GoodFacts
  <2>4. _order_stack(recorded) = order
    <3>1. {r.service : r \in recorded} = c.services
      <4>1. \A s \in c.services : \E r \in recorded : r.service = s
        <5> SUFFICES ASSUME NEW s \in c.services PROVE \E r \in recorded : r.service = s OBVIOUS
        <5>1. [service |-> s, digest |-> s, deps |-> c.deps[s], primary |-> FALSE] \in recorded OBVIOUS
        <5> QED BY <5>1
      <4>2. \A r \in recorded : r.service \in c.services OBVIOUS
      <4> HIDE DEF recorded
      <4> QED BY <4>1, <4>2
    <3>2. \A r \in recorded : r.deps = c.deps[r.service] OBVIOUS
    <3> HIDE DEF recorded
    <3> QED BY <2>1, <3>1, <3>2, StackOrder
  <2> HIDE DEF order, recorded
  <2>5. order \in Seq(c.services) /\ DOMAIN order = 1..Len(order) BY <2>2 DEF InOrder
  <2>6. \A i, k \in DOMAIN order : <<order[i], order[k]>> \in Needs(c) => k < i
    <3> SUFFICES ASSUME NEW i \in DOMAIN order, NEW k \in DOMAIN order, <<order[i], order[k]>> \in Needs(c) PROVE k < i
      OBVIOUS
    <3>1. order[k] \in c.deps[order[i]] BY DEF Needs
    <3> QED BY <2>2, <2>5, <3>1 DEF InOrder
  <2>7. Range(order) = c.services BY <2>3, <2>5 DEF Range, Has
  <2> QED BY <2>4, <2>6, <2>7
<1> QED BY <1>0, <1>2, <1>3 DEF OrdersAgree

-----------------------------------------------------------------------------
(* What the workers do with it.  The inductive invariant: a worker's local    *)
(* images are the ones it has built; only a succeeded job has rows, and they  *)
(* name one digest for each service, which the workers of the cache have and  *)
(* every launch ran.                                                          *)

Names(c) == IF c = NoCompose THEN {Solo} ELSE c.services
Accepted(c) == c = NoCompose \/ GoodFile(c)
IdleWorker == [st |-> "idle"]
BusyWorker == [st : {"fetch", "build", "done", "failing"}, fence : Nat, built : Seq(Nat)]
BuildJob == [status : {"absent", "queued", "leased", "succeeded", "dead_letter"},
             holder : Builder \cup {NoBuilder}, fence : Nat, attempts : Nat]

BdTypes ==
    /\ compose \in ComposeFiles
    /\ bjob \in BuildJob
    /\ bw \in [Builder -> {IdleWorker} \cup BusyWorker]
    /\ local \in [Builder -> [SvcName -> Nat]]
    /\ digests \in Nat

HasBuilt(c, b, l) ==
    /\ b.st = "fetch" => b.built = <<>>
    /\ b.st \in {"build", "done"} => Accepted(c) /\ \A i \in 1..Len(b.built) : l[Plan(c)[i]] = b.built[i]
    /\ b.st = "build" => Len(b.built) < Len(Plan(c))
    /\ b.st = "done" => Len(b.built) = Len(Plan(c))
BuiltInv == \A w \in Builder : HasBuilt(compose, bw[w], local[w])

ImageRows(c, D) == {[ref |-> Lead(c), digest |-> D[Lead(c)]]}
StackRow(c, D, s) == [service |-> s, digest |-> D[s], deps |-> c.deps[s], primary |-> s \in IsPrimary(c)]
StackRows(c, D) == {StackRow(c, D, s) : s \in c.services}
RunOf(c, D) == [i \in DOMAIN Plan(c) |-> <<Plan(c)[i], D[Plan(c)[i]]>>]

NothingYet == rows.image = {} /\ rows.stack = {} /\ cache = {} /\ runs = {}
RecordedAs(c, D) ==
    /\ rows.image = ImageRows(c, D) /\ rows.stack = StackRows(c, D)
    /\ cache \subseteq Builder
    /\ \A w \in cache : bw[w].st = "idle" /\ \A s \in Names(c) : local[w][s] = D[s]
    /\ \A started \in runs : started = RunOf(c, D)
RecordedInv ==
    /\ bjob.status # "succeeded" => NothingYet
    /\ bjob.status = "succeeded" => Accepted(compose) /\ \E D \in [Names(compose) -> Nat] : RecordedAs(compose, D)

BdInv == BdTypes /\ BuiltInv /\ RecordedInv

LEMMA GreatestIn == ASSUME NEW n \in Nat, NEW M \in SUBSET (1..n), M # {} PROVE \E m \in M : \A k \in M : k <= m
<1> DEFINE U == {n - m : m \in M}
<1>0. \A m \in M : m \in 1..n /\ n - m \in Nat OBVIOUS
<1>1. U \subseteq Nat /\ U # {} BY <1>0
<1>2. PICK u \in U : \A x \in U : u <= x
  <2> HIDE DEF U
  <2> QED BY <1>1, LeastNatural
<1>3. PICK m \in M : u = n - m BY <1>2
<1>4. ASSUME NEW k \in M PROVE k <= m
  <2>1. n - m <= n - k BY <1>2, <1>3
  <2> QED BY <2>1
<1> QED BY <1>4

LEMMA PlanFacts == ASSUME NEW c \in ComposeFiles, Accepted(c)
    PROVE /\ Names(c) \subseteq SvcName
          /\ Plan(c) \in Seq(Names(c)) /\ Len(Plan(c)) \in Nat /\ Len(Plan(c)) > 0 /\ DOMAIN Plan(c) = 1..Len(Plan(c))
          /\ \A i, j \in 1..Len(Plan(c)) : i # j => Plan(c)[i] # Plan(c)[j]
          /\ Has(Plan(c), Names(c))
          /\ Lead(c) \in Names(c)
          /\ c # NoCompose => Lead(c) \in IsPrimary(c)
<1> DEFINE M == {i \in DOMAIN Plan(c) : c # NoCompose /\ Plan(c)[i] \in IsPrimary(c)}
<1>0. Lead(c) = IF M = {} THEN Plan(c)[1] ELSE Plan(c)[CHOOSE i \in M : \A k \in M : k <= i] BY DEF Lead
<1>1. CASE c = NoCompose
  <2>1. Plan(c) = <<Solo>> /\ Names(c) = {Solo} BY <1>1 DEF Plan, Names
  <2>2. M = {} BY <1>1
  <2> HIDE DEF M
  <2>3. Lead(c) = Solo BY <1>0, <2>1, <2>2
  <2> QED BY <1>1, <2>1, <2>3, BuildsAssumption DEF Has
<1>2. CASE c # NoCompose
  <2>1. GoodFile(c) /\ c \in ComposeFiles \ {NoCompose} BY <1>2 DEF Accepted
  <2>2. Plan(c) = _topological_order(c) /\ Names(c) = c.services BY <1>2 DEF Plan, Names, parse_compose_manifest
  <2>3. InOrder(Plan(c), c.services, c.deps) BY <2>1, <2>2, FileFacts
  <2>4. Has(Plan(c), c.services) BY <2>1, <2>2, GoodFacts
  <2>5. c.services \subseteq SvcName /\ c.services \subseteq Nat /\ c.services # {} /\ c.ports \subseteq c.services BY <2>1, FileFacts
  <2>6. /\ Plan(c) \in Seq(c.services)
        /\ \A i, j \in 1..Len(Plan(c)) : i # j => Plan(c)[i] # Plan(c)[j]
    BY <2>3 DEF InOrder
  <2>7. Len(Plan(c)) \in Nat /\ DOMAIN Plan(c) = 1..Len(Plan(c)) BY <2>6
  <2>8. PICK s \in c.services : s \in IsPrimary(c)
    <3>1. CASE c.ports # {} BY <2>5, <3>1 DEF IsPrimary
    <3>2. CASE c.ports = {}
      <4>1. \E s \in c.services : \A t \in c.services : s <= t BY <2>5, LeastNatural
      <4> QED BY <3>2, <4>1 DEF IsPrimary
    <3> QED BY <3>1, <3>2
  <2>9. PICK i \in 1..Len(Plan(c)) : Plan(c)[i] = s BY <2>4, <2>8 DEF Has
  <2>10. M \in SUBSET (1..Len(Plan(c))) /\ M # {} BY <1>2, <2>7, <2>8, <2>9
  <2>11. \A m \in M : Plan(c)[m] \in IsPrimary(c) OBVIOUS
  <2> HIDE DEF M
  <2>12. \E m \in M : \A k \in M : k <= m BY <2>7, <2>10, GreatestIn
  <2>13. PICK m \in M : Lead(c) = Plan(c)[m] BY <1>0, <2>10, <2>12
  <2>14. Lead(c) \in IsPrimary(c) BY <2>11, <2>13
  <2>15. Lead(c) \in c.services BY <2>6, <2>10, <2>13
  <2>16. Len(Plan(c)) > 0 BY <2>7, <2>9
  <2> QED BY <2>2, <2>4, <2>5, <2>6, <2>7, <2>14, <2>15, <2>16
<1> QED BY <1>1, <1>2

\* A step that records nothing, on workers that the cache does not name.
LEMMA Unrecorded ==
    ASSUME RecordedInv, UNCHANGED <<compose, rows, cache, runs>>,
           bjob'.status = "succeeded" <=> bjob.status = "succeeded",
           \A w \in cache : bw[w].st = "idle" => bw'[w].st = "idle" /\ local'[w] = local[w]
    PROVE RecordedInv'
<1>1. CASE bjob.status # "succeeded" BY <1>1 DEF RecordedInv, NothingYet
<1>2. CASE bjob.status = "succeeded"
  <2>0. PICK c : c = compose OBVIOUS
  <2>1. PICK D \in [Names(c) -> Nat] : RecordedAs(c, D) BY <1>2, <2>0 DEF RecordedInv
  <2>2. \A w \in cache : bw'[w].st = "idle" /\ \A s \in Names(c) : local'[w][s] = D[s] BY <2>1 DEF RecordedAs
  <2>3. RecordedAs(c, D)' BY <2>1, <2>2 DEF RecordedAs
  <2>4. Accepted(c) /\ compose' = c BY <1>2, <2>0 DEF RecordedInv
  <2>5. (\E E \in [Names(compose) -> Nat] : RecordedAs(compose, E))' BY <2>1, <2>3, <2>4
  <2> QED BY <1>2, <2>4, <2>5 DEF RecordedInv
<1> QED BY <1>1, <1>2

\* Steps of the job alone.
LEMMA JobStep == ASSUME BdInv, bjob' \in BuildJob, UNCHANGED <<compose, bw, local, rows, cache, runs, digests>>,
                        bjob'.status = "succeeded" <=> bjob.status = "succeeded"
    PROVE BdInv'
<1>1. BdTypes' BY DEF BdInv, BdTypes
<1>2. BuiltInv' BY DEF BdInv, BuiltInv
<1>3. RecordedInv' BY Unrecorded DEF BdInv
<1> QED BY <1>1, <1>2, <1>3 DEF BdInv

\* Steps of one worker that record nothing.
LEMMA WorkerStep ==
    ASSUME BdInv, bjob' \in BuildJob, UNCHANGED <<compose, rows, cache, runs>>, digests' \in Nat,
           bjob'.status = "succeeded" <=> bjob.status = "succeeded",
           NEW w \in Builder, bw[w].st # "idle" \/ bjob.status # "succeeded",
           NEW b \in {IdleWorker} \cup BusyWorker, NEW l \in [SvcName -> Nat],
           bw' = [bw EXCEPT ![w] = b], local' = [local EXCEPT ![w] = l], HasBuilt(compose, b, l)
    PROVE BdInv'
<1>0. bw \in [Builder -> {IdleWorker} \cup BusyWorker] /\ local \in [Builder -> [SvcName -> Nat]] BY DEF BdInv, BdTypes
<1>1. BdTypes' BY DEF BdInv, BdTypes
<1>2. \A v \in Builder : (v = w /\ bw'[v] = b /\ local'[v] = l) \/ (v # w /\ bw'[v] = bw[v] /\ local'[v] = local[v]) BY <1>0
<1>3. BuiltInv'
  <2> SUFFICES ASSUME NEW v \in Builder PROVE HasBuilt(compose', bw'[v], local'[v]) BY DEF BuiltInv
  <2>1. HasBuilt(compose, bw[v], local[v]) BY DEF BdInv, BuiltInv
  <2> QED BY <1>2, <2>1
<1>4. RecordedInv'
  <2>1. CASE bjob.status # "succeeded" BY <2>1 DEF BdInv, RecordedInv, NothingYet
  <2>2. CASE bjob.status = "succeeded"
    <3>1. cache \subseteq Builder BY <2>2 DEF BdInv, RecordedInv, RecordedAs
    <3>2. \A v \in cache : bw[v].st = "idle" => bw'[v].st = "idle" /\ local'[v] = local[v] BY <1>2, <2>2, <3>1
    <3> QED BY <3>2, Unrecorded DEF BdInv
  <2> QED BY <2>1, <2>2
<1> QED BY <1>1, <1>3, <1>4 DEF BdInv

LEMMA SameLocal == ASSUME BdInv, NEW w \in Builder
    PROVE /\ local = [local EXCEPT ![w] = local[w]] /\ local[w] \in [SvcName -> Nat]
          /\ bw[w] \in {IdleWorker} \cup BusyWorker /\ HasBuilt(compose, bw[w], local[w])
          /\ bw[w].st # "idle" => bw[w] \in BusyWorker
<1>1. local \in [Builder -> [SvcName -> Nat]] /\ bw \in [Builder -> {IdleWorker} \cup BusyWorker] BY DEF BdInv, BdTypes
<1>2. bw[w] \in {IdleWorker} \cup BusyWorker BY <1>1
<1>3. local = [local EXCEPT ![w] = local[w]] /\ local[w] \in [SvcName -> Nat] BY <1>1
<1>4. HasBuilt(compose, bw[w], local[w]) BY DEF BdInv, BuiltInv
<1>5. bw[w].st # "idle" => bw[w] \in BusyWorker BY <1>2 DEF IdleWorker
<1> QED BY <1>2, <1>3, <1>4, <1>5

LEMMA IdleBuilt == ASSUME NEW c, NEW l PROVE HasBuilt(c, IdleWorker, l)
BY DEF HasBuilt, IdleWorker

LEMMA JobActions == ASSUME BdInv, trigger_build \/ ReapBuild \/ RetryBuild PROVE BdInv'
<1>0. bjob \in BuildJob BY DEF BdInv, BdTypes
<1>1. CASE trigger_build
  <2>1. bjob' \in BuildJob /\ (bjob'.status = "succeeded" <=> bjob.status = "succeeded") BY <1>0, <1>1 DEF trigger_build, BuildJob
  <2> QED BY <1>1, <2>1, JobStep DEF trigger_build
<1>2. CASE ReapBuild
  <2>1. bjob' \in BuildJob /\ (bjob'.status = "succeeded" <=> bjob.status = "succeeded") BY <1>0, <1>2 DEF ReapBuild, BuildJob
  <2> QED BY <1>2, <2>1, JobStep DEF ReapBuild
<1>3. CASE RetryBuild
  <2>1. bjob' \in BuildJob /\ (bjob'.status = "succeeded" <=> bjob.status = "succeeded") BY <1>0, <1>3 DEF RetryBuild, BuildJob
  <2> QED BY <1>3, <2>1, JobStep DEF RetryBuild
<1> QED BY <1>1, <1>2, <1>3

LEMMA ClaimStep == ASSUME BdInv, NEW w \in Builder, BuildClaim(w) PROVE BdInv'
<1>0. bjob \in BuildJob /\ digests \in Nat BY DEF BdInv, BdTypes
<1> DEFINE b == [st |-> "fetch", fence |-> bjob.fence + 1, built |-> <<>>]
<1>1. b \in BusyWorker
  <2>1. bjob.fence + 1 \in Nat BY <1>0 DEF BuildJob
  <2>2. <<>> \in Seq(Nat) OBVIOUS
  <2> QED BY <2>1, <2>2 DEF BusyWorker
<1>2. bjob' \in BuildJob /\ bjob'.status = "leased" /\ bjob.status = "queued" BY <1>0 DEF BuildClaim, BuildJob
<1>3. HasBuilt(compose, b, local[w]) BY DEF HasBuilt
<1>4. bw' = [bw EXCEPT ![w] = b] /\ UNCHANGED <<compose, local, rows, cache, runs, digests>> BY DEF BuildClaim
<1>5. local' = [local EXCEPT ![w] = local[w]] /\ local[w] \in [SvcName -> Nat] BY <1>4, SameLocal
<1> HIDE DEF b
<1> QED BY <1>0, <1>1, <1>2, <1>3, <1>4, <1>5, WorkerStep

LEMMA FailingStep == ASSUME BdInv, NEW w \in Builder, bw[w].st # "idle", GiveUp(w),
                            UNCHANGED <<compose, bjob, local, rows, cache, runs, digests>> PROVE BdInv'
<1>0. bjob \in BuildJob /\ digests \in Nat BY DEF BdInv, BdTypes
<1> DEFINE b == [bw[w] EXCEPT !.st = "failing"]
<1>1. bw[w] \in BusyWorker BY SameLocal
<1>2. b \in BusyWorker /\ b.st = "failing" BY <1>1 DEF BusyWorker
<1>3. HasBuilt(compose, b, local[w]) BY <1>2 DEF HasBuilt
<1>4. bw' = [bw EXCEPT ![w] = b] BY DEF GiveUp
<1>5. local' = [local EXCEPT ![w] = local[w]] /\ local[w] \in [SvcName -> Nat] BY SameLocal
<1>6. bjob' \in BuildJob /\ digests' \in Nat /\ (bjob'.status = "succeeded" <=> bjob.status = "succeeded") BY <1>0
<1> HIDE DEF b
<1> QED BY <1>2, <1>3, <1>4, <1>5, <1>6, WorkerStep

LEMMA FetchStep == ASSUME BdInv, NEW w \in Builder, fetch_build_bundle(w) PROVE BdInv'
<1>0. bjob \in BuildJob /\ digests \in Nat /\ compose \in ComposeFiles BY DEF BdInv, BdTypes
<1>1. bw[w].st = "fetch" /\ UNCHANGED <<compose, bjob, local, rows, cache, runs, digests>> BY DEF fetch_build_bundle
<1>2. CASE GiveUp(w) BY <1>1, <1>2, FailingStep
<1>3. CASE (compose = NoCompose \/ ~ComposeManifestError(compose)) /\ bw' = [bw EXCEPT ![w].st = "build"]
  <2> DEFINE b == [bw[w] EXCEPT !.st = "build"]
  <2>1. bw[w] \in BusyWorker /\ bw[w].built = <<>> BY <1>1, SameLocal DEF HasBuilt
  <2>2. b \in BusyWorker /\ b.st = "build" /\ b.built = <<>> BY <2>1 DEF BusyWorker
  <2>3. Accepted(compose) BY <1>0, <1>3 DEF Accepted, GoodFile
  <2>4. Len(Plan(compose)) > 0 BY <1>0, <2>3, PlanFacts
  <2>5. HasBuilt(compose, b, local[w]) BY <2>2, <2>3, <2>4 DEF HasBuilt
  <2>6. bw' = [bw EXCEPT ![w] = b] BY <1>3
  <2>7. local' = [local EXCEPT ![w] = local[w]] /\ local[w] \in [SvcName -> Nat] BY <1>1, SameLocal
  <2>8. bjob' \in BuildJob /\ digests' \in Nat /\ (bjob'.status = "succeeded" <=> bjob.status = "succeeded") BY <1>0, <1>1
  <2> HIDE DEF b
  <2> QED BY <1>1, <2>2, <2>5, <2>6, <2>7, <2>8, WorkerStep
<1> QED BY <1>2, <1>3 DEF fetch_build_bundle

LEMMA ImageStep == ASSUME BdInv, NEW w \in Builder, _build_image(w) PROVE BdInv'
<1>0. bjob \in BuildJob /\ digests \in Nat /\ compose \in ComposeFiles BY DEF BdInv, BdTypes
<1>1. bw[w].st = "build" /\ UNCHANGED <<compose, bjob, rows, cache, runs>> BY DEF _build_image
<1>2. CASE GiveUp(w) /\ UNCHANGED <<local, digests>> BY <1>1, <1>2, FailingStep
<1> DEFINE s == Plan(compose)[Len(bw[w].built) + 1]
           now == Append(bw[w].built, digests + 1)
           b == [bw[w] EXCEPT !.built = now, !.st = IF Len(now) = Len(Plan(compose)) THEN "done" ELSE "build"]
           l == [local[w] EXCEPT ![s] = digests + 1]
<1>3. CASE /\ local' = [local EXCEPT ![w][s] = digests + 1]
           /\ bw' = [bw EXCEPT ![w].built = now, ![w].st = IF Len(now) = Len(Plan(compose)) THEN "done" ELSE "build"]
           /\ digests' = digests + 1
  <2>1. bw[w] \in BusyWorker BY <1>1, SameLocal
  <2>2. bw[w].built \in Seq(Nat) BY <2>1 DEF BusyWorker
  <2>3. PICK o, p, c : o = bw[w].built /\ p = Plan(c) /\ c = compose OBVIOUS
  <2>4. Accepted(c) /\ Len(o) < Len(p) /\ \A i \in 1..Len(o) : local[w][p[i]] = o[i]
    BY <1>1, <2>3, SameLocal DEF HasBuilt
  <2>5. /\ p \in Seq(Names(c)) /\ Names(c) \subseteq SvcName /\ Len(p) \in Nat
        /\ \A i, j \in 1..Len(p) : i # j => p[i] # p[j]
    BY <1>0, <2>3, <2>4, PlanFacts
  <2>6. o \in Seq(Nat) /\ Len(o) \in Nat /\ digests + 1 \in Nat BY <1>0, <2>2, <2>3
  <2>7. now = Append(o, digests + 1) /\ s = p[Len(o) + 1] BY <2>3
  <2>8. /\ now \in Seq(Nat) /\ Len(now) = Len(o) + 1
        /\ \A i \in 1..Len(o) : now[i] = o[i]
        /\ now[Len(o) + 1] = digests + 1
    <3>1. PICK d \in Nat : d = digests + 1 BY <2>6
    <3>2. /\ Append(o, d) \in Seq(Nat) /\ Len(Append(o, d)) = Len(o) + 1
          /\ \A i \in 1..Len(o) : Append(o, d)[i] = o[i]
          /\ Append(o, d)[Len(o) + 1] = d
      BY <2>6, <3>1
    <3> HIDE DEF now
    <3> QED BY <2>7, <3>1, <3>2
  <2>9. local[w] \in [SvcName -> Nat] /\ s \in SvcName
    <3>1. Len(o) + 1 \in 1..Len(p) BY <2>4, <2>5, <2>6
    <3> QED BY <2>5, <2>7, <3>1, SameLocal
  <2>10. l \in [SvcName -> Nat] BY <2>6, <2>9
  <2>11. bw' = [bw EXCEPT ![w] = b] /\ local' = [local EXCEPT ![w] = l] BY <1>3
  <2>12. b \in BusyWorker /\ b.built = now /\ b.st = IF Len(now) = Len(Plan(compose)) THEN "done" ELSE "build"
    <3> HIDE DEF now
    <3> QED BY <2>1, <2>8 DEF BusyWorker
  <2>13. \A i \in 1..Len(now) : l[p[i]] = now[i]
    <3> SUFFICES ASSUME NEW i \in 1..Len(now) PROVE l[p[i]] = now[i] OBVIOUS
    <3>1. CASE i = Len(o) + 1 BY <2>7, <2>8, <2>9, <3>1
    <3>2. CASE i # Len(o) + 1
      <4>1. i \in 1..Len(o) /\ i \in 1..Len(p) /\ Len(o) + 1 \in 1..Len(p) BY <2>4, <2>5, <2>6, <2>8, <3>2
      <4>2. p[i] # s /\ p[i] \in SvcName BY <2>5, <2>7, <3>2, <4>1
      <4>3. l[p[i]] = local[w][p[i]] BY <2>9, <4>2
      <4> QED BY <2>4, <2>8, <4>1, <4>3
    <3> QED BY <3>1, <3>2
  <2> HIDE DEF now, l, b, s
  <2>14. HasBuilt(compose, b, l)
    <3>1. Len(now) <= Len(p) /\ Len(now) \in Nat BY <2>4, <2>5, <2>6, <2>8
    <3>2. b.st \in {"build", "done"} /\ (b.st = "done" <=> Len(now) = Len(p)) BY <2>3, <2>12
    <3>3. b.st = "build" => Len(now) < Len(p) BY <2>5, <3>1, <3>2
    <3> QED BY <2>3, <2>4, <2>12, <2>13, <3>2, <3>3 DEF HasBuilt
  <2>15. bjob' \in BuildJob /\ digests' \in Nat /\ (bjob'.status = "succeeded" <=> bjob.status = "succeeded")
    BY <1>0, <1>1, <1>3
  <2> QED BY <1>1, <2>10, <2>11, <2>12, <2>14, <2>15, WorkerStep
<1> QED BY <1>2, <1>3 DEF _build_image

LEMMA LeaveStep == ASSUME BdInv, NEW w \in Builder, bw[w].st # "idle", bw' = [bw EXCEPT ![w] = [st |-> "idle"]],
                          bjob' \in BuildJob, bjob'.status = "succeeded" <=> bjob.status = "succeeded",
                          UNCHANGED <<compose, local, rows, cache, runs, digests>>
    PROVE BdInv'
<1>1. bw' = [bw EXCEPT ![w] = IdleWorker] BY DEF IdleWorker
<1>2. local' = [local EXCEPT ![w] = local[w]] /\ local[w] \in [SvcName -> Nat] BY SameLocal
<1>3. HasBuilt(compose, IdleWorker, local[w]) BY IdleBuilt
<1>4. digests' \in Nat BY DEF BdInv, BdTypes
<1> QED BY <1>1, <1>2, <1>3, <1>4, WorkerStep

LEMMA LeaveActions == ASSUME BdInv, NEW w \in Builder, FailBuild(w) \/ DieBuilding(w) PROVE BdInv'
<1>0. bjob \in BuildJob BY DEF BdInv, BdTypes
<1>1. CASE FailBuild(w)
  <2>1. bjob' \in BuildJob /\ (bjob'.status = "succeeded" <=> bjob.status = "succeeded")
    <3>1. CASE BuildLease(w)
      <4>1. bjob' = [bjob EXCEPT !.status = IF bjob.attempts >= MaxDelivery THEN "dead_letter" ELSE "queued", !.holder = NoBuilder]
        BY <1>1, <3>1 DEF FailBuild
      <4>2. bjob.status = "leased" BY <3>1 DEF BuildLease
      <4> QED BY <1>0, <4>1, <4>2 DEF BuildJob
    <3>2. CASE ~BuildLease(w)
      <4>1. bjob' = bjob BY <1>1, <3>2 DEF FailBuild
      <4> QED BY <1>0, <4>1
    <3> QED BY <3>1, <3>2
  <2>2. bw[w].st = "failing" BY <1>1 DEF FailBuild
  <2>3. bw[w].st # "idle" BY <2>2
  <2>4. bw' = [bw EXCEPT ![w] = [st |-> "idle"]] /\ UNCHANGED <<compose, local, rows, cache, runs, digests>> BY <1>1 DEF FailBuild
  <2> QED BY <2>1, <2>3, <2>4, LeaveStep
<1>2. CASE DieBuilding(w)
  <2>1. bjob' \in BuildJob /\ (bjob'.status = "succeeded" <=> bjob.status = "succeeded") BY <1>0, <1>2 DEF DieBuilding
  <2> QED BY <1>2, <2>1, LeaveStep DEF DieBuilding
<1> QED BY <1>1, <1>2

LEMMA DigestIs == ASSUME NEW c \in ComposeFiles, Accepted(c), c = compose, NEW w, NEW l, HasBuilt(c, bw[w], l),
                         bw[w].st = "done", NEW s \in Names(c)
    PROVE Digest(w, s) = l[s]
<1>1. PICK p : p = Plan(c) OBVIOUS
<1>2. DOMAIN p = 1..Len(p) /\ \E i \in DOMAIN p : p[i] = s BY <1>1, PlanFacts DEF Has
<1>3. PICK k : k = CHOOSE i \in DOMAIN p : p[i] = s OBVIOUS
<1>4. k \in 1..Len(p) /\ p[k] = s BY <1>2, <1>3
<1>5. Digest(w, s) = bw[w].built[k] BY <1>1, <1>3 DEF Digest
<1>6. Len(bw[w].built) = Len(p) /\ \A i \in 1..Len(bw[w].built) : l[p[i]] = bw[w].built[i] BY <1>1 DEF HasBuilt
<1> QED BY <1>4, <1>5, <1>6

LEMMA CompleteStep == ASSUME BdInv, NEW w \in Builder, CompleteBuild(w) PROVE BdInv'
<1>0. bjob \in BuildJob /\ digests \in Nat /\ compose \in ComposeFiles BY DEF BdInv, BdTypes
<1>1. /\ bw[w].st = "done" /\ bw' = [bw EXCEPT ![w] = [st |-> "idle"]]
      /\ UNCHANGED <<compose, local, runs, digests>>
  BY DEF CompleteBuild
<1>2. CASE ~BuildLease(w) /\ UNCHANGED <<rows, cache, bjob>>
  <2>1. bjob' \in BuildJob /\ (bjob'.status = "succeeded" <=> bjob.status = "succeeded") BY <1>0, <1>2
  <2>2. bw[w].st # "idle" BY <1>1
  <2> QED BY <1>1, <1>2, <2>1, <2>2, LeaveStep
<1>3. CASE /\ BuildLease(w) /\ Recorded(w)
           /\ bjob' = [bjob EXCEPT !.status = "succeeded", !.holder = NoBuilder]
  <2>0. PICK c, l : c = compose /\ l = local[w] OBVIOUS
  <2>1. bjob.status = "leased" BY <1>3 DEF BuildLease
  <2>2. NothingYet BY <2>1 DEF BdInv, RecordedInv
  <2>3. HasBuilt(c, bw[w], l) /\ Accepted(c) BY <1>1, <2>0, SameLocal DEF HasBuilt
  <2>4. l \in [SvcName -> Nat] BY <2>0, SameLocal
  <2>5. Names(c) \subseteq SvcName /\ Lead(c) \in Names(c) BY <1>0, <2>0, <2>3, PlanFacts
  <2> DEFINE D == [s \in Names(c) |-> l[s]]
  <2>6. D \in [Names(c) -> Nat] BY <2>4, <2>5
  <2>7. \A s \in Names(c) : Digest(w, s) = D[s]
    <3> SUFFICES ASSUME NEW s \in Names(c) PROVE Digest(w, s) = D[s] OBVIOUS
    <3>1. c \in ComposeFiles /\ c = compose BY <1>0, <2>0
    <3>2. Digest(w, s) = l[s] BY <1>1, <2>3, <3>1, DigestIs
    <3> QED BY <3>2
  <2>8. \A s \in c.services : s \in Names(c) BY DEF Names, NoCompose
  <2> HIDE DEF D
  <2>9. BuildCompletion(w).image = ImageRows(c, D)
    <3>1. BuildCompletion(w).image = {[ref |-> Lead(c), digest |-> Digest(w, Lead(c))]} BY <2>0 DEF BuildCompletion
    <3> QED BY <2>5, <2>7, <3>1 DEF ImageRows
  <2>10. BuildCompletion(w).stack = StackRows(c, D)
    <3>1. BuildCompletion(w).stack = {ServiceImage(w, s) : s \in c.services} BY <2>0 DEF BuildCompletion
    <3>2. \A s \in c.services : ServiceImage(w, s) = StackRow(c, D, s)
      BY <2>0, <2>7, <2>8 DEF ServiceImage, StackRow, parse_compose_manifest
    <3> QED BY <3>1, <3>2 DEF StackRows
  <2>11. rows'.image = ImageRows(c, D) /\ rows'.stack = StackRows(c, D) /\ cache' = {w} /\ runs' = {}
    BY <1>1, <1>3, <2>2, <2>9, <2>10 DEF Recorded, AddImages, AddServices, NothingYet
  <2>12. bw \in [Builder -> {IdleWorker} \cup BusyWorker] BY DEF BdInv, BdTypes
  <2>13. bw'[w] = IdleWorker /\ \A v \in Builder : v # w => bw'[v] = bw[v] BY <1>1, <2>12 DEF IdleWorker
  <2>14. \A s \in Names(c) : local'[w][s] = D[s] BY <1>1, <2>0 DEF D
  <2>15. RecordedAs(c, D)' BY <2>11, <2>13, <2>14 DEF RecordedAs, IdleWorker
  <2>16. (\E E \in [Names(compose) -> Nat] : RecordedAs(compose, E))' BY <1>1, <2>0, <2>6, <2>15
  <2>17. bjob' \in BuildJob /\ bjob'.status = "succeeded" BY <1>0, <1>3 DEF BuildJob
  <2>18. compose' = c BY <1>1, <2>0
  <2>19. RecordedInv' BY <2>3, <2>16, <2>17, <2>18 DEF RecordedInv
  <2>20. BdTypes'
    <3>1. bw' \in [Builder -> {IdleWorker} \cup BusyWorker] BY <1>1, <2>12 DEF IdleWorker
    <3> QED BY <1>1, <2>17, <3>1 DEF BdInv, BdTypes
  <2>21. BuiltInv'
    <3> SUFFICES ASSUME NEW v \in Builder PROVE HasBuilt(compose', bw'[v], local'[v]) BY DEF BuiltInv
    <3>1. CASE v = w BY <2>13, <3>1, IdleBuilt
    <3>2. CASE v # w
      <4>1. HasBuilt(compose, bw[v], local[v]) BY DEF BdInv, BuiltInv
      <4> QED BY <1>1, <2>13, <3>2, <4>1
    <3> QED BY <3>1, <3>2
  <2> QED BY <2>19, <2>20, <2>21 DEF BdInv
<1> QED BY <1>2, <1>3 DEF CompleteBuild

LEMMA LaunchStep == ASSUME BdInv, NEW w \in Builder, LaunchOn(w) PROVE BdInv'
<1>0. bjob \in BuildJob /\ compose \in ComposeFiles BY DEF BdInv, BdTypes
<1>1. UNCHANGED <<compose, bjob, bw, local, rows, cache, digests>> /\ rows.image # {} BY DEF LaunchOn
<1>2. bjob.status = "succeeded" BY <1>1 DEF BdInv, RecordedInv, NothingYet
<1>3. PICK c : c = compose OBVIOUS
<1>4. Accepted(c) BY <1>2, <1>3 DEF BdInv, RecordedInv
<1>5. PICK D \in [Names(c) -> Nat] : RecordedAs(c, D) BY <1>2, <1>3 DEF BdInv, RecordedInv
<1>6. rows.image = ImageRows(c, D) /\ rows.stack = StackRows(c, D) BY <1>5 DEF RecordedAs
<1>7. PICK ref : ref = latest_image_ref_for_version OBVIOUS
<1>8. ref = Lead(c)
  <2>1. \A r \in rows.image : r.ref = Lead(c) BY <1>6 DEF ImageRows
  <2>2. PICK q : q = CHOOSE r \in rows.image : TRUE OBVIOUS
  <2>3. q \in rows.image BY <1>1, <2>2
  <2> QED BY <1>7, <2>1, <2>2, <2>3 DEF latest_image_ref_for_version
<1>9. \E r \in rows.image : r.ref = Lead(c) /\ r.digest = D[Lead(c)] BY <1>6 DEF ImageRows
<1>10. /\ Lead(c) \in Names(c) /\ (c # NoCompose => Lead(c) \in IsPrimary(c))
       /\ Plan(c) \in Seq(Names(c)) /\ DOMAIN Plan(c) = 1..Len(Plan(c))
  BY <1>0, <1>3, <1>4, PlanFacts
<1>11. PICK stack : stack = stack_for_primary_image(ref) OBVIOUS
<1>12. \E order : runs' = runs \cup {order} /\ order = RunOf(c, D)
  <2>1. CASE c = NoCompose
    <3>1. rows.stack = {} BY <1>6, <2>1 DEF StackRows, NoCompose
    <3>2. stack = {} BY <1>11, <3>1 DEF stack_for_primary_image
    <3>3. /\ \A r \in rows.image : ~_refuse_on_digest_mismatch(w, r.ref, r.digest)
          /\ runs' = runs \cup {<< <<ref, local[w][ref]>> >>}
      BY <1>7, <1>11, <3>2 DEF LaunchOn
    <3>4. local[w][ref] = D[ref] BY <1>8, <1>9, <3>3 DEF _refuse_on_digest_mismatch
    <3>5. Plan(c) = <<Solo>> /\ Names(c) = {Solo} BY <2>1 DEF Plan, Names
    <3>6. ref = Solo BY <1>8, <1>10, <3>5
    <3>7. RunOf(c, D) = << <<Solo, D[Solo]>> >> BY <3>5 DEF RunOf
    <3> QED BY <3>3, <3>4, <3>6, <3>7
  <2>2. CASE c # NoCompose
    <3>1. GoodFile(c) /\ Names(c) = c.services BY <1>4, <2>2 DEF Accepted, Names
    <3>2. StackRow(c, D, Lead(c)) \in rows.stack /\ StackRow(c, D, Lead(c)).service = ref /\ StackRow(c, D, Lead(c)).primary
      BY <1>6, <1>8, <1>10, <2>2, <3>1 DEF StackRow, StackRows
    <3>3. stack = rows.stack /\ stack # {} BY <1>11, <3>2 DEF stack_for_primary_image
    <3>4. /\ \A r \in stack : ~_refuse_on_digest_mismatch(w, r.service, r.digest)
          /\ runs' = runs \cup {[i \in DOMAIN _order_stack(stack) |-> <<_order_stack(stack)[i], local[w][_order_stack(stack)[i]]>>]}
      BY <1>7, <1>11, <3>3 DEF LaunchOn
    <3>5. \A s \in c.services : StackRow(c, D, s) \in stack /\ StackRow(c, D, s).service = s /\ StackRow(c, D, s).digest = D[s]
      BY <1>6, <3>3 DEF StackRow, StackRows
    <3>6. \A s \in c.services : local[w][s] = D[s] BY <3>4, <3>5 DEF _refuse_on_digest_mismatch
    <3>7. \A r \in stack : r.service \in c.services /\ r.deps = c.deps[r.service] BY <1>6, <3>3 DEF StackRow, StackRows
    <3>8. {r.service : r \in stack} = c.services BY <3>5, <3>7
    <3>9. _order_stack(stack) = Plan(c)
      <4>1. _order_stack(stack) = _topological_order(c) BY <3>1, <3>7, <3>8, StackOrder
      <4> QED BY <2>2, <4>1 DEF Plan, parse_compose_manifest
    <3>10. \A i \in DOMAIN Plan(c) : local[w][Plan(c)[i]] = D[Plan(c)[i]] BY <1>10, <3>1, <3>6
    <3> QED BY <3>4, <3>9, <3>10 DEF RunOf
  <2> QED BY <2>1, <2>2
<1>13. RecordedAs(c, D)' BY <1>1, <1>5, <1>12 DEF RecordedAs
<1>14. (\E E \in [Names(compose) -> Nat] : RecordedAs(compose, E))' BY <1>1, <1>3, <1>13
<1>15. RecordedInv' BY <1>1, <1>2, <1>3, <1>4, <1>14 DEF RecordedInv
<1>16. BdTypes' BY <1>1 DEF BdInv, BdTypes
<1>17. BuiltInv' BY <1>1 DEF BdInv, BuiltInv
<1> QED BY <1>15, <1>16, <1>17 DEF BdInv

LEMMA BdInit_Inv == BdInit => BdInv
<1> SUFFICES ASSUME BdInit PROVE BdInv OBVIOUS
<1>1. BdTypes BY DEF BdInit, BdTypes, BuildJob, IdleWorker, NoImage
<1>2. BuiltInv BY IdleBuilt DEF BdInit, BuiltInv, IdleWorker
<1>3. RecordedInv BY DEF BdInit, RecordedInv, NothingYet
<1> QED BY <1>1, <1>2, <1>3 DEF BdInv

LEMMA BdNext_Inv == BdInv /\ [BdNext]_bdVars => BdInv'
<1> SUFFICES ASSUME BdInv, [BdNext]_bdVars PROVE BdInv' OBVIOUS
<1>1. CASE UNCHANGED bdVars
  <2>1. bjob' \in BuildJob BY <1>1 DEF BdInv, BdTypes, bdVars
  <2> QED BY <1>1, <2>1, JobStep DEF bdVars
<1>2. CASE trigger_build \/ ReapBuild \/ RetryBuild BY <1>2, JobActions
<1>3. ASSUME NEW w \in Builder,
             \/ BuildClaim(w) \/ fetch_build_bundle(w) \/ _build_image(w)
             \/ CompleteBuild(w) \/ FailBuild(w) \/ DieBuilding(w) \/ LaunchOn(w)
      PROVE BdInv'
  BY <1>3, ClaimStep, FetchStep, ImageStep, CompleteStep, LeaveActions, LaunchStep
<1> QED BY <1>1, <1>2, <1>3 DEF BdNext

LEMMA BdInv_Safe == BdInv => BuildsSafe
<1> SUFFICES ASSUME BdInv PROVE BuildsSafe OBVIOUS
<1>0. compose \in ComposeFiles BY DEF BdInv, BdTypes
<1>1. OrdersAgree BY <1>0, OrdersAgreeHolds
<1>2. CASE bjob.status # "succeeded"
  <2>1. NothingYet BY <1>2 DEF BdInv, RecordedInv
  <2>2. {r.service : r \in rows.stack} = {} BY <2>1 DEF NothingYet
  <2>3. NoHalfBuild BY <1>2, <2>1, <2>2 DEF NoHalfBuild, NothingYet
  <2>4. CacheHonest /\ WholeStackRuns BY <2>1 DEF CacheHonest, WholeStackRuns, NothingYet
  <2> QED BY <1>1, <2>3, <2>4 DEF BuildsSafe
<1>3. CASE bjob.status = "succeeded"
  <2>1. PICK c : c = compose OBVIOUS
  <2>2. Accepted(c) BY <1>3, <2>1 DEF BdInv, RecordedInv
  <2>3. PICK D \in [Names(c) -> Nat] : RecordedAs(c, D) BY <1>3, <2>1 DEF BdInv, RecordedInv
  <2>4. rows.image = ImageRows(c, D) /\ rows.stack = StackRows(c, D) BY <2>3 DEF RecordedAs
  <2>5. \A r \in rows.stack : r.service \in c.services /\ r.digest = D[r.service] BY <2>4 DEF StackRows, StackRow
  <2>6. \A s \in c.services : \E r \in rows.stack : r.service = s /\ r.digest = D[s]
    <3> SUFFICES ASSUME NEW s \in c.services PROVE \E r \in rows.stack : r.service = s /\ r.digest = D[s] OBVIOUS
    <3>1. StackRow(c, D, s) \in rows.stack BY <2>4 DEF StackRows
    <3>2. StackRow(c, D, s).service = s /\ StackRow(c, D, s).digest = D[s] BY DEF StackRow
    <3> QED BY <3>1, <3>2
  <2>7. rows.image # {} /\ \A r \in rows.image : r.ref = Lead(c) /\ r.digest = D[Lead(c)] BY <2>4 DEF ImageRows
  <2>8. NoHalfBuild
    <3>1. {r.service : r \in rows.stack} = c.services BY <2>5, <2>6
    <3> QED BY <2>1, <2>7, <3>1 DEF NoHalfBuild
  <2>9. \A s \in c.services : s \in Names(c) BY DEF Names, NoCompose
  <2>10. /\ Lead(c) \in Names(c) /\ Plan(c) \in Seq(Names(c)) /\ DOMAIN Plan(c) = 1..Len(Plan(c))
    BY <1>0, <2>1, <2>2, PlanFacts
  <2>11. CacheHonest
    <3>1. \A w \in cache : \A s \in Names(c) : local[w][s] = D[s] BY <2>3 DEF RecordedAs
    <3> QED BY <2>5, <2>7, <2>9, <2>10, <3>1 DEF CacheHonest
  <2>12. WholeStackRuns
    <3> SUFFICES ASSUME NEW started \in runs
                 PROVE IF compose = NoCompose THEN started = << <<Solo, (CHOOSE r \in rows.image : TRUE).digest>> >>
                       ELSE /\ [i \in DOMAIN started |-> started[i][1]] = _topological_order(compose)
                            /\ \A i \in DOMAIN started : \E r \in rows.stack : r.service = started[i][1] /\ r.digest = started[i][2]
      BY DEF WholeStackRuns
    <3>1. started = RunOf(c, D) BY <2>3 DEF RecordedAs
    <3>2. CASE c = NoCompose
      <4>1. Plan(c) = <<Solo>> /\ Names(c) = {Solo} BY <3>2 DEF Plan, Names
      <4>2. started = << <<Solo, D[Solo]>> >> BY <3>1, <4>1 DEF RunOf
      <4>3. PICK q : q = CHOOSE r \in rows.image : TRUE OBVIOUS
      <4>4. q.digest = D[Solo] BY <2>7, <2>10, <4>1, <4>3
      <4> QED BY <2>1, <3>2, <4>2, <4>3, <4>4
    <3>3. CASE c # NoCompose
      <4>1. Plan(c) = _topological_order(c) /\ Names(c) = c.services BY <3>3 DEF Plan, Names, parse_compose_manifest
      <4>2. DOMAIN started = DOMAIN Plan(c) /\ \A i \in DOMAIN started : started[i][1] = Plan(c)[i] /\ started[i][2] = D[Plan(c)[i]]
        BY <3>1 DEF RunOf
      <4>3. [i \in DOMAIN started |-> started[i][1]] = Plan(c) BY <2>10, <4>2
      <4>4. \A i \in DOMAIN started : Plan(c)[i] \in c.services BY <2>10, <4>1, <4>2
      <4>5. \A i \in DOMAIN started : \E r \in rows.stack : r.service = started[i][1] /\ r.digest = started[i][2] BY <2>6, <4>2, <4>4
      <4> QED BY <2>1, <3>3, <4>1, <4>3, <4>5
    <3> QED BY <3>2, <3>3
  <2> QED BY <1>1, <2>8, <2>11, <2>12 DEF BuildsSafe
<1> QED BY <1>2, <1>3

\* For any compose files, workers and leases: a compose file is accepted exactly
\* when nothing stands against it, the worker that builds and the one that
\* launches place its services in the same order, a succeeded job has left all
\* of its rows, and a launch runs the recorded images of the whole stack
\* (compose_manifest.py _topological_order, worker_job_service.py complete,
\* worker.py _do_launch).
THEOREM BuildsSafeHolds == BdSpec => []BuildsSafe
<1>1. BdInv /\ [BdNext]_bdVars => BdInv' BY BdNext_Inv
<1>2. BdInit => BdInv BY BdInit_Inv
<1>3. BdInv => BuildsSafe BY BdInv_Safe
<1> QED BY <1>1, <1>2, <1>3, PTL DEF BdSpec

-----------------------------------------------------------------------------
(* The scenario engine.  The inductive invariant.                            *)

ScTyped ==
    /\ scn \in Scenarios
    /\ tick \in Nat /\ turn \in Turns /\ (turn # "done" => tick < MaxTicks)
    /\ IsSeq(pending) /\ (turn \in {"attack", "defend"} => pending # <<>>)
    /\ IsSeq(records)
    /\ \A n \in DOMAIN records : records[n].tick \in Nat /\ records[n].tick <= tick

\* What was applied in this tick was applied after the attacker decided.
AppliedBefore == turn \in {"poll", "attacker"} => \A n \in DOMAIN records : records[n].tick < tick

\* Every flag was set by a response, and a blocked move that waits to be
\* applied has its reason already.
FlagHasSetter == \A key \in DOMAIN sim.flags : \E n \in DOMAIN records : SetsFlag(RespAt(n), key)
PlanReady == turn = "attack" => \A p \in DOMAIN pending : pending[p].trigger = "none" /\ BlockExplained(pending[p], tick)

\* A response of a trigger that fired was applied or waits to be, once.
Same(r, q) == r.trigger # "none" /\ r.trigger = q.trigger /\ r.id = q.id
RecordedFired == \A n \in DOMAIN records : RespAt(n).trigger # "none" => RespAt(n).trigger \in sim.fired
AppliedOnce == \A n, k \in DOMAIN records : Same(RespAt(n), RespAt(k)) => n = k
PendingOnce ==
    turn = "defend" =>
        /\ \A p \in DOMAIN pending : pending[p].trigger # "none"
        /\ \A p, q \in DOMAIN pending : Same(pending[p], pending[q]) => p = q
        /\ \A p \in DOMAIN pending, n \in DOMAIN records : ~Same(pending[p], RespAt(n))
Of(r, i, j) == r.trigger = Defender[i].trig.id /\ r.id = Defender[i].resps[j].id
Waits(i) == turn = "defend" /\ \E p \in DOMAIN pending : pending[p].trigger = Defender[i].trig.id
Comes(i, j) ==
    \/ \E n \in DOMAIN records : Of(RespAt(n), i, j)
    \/ turn = "defend" /\ \E p \in DOMAIN pending : Of(pending[p], i, j)
AllCome ==
    turn # "raised" =>
        \A i \in DOMAIN Defender : Defender[i].trig.id \in sim.fired \/ Waits(i) =>
            \A j \in DOMAIN Defender[i].resps : Comes(i, j)
TriggerInv == RecordedFired /\ AppliedOnce /\ PendingOnce /\ AllCome

\* The timeline is in order, and a published checkpoint is remembered.
CkOnce(b, s, ck) ==
    /\ \A i \in DOMAIN b : Publishes(b[i], ck) => ck.name \in s
    /\ \A i, j \in DOMAIN b : Publishes(b[i], ck) /\ Publishes(b[j], ck) => i = j
BusInv(b, s, t, live) ==
    /\ IsSeq(b)
    /\ \A i \in DOMAIN b : b[i].tick \in Nat /\ b[i].tick <= t
    /\ \A i, j \in DOMAIN b : i < j => b[i].tick <= b[j].tick
    /\ \A ck \in SimCheckpoint : live /\ OnlyText(ck) => CkOnce(b, s, ck)

SimInv ==
    /\ ScTyped /\ AppliedBefore /\ FlagHasSetter /\ BlockedEarlier /\ PlanReady /\ FlagsTrue
    /\ TriggerInv /\ BusInv(bus, seen, tick, scn.live)

-----------------------------------------------------------------------------
(* Sequences, of whatever elements.                                          *)

LEMMA SeqIs == ASSUME NEW T, NEW q \in Seq(T) PROVE IsSeq(q)
<1>1. Len(q) \in Nat /\ DOMAIN q = 1..Len(q) /\ q \in [1..Len(q) -> T] BY LenProperties
<1>2. q \in [1..Len(q) -> {q[i] : i \in DOMAIN q}] BY <1>1
<1> QED BY <1>1, <1>2, SeqDef DEF IsSeq

LEMMA IsSeqFacts == ASSUME NEW q, IsSeq(q) PROVE Len(q) \in Nat /\ DOMAIN q = 1..Len(q) /\ (q = <<>> <=> Len(q) = 0)
<1>1. q \in Seq({q[i] : i \in DOMAIN q}) BY DEF IsSeq
<1> QED BY <1>1, LenProperties, EmptySeq

LEMMA BothSeqs == ASSUME NEW s, NEW u, IsSeq(s), IsSeq(u) PROVE \E T : s \in Seq(T) /\ u \in Seq(T)
<1> DEFINE T == {s[i] : i \in DOMAIN s} \cup {u[i] : i \in DOMAIN u}
<1>1. Len(s) \in Nat /\ DOMAIN s = 1..Len(s) /\ s \in [1..Len(s) -> {s[i] : i \in DOMAIN s}]
  BY IsSeqFacts, LenProperties DEF IsSeq
<1>2. Len(u) \in Nat /\ DOMAIN u = 1..Len(u) /\ u \in [1..Len(u) -> {u[i] : i \in DOMAIN u}]
  BY IsSeqFacts, LenProperties DEF IsSeq
<1>3. s \in [1..Len(s) -> T] /\ u \in [1..Len(u) -> T] BY <1>1, <1>2
<1>4. s \in Seq(T) /\ u \in Seq(T)
  <2> HIDE DEF T
  <2> QED BY <1>1, <1>2, <1>3, SeqDef
<1> HIDE DEF T
<1> QED BY <1>4

Joins(w, s, u) ==
    /\ IsSeq(w) /\ Len(s) \in Nat
    /\ \A i \in DOMAIN s : i \in DOMAIN w /\ w[i] = s[i] /\ i <= Len(s) /\ i \in Nat
    /\ \A i \in DOMAIN u : Len(s) + i \in DOMAIN w /\ w[Len(s) + i] = u[i] /\ i > 0 /\ i \in Nat
    /\ \A i \in DOMAIN w : \/ i \in DOMAIN s /\ w[i] = s[i]
                           \/ \E j \in DOMAIN u : i = Len(s) + j /\ w[i] = u[j]
LEMMA ConcatIs == ASSUME NEW s, NEW u, IsSeq(s), IsSeq(u) PROVE Joins(s \o u, s, u)
<1>1. PICK T : s \in Seq(T) /\ u \in Seq(T) BY BothSeqs
<1>2. s \o u \in Seq(T) /\ Len(s \o u) = Len(s) + Len(u)
      /\ \A i \in 1 .. Len(s) + Len(u) : (s \o u)[i] = IF i <= Len(s) THEN s[i] ELSE u[i - Len(s)]
  BY <1>1, ConcatProperties
<1>3. Len(s) \in Nat /\ DOMAIN s = 1..Len(s) /\ Len(u) \in Nat /\ DOMAIN u = 1..Len(u)
      /\ DOMAIN (s \o u) = 1..(Len(s) + Len(u))
  BY <1>1, <1>2, LenProperties
<1>4. PICK w : w = s \o u OBVIOUS
<1>5. PICK a, b : a = Len(s) /\ b = Len(u) OBVIOUS
<1>6. a \in Nat /\ b \in Nat /\ DOMAIN s = 1..a /\ DOMAIN u = 1..b /\ DOMAIN w = 1..(a + b)
      /\ \A i \in 1..(a + b) : w[i] = IF i <= a THEN s[i] ELSE u[i - a]
  BY <1>2, <1>3, <1>4, <1>5
<1>7. \A i \in 1..a : i \in 1..(a + b) /\ w[i] = s[i] /\ i <= a /\ i \in Nat BY <1>6
<1>8. ASSUME NEW i \in 1..b PROVE a + i \in 1..(a + b) /\ w[a + i] = u[i] /\ i > 0 /\ i \in Nat
  <2>1. a + i \in 1..(a + b) /\ ~(a + i <= a) /\ (a + i) - a = i BY <1>6
  <2> QED BY <1>6, <2>1
<1>9. ASSUME NEW i \in 1..(a + b) PROVE \/ i \in 1..a /\ w[i] = s[i]
                                        \/ \E j \in 1..b : i = a + j /\ w[i] = u[j]
  <2>1. CASE i <= a BY <1>6, <2>1
  <2>2. CASE ~(i <= a)
    <3>1. i - a \in 1..b /\ i = a + (i - a) BY <1>6, <2>2
    <3>2. w[i] = u[i - a] BY <1>6, <2>2
    <3> QED BY <3>1, <3>2
  <2> QED BY <2>1, <2>2
<1>10. IsSeq(w) BY <1>2, <1>4, SeqIs
<1> QED BY <1>4, <1>5, <1>6, <1>7, <1>8, <1>9, <1>10 DEF Joins

LEMMA SingleIs == ASSUME NEW e PROVE IsSeq(<<e>>) /\ DOMAIN <<e>> = {1} /\ <<e>>[1] = e
<1>1. <<e>> \in Seq({e}) OBVIOUS
<1>2. IsSeq(<<e>>) BY <1>1, SeqIs
<1>3. Len(<<e>>) = 1 /\ <<e>>[1] = e OBVIOUS
<1>4. DOMAIN <<e>> = 1..1 BY <1>1, <1>3, LenProperties
<1> QED BY <1>2, <1>3, <1>4

LEMMA NoneIs == IsSeq(<<>>) /\ DOMAIN <<>> = {}
<1>1. <<>> \in Seq({}) /\ Len(<<>>) = 0 OBVIOUS
<1>2. IsSeq(<<>>) BY <1>1, SeqIs
<1>3. DOMAIN <<>> = 1..0 BY <1>1, LenProperties
<1> QED BY <1>2, <1>3

LEMMA AppendIs == ASSUME NEW s, IsSeq(s), NEW e
    PROVE /\ IsSeq(Append(s, e)) /\ Len(s) + 1 \in DOMAIN Append(s, e) /\ Append(s, e)[Len(s) + 1] = e
          /\ Len(s) + 1 \notin DOMAIN s
          /\ \A i \in DOMAIN s : i \in DOMAIN Append(s, e) /\ Append(s, e)[i] = s[i] /\ i < Len(s) + 1
          /\ \A i \in DOMAIN Append(s, e) : i = Len(s) + 1 \/ i \in DOMAIN s
<1>1. PICK T : s \in Seq(T) /\ <<e>> \in Seq(T) BY SingleIs, BothSeqs
<1>2. e \in T
  <2>1. <<e>> \in [1..Len(<<e>>) -> T] /\ Len(<<e>>) = 1 BY <1>1, LenProperties
  <2>2. <<e>>[1] \in T BY <2>1
  <2> QED BY <2>2
<1>3. Append(s, e) \in Seq(T) /\ Len(Append(s, e)) = Len(s) + 1
      /\ (\A i \in 1..Len(s) : Append(s, e)[i] = s[i]) /\ Append(s, e)[Len(s) + 1] = e
  BY <1>1, <1>2, AppendProperties
<1>4. Len(s) \in Nat /\ DOMAIN s = 1..Len(s) /\ DOMAIN Append(s, e) = 1..(Len(s) + 1)
  BY <1>1, <1>3, LenProperties
<1>5. IsSeq(Append(s, e)) BY <1>3, SeqIs
<1> QED BY <1>3, <1>4, <1>5

LEMMA TailIs == ASSUME NEW s, IsSeq(s), s # <<>>
    PROVE /\ IsSeq(Tail(s)) /\ 1 \in DOMAIN s /\ Head(s) = s[1]
          /\ Len(s) \in Nat /\ (Len(s) = 1 => DOMAIN s = {1})
          /\ \A i \in DOMAIN Tail(s) : i + 1 \in DOMAIN s /\ Tail(s)[i] = s[i + 1] /\ i + 1 # 1 /\ i \in Nat
          /\ \A i \in DOMAIN s : i = 1 \/ (i - 1 \in DOMAIN Tail(s) /\ Tail(s)[i - 1] = s[i])
<1>1. PICK T : s \in Seq(T) BY DEF IsSeq
<1>2. Tail(s) \in Seq(T) /\ Len(Tail(s)) = Len(s) - 1 /\ \A i \in 1..Len(Tail(s)) : Tail(s)[i] = s[i + 1]
  BY <1>1, HeadTailProperties
<1>3. Len(s) \in Nat /\ DOMAIN s = 1..Len(s) /\ Len(s) # 0 /\ DOMAIN Tail(s) = 1..(Len(s) - 1) /\ Len(Tail(s)) = Len(s) - 1
  BY <1>1, <1>2, IsSeqFacts, LenProperties
<1>4. Head(s) = s[1] BY <1>1
<1>5. IsSeq(Tail(s)) BY <1>2, SeqIs
<1>6. PICK a, t : a = Len(s) /\ t = Tail(s) OBVIOUS
<1>7. a \in Nat /\ a # 0 /\ DOMAIN s = 1..a /\ DOMAIN t = 1..(a - 1) /\ \A i \in 1..(a - 1) : t[i] = s[i + 1]
  BY <1>2, <1>3, <1>6
<1>8. \A i \in 1..(a - 1) : i + 1 \in 1..a /\ t[i] = s[i + 1] /\ i + 1 # 1 /\ i \in Nat BY <1>7
<1>9. ASSUME NEW i \in 1..a, i # 1 PROVE i - 1 \in 1..(a - 1) /\ t[i - 1] = s[i]
  <2>1. i - 1 \in 1..(a - 1) /\ (i - 1) + 1 = i BY <1>7, <1>9
  <2>2. t[i - 1] = s[(i - 1) + 1] BY <1>7, <2>1
  <2> QED BY <2>1, <2>2
<1>10. 1 \in 1..a /\ (a = 1 => 1..a = {1}) BY <1>7
<1> QED BY <1>4, <1>5, <1>6, <1>7, <1>8, <1>9, <1>10

\* FlattenSeq: every element of the parts, in one place each.
Apart(q) ==
    \A i, k \in DOMAIN q : \A j \in DOMAIN q[i], l \in DOMAIN q[k] : q[i][j] = q[k][l] => i = k /\ j = l
JoinOf(s, q, n) ==
    /\ IsSeq(s)
    /\ \A p \in DOMAIN s : \E i \in 1..n : \E j \in DOMAIN q[i] : s[p] = q[i][j]
    /\ \A i \in 1..n : \A j \in DOMAIN q[i] : \E p \in DOMAIN s : s[p] = q[i][j]
    /\ Apart(q) => \A p, r \in DOMAIN s : s[p] = s[r] => p = r

LEMMA JoinOne == ASSUME NEW q, IsSeq(q), q # <<>>, IsSeq(q[1]) PROVE JoinOf(q[1], q, 1)
<1>1. 1 \in DOMAIN q BY TailIs
<1> QED BY <1>1 DEF JoinOf, Apart

LEMMA JoinMore == ASSUME NEW q, IsSeq(q), NEW n \in Nat \ {0}, n + 1 \in DOMAIN q, IsSeq(q[n + 1]), NEW s, JoinOf(s, q, n)
                  PROVE JoinOf(s \o q[n + 1], q, n + 1)
<1>1. PICK u, w : u = q[n + 1] /\ w = s \o u OBVIOUS
<1>2. IsSeq(s) /\ Joins(w, s, u) BY <1>1, ConcatIs DEF JoinOf
<1>3. Len(q) \in Nat /\ DOMAIN q = 1..Len(q) BY IsSeqFacts
<1>4. \A i \in 1..n : i \in 1..(n + 1) /\ i \in DOMAIN q /\ i # n + 1 BY <1>3
<1>5. \A i \in 1..(n + 1) : i \in 1..n \/ i = n + 1 OBVIOUS
<1>6. n + 1 \in 1..(n + 1) OBVIOUS
<1>7. ASSUME NEW p \in DOMAIN w PROVE \E i \in 1..(n + 1) : \E j \in DOMAIN q[i] : w[p] = q[i][j]
  <2>1. CASE p \in DOMAIN s /\ w[p] = s[p] BY <1>4, <2>1 DEF JoinOf
  <2>2. CASE \E j \in DOMAIN u : w[p] = u[j] BY <1>1, <1>6, <2>2
  <2> QED BY <1>2, <2>1, <2>2 DEF Joins
<1>8. ASSUME NEW i \in 1..(n + 1), NEW j \in DOMAIN q[i] PROVE \E p \in DOMAIN w : w[p] = q[i][j]
  <2>1. CASE i \in 1..n
    <3>1. PICK p \in DOMAIN s : s[p] = q[i][j] BY <2>1 DEF JoinOf
    <3> QED BY <1>2, <3>1 DEF Joins
  <2>2. CASE i = n + 1 BY <1>1, <1>2, <2>2 DEF Joins
  <2> QED BY <1>5, <2>1, <2>2
<1>9. ASSUME Apart(q), NEW p \in DOMAIN w, NEW r \in DOMAIN w, w[p] = w[r] PROVE p = r
  <2>1. ASSUME NEW x \in DOMAIN s, NEW j \in DOMAIN u PROVE s[x] # u[j]
    <3>1. PICK i \in 1..n : \E l \in DOMAIN q[i] : s[x] = q[i][l] BY DEF JoinOf
    <3>2. PICK l \in DOMAIN q[i] : s[x] = q[i][l] BY <3>1
    <3> QED BY <1>1, <1>4, <1>9, <3>2 DEF Apart
  <2>2. ASSUME NEW j \in DOMAIN u, NEW l \in DOMAIN u, u[j] = u[l] PROVE j = l
    BY <1>1, <1>9, <2>2 DEF Apart
  <2>3. CASE p \in DOMAIN s /\ w[p] = s[p]
    <3>1. r \in DOMAIN s /\ w[r] = s[r] BY <1>2, <1>9, <2>1, <2>3 DEF Joins
    <3> QED BY <1>9, <2>3, <3>1 DEF JoinOf
  <2>4. CASE \E j \in DOMAIN u : p = Len(s) + j /\ w[p] = u[j]
    <3>1. PICK j \in DOMAIN u : p = Len(s) + j /\ w[p] = u[j] BY <2>4
    <3>2. PICK l \in DOMAIN u : r = Len(s) + l /\ w[r] = u[l] BY <1>2, <1>9, <2>1, <3>1 DEF Joins
    <3> QED BY <1>9, <2>2, <3>1, <3>2
  <2> QED BY <1>2, <2>3, <2>4 DEF Joins
<1>10. JoinOf(w, q, n + 1)
  <2> HIDE DEF Apart
  <2> QED BY <1>2, <1>7, <1>8, <1>9 DEF JoinOf, Joins
<1> QED BY <1>1, <1>10

FlatAt(f, q, i) == IF i = 1 THEN q[i] ELSE f[i - 1] \o q[i]
IsFlat(f, q, n) == f = [i \in 1..n |-> FlatAt(f, q, i)]
FlatOf(q) == CHOOSE f : IsFlat(f, q, Len(q))

LEMMA FlatExists == ASSUME NEW q, NEW n \in Nat PROVE \E f : IsFlat(f, q, n)
<1> DEFINE N == {k \in Nat : \E f : IsFlat(f, q, k)}
<1>1. 0 \in N
  <2>1. 1..0 = {} OBVIOUS
  <2>2. IsFlat([i \in 1..0 |-> 0], q, 0) BY <2>1 DEF IsFlat
  <2> QED BY <2>2
<1>2. ASSUME NEW k \in Nat, k \in N PROVE k + 1 \in N
  <2>1. PICK f : IsFlat(f, q, k) BY <1>2
  <2> DEFINE g == [i \in 1..(k + 1) |-> FlatAt(f, q, i)]
  <2>2. ASSUME NEW i \in 1..(k + 1) PROVE g[i] = FlatAt(g, q, i)
    <3>1. CASE i = 1 BY <3>1 DEF FlatAt
    <3>2. CASE i # 1
      <4>1. i - 1 \in 1..k /\ i - 1 \in 1..(k + 1) BY <1>2, <3>2
      <4>2. g[i - 1] = FlatAt(f, q, i - 1) BY <4>1
      <4>3. f[i - 1] = FlatAt(f, q, i - 1) BY <2>1, <4>1 DEF IsFlat
      <4>4. g[i - 1] = f[i - 1] BY <4>2, <4>3
      <4>5. g[i] = FlatAt(f, q, i) OBVIOUS
      <4> HIDE DEF g
      <4> QED BY <3>2, <4>4, <4>5 DEF FlatAt
    <3> QED BY <3>1, <3>2
  <2>3. IsFlat(g, q, k + 1) BY <2>2 DEF IsFlat
  <2> HIDE DEF g
  <2> QED BY <1>2, <2>3
<1> HIDE DEF N
<1>3. n \in N BY <1>1, <1>2, NaturalInduction
<1> QED BY <1>3 DEF N

LEMMA FlattenIs == ASSUME NEW q, IsSeq(q), \A i \in DOMAIN q : IsSeq(q[i]) PROVE JoinOf(FlattenSeq(q), q, Len(q))
<1>1. Len(q) \in Nat /\ DOMAIN q = 1..Len(q) /\ (q = <<>> <=> Len(q) = 0) BY IsSeqFacts
<1>2. CASE q = <<>>
  <2>1. FlattenSeq(q) = <<>> BY <1>1, <1>2 DEF FlattenSeq
  <2>2. 1..Len(q) = {} BY <1>1, <1>2
  <2> QED BY <2>1, <2>2, NoneIs DEF JoinOf
<1>3. CASE q # <<>>
  <2>1. FlattenSeq(q) = FlatOf(q)[Len(q)] BY <1>1, <1>3 DEF FlattenSeq, FlatOf, IsFlat, FlatAt
  <2>2. PICK f : f = FlatOf(q) OBVIOUS
  <2>3. IsFlat(f, q, Len(q)) BY <1>1, <2>2, FlatExists DEF FlatOf
  <2>4. \A i \in 1..Len(q) : f[i] = FlatAt(f, q, i) BY <2>3 DEF IsFlat
  <2> DEFINE N == {k \in Nat : k \in 1..Len(q) => JoinOf(f[k], q, k)}
  <2>5. 0 \in N OBVIOUS
  <2>6. ASSUME NEW k \in Nat, k \in N PROVE k + 1 \in N
    <3> SUFFICES ASSUME k + 1 \in 1..Len(q) PROVE JoinOf(f[k + 1], q, k + 1) OBVIOUS
    <3>1. CASE k = 0
      <4>1. f[1] = q[1] /\ 1 \in DOMAIN q BY <1>1, <2>4, <3>1 DEF FlatAt
      <4> QED BY <1>3, <3>1, <4>1, JoinOne
    <3>2. CASE k # 0
      <4>1. k \in 1..Len(q) /\ k + 1 # 1 /\ (k + 1) - 1 = k BY <1>1, <3>2
      <4>2. JoinOf(f[k], q, k) BY <2>6, <4>1
      <4>3. f[k + 1] = f[k] \o q[k + 1] BY <2>4, <4>1 DEF FlatAt
      <4>4. k \in Nat \ {0} /\ k + 1 \in DOMAIN q BY <1>1, <3>2
      <4> QED BY <4>2, <4>3, <4>4, JoinMore
    <3> QED BY <3>1, <3>2
  <2>7. Nat \subseteq N
    <3> HIDE DEF N
    <3> QED BY <2>5, <2>6, NaturalInduction
  <2>8. Len(q) \in 1..Len(q) BY <1>1, <1>3
  <2> QED BY <1>1, <2>1, <2>2, <2>7, <2>8
<1> QED BY <1>2, <1>3

-----------------------------------------------------------------------------
(* What the roles decide.                                                    *)

LEMMA FcnIs == ASSUME NEW n \in Nat, NEW q, q = [i \in 1..n |-> q[i]] PROVE IsSeq(q) /\ DOMAIN q = 1..n
<1>1. q \in [1..n -> {q[i] : i \in 1..n}] OBVIOUS
<1>2. q \in Seq({q[i] : i \in 1..n}) BY <1>1, SeqDef
<1> QED BY <1>2, SeqIs

LEMMA ScenarioIs == ASSUME scn \in Scenarios PROVE IsScript(scn.script) /\ IsPlan(scn.moves) /\ IsDefender(Defender)
BY ScenariosAssumption DEF Defender

LEMMA BlockedIs == ASSUME NEW m, IsResponse(m.resp)
                   PROVE Blocked(m).action = "blocked" /\ Blocked(m).id = m.resp.id /\ Blocked(m).trigger = "none"
<1>1. PICK r : r = m.resp OBVIOUS
<1>2. r = [id |-> r.id, action |-> r.action, target |-> r.target, sets |-> r.sets,
           checkpoint |-> r.checkpoint, trigger |-> r.trigger]
  BY <1>1 DEF IsResponse
<1>3. PICK a, b, c, d, e, f : a = r.id /\ b = r.action /\ c = r.target /\ d = r.sets /\ e = r.checkpoint /\ f = r.trigger
  OBVIOUS
<1>4. r = [id |-> a, action |-> b, target |-> c, sets |-> d, checkpoint |-> e, trigger |-> f] BY <1>2, <1>3
<1>5. Blocked(m) = [r EXCEPT !.action = "blocked", !.sets = <<>>, !.checkpoint = "none", !.trigger = "none"]
  BY <1>1 DEF Blocked
<1> QED BY <1>1, <1>3, <1>4, <1>5

LEMMA AttackerPlans ==
    ASSUME scn \in Scenarios
    PROVE IsSeq(ScriptedAttacker) /\ \A p \in DOMAIN ScriptedAttacker : \E i \in DOMAIN scn.moves : ScriptedAttacker[p] = Proposed(scn.moves[i])
<1> DEFINE Step(i) == IF scn.moves[i].tick = tick THEN <<Proposed(scn.moves[i])>> ELSE <<>>
           q == [i \in DOMAIN scn.moves |-> Step(i)]
<1>1. Len(scn.moves) \in Nat /\ DOMAIN scn.moves = 1..Len(scn.moves) BY ScenarioIs, IsSeqFacts DEF IsPlan
<1>2. IsSeq(q) /\ DOMAIN q = DOMAIN scn.moves BY <1>1, FcnIs
<1>3. ASSUME NEW i \in DOMAIN q PROVE IsSeq(q[i]) /\ \A j \in DOMAIN q[i] : q[i][j] = Proposed(scn.moves[i])
  <2>1. PICK e : e = Proposed(scn.moves[i]) OBVIOUS
  <2>2. q[i] = <<e>> \/ q[i] = <<>> BY <1>2, <1>3, <2>1
  <2> HIDE DEF q
  <2>3. CASE q[i] = <<e>> BY <2>1, <2>3, SingleIs
  <2>4. CASE q[i] = <<>> BY <2>4, NoneIs
  <2> QED BY <2>2, <2>3, <2>4
<1>4. ScriptedAttacker = FlattenSeq(q) BY DEF ScriptedAttacker
<1> HIDE DEF q
<1>5. PICK D : D = ScriptedAttacker OBVIOUS
<1>6. JoinOf(D, q, Len(q)) BY <1>2, <1>3, <1>4, <1>5, FlattenIs
<1>7. DOMAIN q = 1..Len(q) BY <1>2, IsSeqFacts
<1>8. ASSUME NEW p \in DOMAIN D PROVE \E i \in DOMAIN scn.moves : D[p] = Proposed(scn.moves[i])
  <2>1. PICK i \in DOMAIN q : \E j \in DOMAIN q[i] : D[p] = q[i][j] BY <1>6, <1>7 DEF JoinOf
  <2> QED BY <1>2, <1>3, <2>1
<1> QED BY <1>5, <1>6, <1>8 DEF JoinOf

LEMMA ProposedExplained ==
    ASSUME scn \in Scenarios, FlagHasSetter, AppliedBefore, turn = "attacker", NEW i \in DOMAIN scn.moves
    PROVE Proposed(scn.moves[i]).trigger = "none" /\ BlockExplained(Proposed(scn.moves[i]), tick)
<1>1. PICK m, r : m = scn.moves[i] /\ r = Proposed(m) OBVIOUS
<1>2. /\ IsResponse(m.resp) /\ m.resp.trigger = "none" /\ IsSeq(m.pre)
      /\ \A k \in DOMAIN scn.moves : scn.moves[k].resp.id = m.resp.id => k = i
  BY <1>1, ScenarioIs DEF IsPlan
<1>3. r.trigger = "none" /\ r.id = m.resp.id BY <1>1, <1>2, BlockedIs DEF Proposed
<1>4. ASSUME NEW k \in DOMAIN scn.moves, r.action = "blocked", scn.moves[k].resp.id = r.id, WaitsOnFlag(scn.moves[k])
      PROVE FlagSetBefore(scn.moves[k].pre[1].key, tick)
  <2>1. scn.moves[k] = m BY <1>1, <1>2, <1>3, <1>4
  <2>2. PICK c, f : c = m.pre[1] /\ f = sim.flags OBVIOUS
  <2>3. m.resp.action # "blocked" /\ Len(m.pre) = 1 /\ c.k = "state" /\ c.op = "!=" /\ c.value # "None"
    BY <1>4, <2>1, <2>2 DEF WaitsOnFlag
  <2>4. ~evaluate_condition(m.pre, tick, bus, sim) BY <1>1, <1>4, <2>3 DEF Proposed
  <2>5. \A x \in DOMAIN m.pre : x = 1 BY <1>2, <2>3, IsSeqFacts
  <2>6. ~_evaluate_clause(c, tick, bus, sim) BY <2>2, <2>3, <2>4, <2>5 DEF evaluate_condition
  <2>7. ~_evaluate_state(c, sim) BY <2>3, <2>6 DEF _evaluate_clause
  <2>8. Get(f, c.key) = c.value BY <2>2, <2>3, <2>7 DEF _evaluate_state
  <2>9. c.key \in DOMAIN f BY <2>3, <2>8 DEF Get
  <2>10. PICK n \in DOMAIN records : SetsFlag(RespAt(n), c.key) BY <2>2, <2>9 DEF FlagHasSetter
  <2>11. records[n].tick < tick BY <2>10 DEF AppliedBefore
  <2> QED BY <2>1, <2>2, <2>10, <2>11 DEF FlagSetBefore
<1> QED BY <1>1, <1>3, <1>4 DEF BlockExplained

LEMMA TaggedIs == ASSUME NEW d, IsSeq(d.resps), \A j \in DOMAIN d.resps : IsResponse(d.resps[j])
                  PROVE /\ IsSeq(Tagged(d)) /\ DOMAIN Tagged(d) = DOMAIN d.resps
                        /\ \A j \in DOMAIN d.resps : Tagged(d)[j].trigger = d.trig.id /\ Tagged(d)[j].id = d.resps[j].id
<1>1. Len(d.resps) \in Nat /\ DOMAIN d.resps = 1..Len(d.resps) BY IsSeqFacts
<1>2. Tagged(d) = [j \in 1..Len(d.resps) |-> Tagged(d)[j]] BY <1>1 DEF Tagged
<1>3. IsSeq(Tagged(d)) /\ DOMAIN Tagged(d) = DOMAIN d.resps BY <1>1, <1>2, FcnIs
<1>4. ASSUME NEW j \in DOMAIN d.resps PROVE Tagged(d)[j].trigger = d.trig.id /\ Tagged(d)[j].id = d.resps[j].id
  <2>1. PICK r, t : r = d.resps[j] /\ t = d.trig.id OBVIOUS
  <2>2. r = [id |-> r.id, action |-> r.action, target |-> r.target, sets |-> r.sets,
             checkpoint |-> r.checkpoint, trigger |-> r.trigger]
    BY <2>1 DEF IsResponse
  <2>3. PICK u, b, c, x, e, f : u = r.id /\ b = r.action /\ c = r.target /\ x = r.sets /\ e = r.checkpoint /\ f = r.trigger
    OBVIOUS
  <2>4. r = [id |-> u, action |-> b, target |-> c, sets |-> x, checkpoint |-> e, trigger |-> f] BY <2>2, <2>3
  <2>5. Tagged(d)[j] = [r EXCEPT !.trigger = t] BY <2>1 DEF Tagged
  <2> QED BY <2>1, <2>3, <2>4, <2>5
<1> QED BY <1>3, <1>4

\* What the defender decides on: each response of each trigger that fires, once.
Decisions(D) ==
    /\ IsSeq(D)
    /\ \A p \in DOMAIN D : D[p].trigger # "none" /\ D[p].trigger \notin sim.fired
    /\ \A p, r \in DOMAIN D : Same(D[p], D[r]) => p = r
    /\ \A p \in DOMAIN D, i \in DOMAIN Defender : D[p].trigger = Defender[i].trig.id =>
          \A j \in DOMAIN Defender[i].resps : \E r \in DOMAIN D : Of(D[r], i, j)

LEMMA DefenderPlans == ASSUME scn \in Scenarios PROVE Decisions(ScriptedDefender)
<1> DEFINE q == [i \in DOMAIN Defender |-> IF Fires(Defender[i]) THEN Tagged(Defender[i]) ELSE <<>>]
<1>0. PICK C : C = Defender OBVIOUS
<1>1. Len(C) \in Nat /\ DOMAIN C = 1..Len(C) /\ IsDefender(C) BY <1>0, ScenarioIs, IsSeqFacts DEF IsDefender
<1>2. IsSeq(q) /\ DOMAIN q = DOMAIN C BY <1>0, <1>1, FcnIs
<1>3. ASSUME NEW i \in DOMAIN q
      PROVE /\ IsSeq(q[i]) /\ DOMAIN q[i] \subseteq DOMAIN C[i].resps
            /\ \A j \in DOMAIN q[i] : q[i][j].trigger = C[i].trig.id /\ q[i][j].id = C[i].resps[j].id
            /\ DOMAIN q[i] # {} => NotFired(C[i]) /\ DOMAIN q[i] = DOMAIN C[i].resps
  <2>1. CASE Fires(C[i])
    <3>1. q[i] = Tagged(C[i]) BY <1>0, <1>2, <1>3, <2>1
    <3>2. /\ IsSeq(Tagged(C[i])) /\ DOMAIN Tagged(C[i]) = DOMAIN C[i].resps
          /\ \A j \in DOMAIN C[i].resps : Tagged(C[i])[j].trigger = C[i].trig.id /\ Tagged(C[i])[j].id = C[i].resps[j].id
      BY <1>1, <1>2, <1>3, TaggedIs DEF IsDefender
    <3>3. NotFired(C[i]) BY <2>1 DEF Fires
    <3> HIDE DEF q
    <3> QED BY <3>1, <3>2, <3>3
  <2>2. CASE ~Fires(C[i])
    <3>1. q[i] = <<>> BY <1>0, <1>2, <1>3, <2>2
    <3> HIDE DEF q
    <3> QED BY <3>1, NoneIs
  <2> QED BY <2>1, <2>2
<1>4. ScriptedDefender = FlattenSeq(q) BY DEF ScriptedDefender
<1> HIDE DEF q
<1>5. PICK D : D = ScriptedDefender OBVIOUS
<1>6. JoinOf(D, q, Len(q)) BY <1>2, <1>3, <1>4, <1>5, FlattenIs
<1>7. DOMAIN q = 1..Len(q) BY <1>2, IsSeqFacts
<1>8. ASSUME NEW i \in DOMAIN q, NEW k \in DOMAIN q, NEW j \in DOMAIN q[i], NEW l \in DOMAIN q[k],
             q[i][j].trigger = q[k][l].trigger, q[i][j].id = q[k][l].id
      PROVE i = k /\ j = l
  <2>1. C[i].trig.id = C[k].trig.id /\ C[i].resps[j].id = C[k].resps[l].id BY <1>3, <1>8
  <2>2. i = k BY <1>1, <1>2, <2>1 DEF IsDefender
  <2> QED BY <1>1, <1>2, <1>3, <2>1, <2>2 DEF IsDefender
<1>9. Apart(q) BY <1>8 DEF Apart
<1>10. \A p \in DOMAIN D : \E i \in DOMAIN q : \E j \in DOMAIN q[i] : D[p] = q[i][j] BY <1>6, <1>7 DEF JoinOf
<1>11. ASSUME NEW p \in DOMAIN D PROVE D[p].trigger # "none" /\ D[p].trigger \notin sim.fired
  <2>1. PICK i \in DOMAIN q : \E j \in DOMAIN q[i] : D[p] = q[i][j] BY <1>10
  <2>2. D[p].trigger = C[i].trig.id /\ NotFired(C[i]) BY <1>3, <2>1
  <2> QED BY <1>1, <1>2, <2>2 DEF IsDefender, NotFired
<1>12. ASSUME NEW p \in DOMAIN D, NEW r \in DOMAIN D, Same(D[p], D[r]) PROVE p = r
  <2>1. PICK i \in DOMAIN q : \E j \in DOMAIN q[i] : D[p] = q[i][j] BY <1>10
  <2>2. PICK j \in DOMAIN q[i] : D[p] = q[i][j] BY <2>1
  <2>3. PICK k \in DOMAIN q : \E l \in DOMAIN q[k] : D[r] = q[k][l] BY <1>10
  <2>4. PICK l \in DOMAIN q[k] : D[r] = q[k][l] BY <2>3
  <2>5. i = k /\ j = l BY <1>8, <1>12, <2>2, <2>4 DEF Same
  <2> QED BY <1>6, <1>9, <2>2, <2>4, <2>5 DEF JoinOf
<1>13. ASSUME NEW p \in DOMAIN D, NEW i \in DOMAIN C, D[p].trigger = C[i].trig.id, NEW j \in DOMAIN C[i].resps
       PROVE \E r \in DOMAIN D : D[r].trigger = C[i].trig.id /\ D[r].id = C[i].resps[j].id
  <2>1. PICK k \in DOMAIN q : \E l \in DOMAIN q[k] : D[p] = q[k][l] BY <1>10
  <2>2. D[p].trigger = C[k].trig.id /\ DOMAIN q[k] = DOMAIN C[k].resps BY <1>3, <2>1
  <2>3. k = i BY <1>1, <1>2, <1>13, <2>2 DEF IsDefender
  <2>4. i \in DOMAIN q /\ j \in DOMAIN q[i] BY <2>2, <2>3
  <2>5. PICK r \in DOMAIN D : D[r] = q[i][j] BY <1>6, <1>7, <2>4 DEF JoinOf
  <2> QED BY <1>3, <2>4, <2>5
<1>14. IsSeq(D) BY <1>6 DEF JoinOf
<1> QED BY <1>0, <1>5, <1>11, <1>12, <1>13, <1>14 DEF Decisions, Of

-----------------------------------------------------------------------------
(* The timeline.                                                             *)

NewOnce(u, s, t, ck) ==
    \A i \in DOMAIN u : Publishes(u[i], ck) =>
        ck.name \notin s /\ ck.name \in t /\ \A j \in DOMAIN u : Publishes(u[j], ck) => i = j

LEMMA BusGrows ==
    ASSUME NEW b, NEW s, NEW n \in Nat, NEW live, BusInv(b, s, n, live),
           NEW u, IsSeq(u), \A i \in DOMAIN u : u[i].tick = n,
           NEW t, s \subseteq t, \A ck \in SimCheckpoint : live /\ OnlyText(ck) => NewOnce(u, s, t, ck)
    PROVE BusInv(b \o u, t, n, live)
<1>1. PICK w : w = b \o u OBVIOUS
<1>2. IsSeq(b) BY DEF BusInv
<1>3. Joins(w, b, u) BY <1>1, <1>2, ConcatIs
<1>4. \A i \in DOMAIN w : w[i].tick \in Nat /\ w[i].tick <= n BY <1>3 DEF Joins, BusInv
<1>5. ASSUME NEW i \in DOMAIN w, NEW j \in DOMAIN w, i < j PROVE w[i].tick <= w[j].tick
  <2>1. CASE \E k \in DOMAIN u : w[j] = u[k] BY <1>4, <2>1
  <2>2. CASE j \in DOMAIN b /\ w[j] = b[j]
    <3>1. j \in Nat /\ j <= Len(b) /\ Len(b) \in Nat BY <1>3, <2>2 DEF Joins
    <3>2. ASSUME NEW k \in DOMAIN u, i = Len(b) + k PROVE FALSE
      <4>1. k \in Nat /\ k > 0 BY <1>3 DEF Joins
      <4> QED BY <1>5, <3>1, <3>2, <4>1
    <3>3. i \in DOMAIN b /\ w[i] = b[i] BY <1>3, <3>2 DEF Joins
    <3> QED BY <1>5, <2>2, <3>3 DEF BusInv
  <2> QED BY <1>3, <2>1, <2>2 DEF Joins
<1>6. ASSUME NEW ck \in SimCheckpoint, live, OnlyText(ck) PROVE CkOnce(w, t, ck)
  <2>1. CkOnce(b, s, ck) /\ NewOnce(u, s, t, ck) BY <1>6 DEF BusInv
  <2>2. ASSUME NEW i \in DOMAIN b, Publishes(b[i], ck), NEW k \in DOMAIN u, Publishes(u[k], ck) PROVE FALSE
    BY <2>1, <2>2 DEF CkOnce, NewOnce
  <2>3. ASSUME NEW i \in DOMAIN w, Publishes(w[i], ck) PROVE ck.name \in t
    BY <1>3, <2>1, <2>3 DEF CkOnce, NewOnce, Joins
  <2>4. ASSUME NEW i \in DOMAIN w, NEW j \in DOMAIN w, Publishes(w[i], ck), Publishes(w[j], ck) PROVE i = j
    <3>1. CASE i \in DOMAIN b /\ w[i] = b[i]
      <4>1. j \in DOMAIN b /\ w[j] = b[j] BY <1>3, <2>2, <2>4, <3>1 DEF Joins
      <4> QED BY <2>1, <2>4, <3>1, <4>1 DEF CkOnce
    <3>2. CASE \E k \in DOMAIN u : i = Len(b) + k /\ w[i] = u[k]
      <4>1. PICK k \in DOMAIN u : i = Len(b) + k /\ w[i] = u[k] BY <3>2
      <4>2. PICK l \in DOMAIN u : j = Len(b) + l /\ w[j] = u[l] BY <1>3, <2>2, <2>4, <4>1 DEF Joins
      <4> QED BY <2>1, <2>4, <4>1, <4>2 DEF NewOnce
    <3> QED BY <1>3, <3>1, <3>2 DEF Joins
  <2> QED BY <2>3, <2>4 DEF CkOnce
<1>7. IsSeq(w) BY <1>3 DEF Joins
<1> QED BY <1>1, <1>4, <1>5, <1>6, <1>7 DEF BusInv

LEMMA BusLater == ASSUME NEW b, NEW s, NEW n \in Nat, NEW live, BusInv(b, s, n, live), NEW m \in Nat, n <= m
                  PROVE BusInv(b, s, m, live)
BY DEF BusInv

LEMMA AppendConcat == ASSUME NEW s, IsSeq(s), NEW e PROVE Append(s, e) = s \o <<e>>
<1>1. PICK T : s \in Seq(T) /\ <<e>> \in Seq(T) BY SingleIs, BothSeqs
<1> QED BY <1>1

LEMMA ConcatNone == ASSUME NEW s, IsSeq(s) PROVE s \o <<>> = s
<1>1. PICK T : s \in Seq(T) BY DEF IsSeq
<1> QED BY <1>1, ConcatEmptySeq

LEMMA EventIs == ASSUME NEW t, NEW s, NEW k, NEW g
                 PROVE SimEvent(t, s, k, g).tick = t /\ SimEvent(t, s, k, g).source = s /\ SimEvent(t, s, k, g).kind = k /\ SimEvent(t, s, k, g).target = g
BY DEF SimEvent

LEMMA StampedIs == ASSUME NEW e, IsEvent(e) PROVE Stamped(e).tick = tick /\ Stamped(e).source = e.source
<1>1. PICK t, s, k, g : e = [tick |-> t, source |-> s, kind |-> k, target |-> g] BY DEF IsEvent, SimEvent
<1> QED BY <1>1 DEF Stamped

\* One more event that no poll made.
LEMMA BusAppends ==
    ASSUME NEW b, NEW s, NEW n \in Nat, NEW live, BusInv(b, s, n, live), NEW e, e.tick = n,
           e.source # "http" \/ e.kind # "checkpoint_reached"
    PROVE BusInv(Append(b, e), s, n, live)
<1>1. IsSeq(<<e>>) /\ DOMAIN <<e>> = {1} /\ <<e>>[1] = e BY SingleIs
<1>2. \A i \in DOMAIN <<e>> : <<e>>[i].tick = n BY <1>1
<1>3. \A ck \in SimCheckpoint : live /\ OnlyText(ck) => NewOnce(<<e>>, s, s, ck) BY <1>1 DEF NewOnce, Publishes
<1>4. Append(b, e) = b \o <<e>> BY AppendConcat DEF BusInv
<1>5. BusInv(b \o <<e>>, s, n, live) BY <1>1, <1>2, <1>3, BusGrows
<1> QED BY <1>4, <1>5

LEMMA ReplayBus == ASSUME SimInv, turn = "poll", ReplayPoll PROVE BusInv(bus', seen', tick, scn.live) /\ turn' = "attacker"
<1> DEFINE new == [i \in DOMAIN scn.script[tick] |-> Stamped(scn.script[tick][i])]
<1>1. scn \in Scenarios /\ tick \in Nat /\ tick < MaxTicks /\ ~scn.live BY DEF SimInv, ScTyped, ReplayPoll
<1>2. tick \in 0..MaxTicks BY <1>1, TicksAssumption
<1>3. IsSeq(scn.script[tick]) /\ \A i \in DOMAIN scn.script[tick] : IsEvent(scn.script[tick][i])
  BY <1>1, <1>2, ScenarioIs DEF IsScript
<1>4. Len(scn.script[tick]) \in Nat /\ DOMAIN scn.script[tick] = 1..Len(scn.script[tick]) BY <1>3, IsSeqFacts
<1>5. IsSeq(new) /\ DOMAIN new = DOMAIN scn.script[tick] BY <1>4, FcnIs
<1>6. \A i \in DOMAIN new : new[i].tick = tick BY <1>3, <1>5, StampedIs
<1>7. bus' = bus \o new /\ seen' = seen /\ turn' = "attacker" BY DEF ReplayPoll, FirstRole
<1> HIDE DEF new
<1>8. BusInv(bus \o new, seen, tick, scn.live) BY <1>1, <1>5, <1>6, BusGrows DEF SimInv
<1> QED BY <1>7, <1>8

LEMMA ErrorBus == ASSUME SimInv, turn = "poll", PollError PROVE BusInv(bus', seen', tick, scn.live) /\ turn' = "attacker"
<1>1. PICK e : e = SimEvent(tick, "http", "poll_error", "url") OBVIOUS
<1>2. e.tick = tick /\ e.kind # "checkpoint_reached" BY <1>1, EventIs
<1>3. tick \in Nat BY DEF SimInv, ScTyped
<1>4. BusInv(Append(bus, e), seen, tick, scn.live) BY <1>2, <1>3, BusAppends DEF SimInv
<1> QED BY <1>1, <1>4 DEF PollError, FirstRole

LEMMA HttpBus ==
    ASSUME SimInv, turn = "poll", NEW c \in SimCheckpoint \cup {NoCheckpoint}, NEW n \in 0..1,
           HttpPoll(c, [i \in 1..n |-> "observed"])
    PROVE BusInv(bus', seen', tick, scn.live) /\ turn' \in {"attacker", "raised"}
<1>1. tick \in Nat /\ BusInv(bus, seen, tick, scn.live) BY DEF SimInv, ScTyped
<1>2. CASE c.type = "list" BY <1>1, <1>2 DEF HttpPoll
<1>3. CASE c.type # "list"
  <2> DEFINE items == [i \in 1..n |-> "observed"]
             b == [i \in DOMAIN items |-> SimEvent(tick, "http", items[i], "app")]
             a == IF Unseen(c) THEN <<SimEvent(tick, "http", "checkpoint_reached", c.name)>> ELSE <<>>
  <2>1. bus' = (bus \o a) \o b /\ seen' = Remembered(c) /\ turn' = "attacker" BY <1>3 DEF HttpPoll, FirstRole
  <2>2. IsSeq(a) /\ \A i \in DOMAIN a : i = 1 /\ a[i] = SimEvent(tick, "http", "checkpoint_reached", c.name) /\ Unseen(c)
    <3>1. PICK e : e = SimEvent(tick, "http", "checkpoint_reached", c.name) OBVIOUS
    <3>2. IsSeq(<<e>>) /\ DOMAIN <<e>> = {1} /\ <<e>>[1] = e BY SingleIs
    <3>3. CASE Unseen(c)
      <4>1. a = <<e>> BY <3>1, <3>3
      <4> HIDE DEF a
      <4> QED BY <3>1, <3>2, <3>3, <4>1
    <3>4. CASE ~Unseen(c)
      <4>1. a = <<>> BY <3>4
      <4> HIDE DEF a
      <4> QED BY <4>1, NoneIs
    <3> QED BY <3>3, <3>4
  <2>3. IsSeq(b) /\ \A i \in DOMAIN b : b[i].tick = tick /\ b[i].kind = "observed"
    <3>1. n \in Nat /\ DOMAIN items = 1..n OBVIOUS
    <3>2. b = [i \in 1..n |-> b[i]] BY <3>1
    <3>3. IsSeq(b) /\ DOMAIN b = 1..n BY <3>1, <3>2, FcnIs
    <3>4. \A i \in 1..n : b[i] = SimEvent(tick, "http", "observed", "app") OBVIOUS
    <3> HIDE DEF b
    <3> QED BY <3>3, <3>4, EventIs
  <2> HIDE DEF a, b
  <2>4. seen \subseteq seen' BY <2>1 DEF Remembered
  <2>5. \A i \in DOMAIN a : a[i].tick = tick BY <2>2, EventIs
  <2>6. ASSUME NEW ck \in SimCheckpoint, OnlyText(ck) PROVE NewOnce(a, seen, seen', ck)
    <3>1. ASSUME NEW i \in DOMAIN a, Publishes(a[i], ck) PROVE ck.name \notin seen /\ ck.name \in seen'
      <4>1. Unseen(c) /\ c.name = ck.name BY <2>2, <3>1, EventIs DEF Publishes
      <4>2. c \in SimCheckpoint BY <4>1 DEF Unseen
      <4>3. c = ck /\ c.type = "text" BY <2>6, <4>1, <4>2 DEF OnlyText
      <4> QED BY <2>1, <4>1, <4>3 DEF Unseen, Remembered
    <3> QED BY <2>2, <3>1 DEF NewOnce
  <2>7. BusInv(bus \o a, seen', tick, scn.live) BY <1>1, <2>2, <2>4, <2>5, <2>6, BusGrows
  <2>8. \A ck \in SimCheckpoint : NewOnce(b, seen', seen', ck) BY <2>3 DEF NewOnce, Publishes
  <2>9. BusInv((bus \o a) \o b, seen', tick, scn.live) BY <1>1, <2>3, <2>7, <2>8, BusGrows
  <2> QED BY <2>1, <2>9
<1> QED BY <1>2, <1>3

LEMMA PollKeeps == ASSUME SimInv, PollTurn PROVE SimInv'
<1>1. turn = "poll" /\ UNCHANGED <<scn, tick, sim, pending, records, stopped>> BY DEF PollTurn
<1>2. BusInv(bus', seen', tick, scn.live) /\ turn' \in {"attacker", "raised"}
  BY <1>1, ReplayBus, ErrorBus, HttpBus DEF PollTurn
<1>3. BusInv(bus, seen, tick, scn.live)' BY <1>1, <1>2
<1>4. ScTyped' BY <1>1, <1>2 DEF SimInv, ScTyped, Turns
<1>5. AppliedBefore' BY <1>1 DEF SimInv, AppliedBefore
<1>6. FlagHasSetter' BY <1>1 DEF SimInv, FlagHasSetter, RespAt
<1>7. BlockedEarlier' BY <1>1 DEF SimInv, BlockedEarlier, BlockExplained, FlagSetBefore, RespAt
<1>8. PlanReady' BY <1>2 DEF PlanReady
<1>9. FlagsTrue' BY <1>1 DEF SimInv, FlagsTrue, RespAt
<1>10. TriggerInv'
  <2>1. RecordedFired' /\ AppliedOnce' BY <1>1 DEF SimInv, TriggerInv, RecordedFired, AppliedOnce, RespAt
  <2>2. PendingOnce' BY <1>2 DEF PendingOnce
  <2>3. Defender' = Defender BY <1>1 DEF Defender
  <2>4. AllCome' BY <1>1, <1>2, <2>3 DEF SimInv, TriggerInv, AllCome, Waits, Comes, Of, RespAt
  <2> QED BY <2>1, <2>2, <2>4 DEF TriggerInv
<1> QED BY <1>3, <1>4, <1>5, <1>6, <1>7, <1>8, <1>9, <1>10 DEF SimInv

-----------------------------------------------------------------------------
(* The turns.                                                                *)

\* What stays when only the turn, the tick and what is pending change.
LEMMA RestKept ==
    ASSUME SimInv, UNCHANGED <<scn, bus, sim, records, seen, stopped>>, tick' \in Nat, tick <= tick'
    PROVE /\ FlagHasSetter' /\ BlockedEarlier' /\ FlagsTrue' /\ RecordedFired' /\ AppliedOnce'
          /\ BusInv(bus, seen, tick, scn.live)' /\ IsSeq(records')
          /\ \A n \in DOMAIN records' : records'[n].tick \in Nat /\ records'[n].tick <= tick'
<1>1. FlagHasSetter' BY DEF SimInv, FlagHasSetter, RespAt
<1>2. BlockedEarlier' BY DEF SimInv, BlockedEarlier, BlockExplained, FlagSetBefore, RespAt
<1>3. FlagsTrue' BY DEF SimInv, FlagsTrue, RespAt
<1>4. RecordedFired' /\ AppliedOnce' BY DEF SimInv, TriggerInv, RecordedFired, AppliedOnce, RespAt
<1>5. tick \in Nat /\ IsSeq(records) /\ \A n \in DOMAIN records : records[n].tick \in Nat /\ records[n].tick <= tick
  BY DEF SimInv, ScTyped
<1>6. BusInv(bus, seen, tick', scn.live) BY <1>5, BusLater DEF SimInv
<1> QED BY <1>1, <1>2, <1>3, <1>4, <1>5, <1>6

\* A role that has nothing left to apply.
TurnPassed(role) ==
    /\ tick' \in Nat /\ tick <= tick' /\ turn' \in {"defender", "poll", "done"}
    /\ (turn' # "done" => tick' < MaxTicks)
    /\ (turn' = "poll" => tick < tick')
LEMMA NextTurnPasses == ASSUME tick \in Nat, tick < MaxTicks, NEW role \in {"attacker", "defender"}, NextTurn(role) PROVE TurnPassed(role)
<1>1. CASE role = "attacker"
  <2>1. OtherRole("attacker") = "defender" BY DEF OtherRole
  <2> QED BY <1>1, <2>1 DEF NextTurn, TurnPassed, FirstRole
<1>2. CASE role = "defender" BY <1>2, TicksAssumption DEF NextTurn, TurnPassed, FirstRole
<1> QED BY <1>1, <1>2

LEMMA PassedKeeps ==
    ASSUME SimInv, UNCHANGED <<scn, bus, sim, records, seen, stopped>>, NEW role, TurnPassed(role),
           turn \notin {"raised", "defend"}, IsSeq(pending')
    PROVE SimInv'
<1>1. tick' \in Nat /\ tick <= tick' /\ turn' \in {"defender", "poll", "done"} BY DEF TurnPassed
<1>2. ScTyped' BY <1>1, RestKept DEF SimInv, ScTyped, TurnPassed, Turns
<1>3. AppliedBefore'
  <2>1. tick \in Nat /\ \A n \in DOMAIN records : records[n].tick \in Nat /\ records[n].tick <= tick BY DEF SimInv, ScTyped
  <2> QED BY <1>1, <2>1 DEF AppliedBefore, TurnPassed
<1>4. PlanReady' /\ PendingOnce' BY <1>1 DEF PlanReady, PendingOnce
<1>5. AllCome'
  <2>1. Defender' = Defender BY DEF Defender
  <2> QED BY <1>1, <2>1 DEF SimInv, TriggerInv, AllCome, Waits, Comes, Of, RespAt
<1> QED BY <1>1, <1>2, <1>3, <1>4, <1>5, RestKept DEF SimInv, TriggerInv

\* An exception leaves everything as it is.
LEMMA RaisedKeeps == ASSUME SimInv, turn # "done", turn' = "raised", UNCHANGED <<scn, tick, bus, sim, pending, records, seen, stopped>> PROVE SimInv'
<1>1. tick' \in Nat /\ tick <= tick' BY DEF SimInv, ScTyped
<1>2. ScTyped' BY <1>1, RestKept DEF SimInv, ScTyped, Turns
<1>3. AppliedBefore' /\ PlanReady' /\ PendingOnce' /\ AllCome' BY DEF AppliedBefore, PlanReady, PendingOnce, AllCome
<1> QED BY <1>1, <1>2, <1>3, RestKept DEF SimInv, TriggerInv

LEMMA AttackerDecidesKeeps == ASSUME SimInv, AttackerDecides PROVE SimInv'
<1>1. turn = "attacker" /\ UNCHANGED <<scn, bus, sim, records, seen, stopped>> BY DEF AttackerDecides, Decide
<1>2. scn \in Scenarios /\ tick \in Nat /\ tick < MaxTicks BY <1>1 DEF SimInv, ScTyped
<1>3. CASE AttackerRaises
  <2>1. turn' = "raised" /\ UNCHANGED <<tick, pending>> BY <1>3 DEF AttackerDecides, Decide
  <2> QED BY <1>1, <2>1, RaisedKeeps
<1>4. CASE ~AttackerRaises /\ ScriptedAttacker = <<>>
  <2>1. pending' = <<>> /\ NextTurn("attacker") BY <1>4 DEF AttackerDecides, Decide
  <2>2. TurnPassed("attacker") BY <1>2, <2>1, NextTurnPasses
  <2>3. IsSeq(pending') BY <2>1, NoneIs
  <2> QED BY <1>1, <2>2, <2>3, PassedKeeps
<1>5. CASE ~AttackerRaises /\ ScriptedAttacker # <<>>
  <2>1. pending' = ScriptedAttacker /\ turn' = "attack" /\ tick' = tick BY <1>5 DEF AttackerDecides, Decide
  <2>2. IsSeq(pending') /\ \A p \in DOMAIN pending' : \E i \in DOMAIN scn.moves : pending'[p] = Proposed(scn.moves[i])
    BY <1>2, <2>1, AttackerPlans
  <2>3. ScTyped' BY <1>1, <1>2, <1>5, <2>1, <2>2, RestKept DEF ScTyped, Turns
  <2>4. \A p \in DOMAIN pending' : pending'[p].trigger = "none" /\ BlockExplained(pending'[p], tick)
    BY <1>1, <1>2, <2>2, ProposedExplained DEF SimInv
  <2>5. PlanReady' BY <1>1, <2>1, <2>4 DEF PlanReady, BlockExplained, FlagSetBefore, RespAt
  <2>6. AppliedBefore' /\ PendingOnce' BY <2>1 DEF AppliedBefore, PendingOnce
  <2>7. AllCome'
    <3>1. Defender' = Defender BY <1>1 DEF Defender
    <3> QED BY <1>1, <2>1, <3>1 DEF SimInv, TriggerInv, AllCome, Waits, Comes, Of, RespAt
  <2> QED BY <1>1, <1>2, <2>1, <2>3, <2>5, <2>6, <2>7, RestKept DEF SimInv, TriggerInv
<1> QED BY <1>3, <1>4, <1>5

LEMMA DefenderDecidesKeeps == ASSUME SimInv, DefenderDecides PROVE SimInv'
<1>1. turn = "defender" /\ UNCHANGED <<scn, bus, sim, records, seen, stopped>> BY DEF DefenderDecides, Decide
<1>2. scn \in Scenarios /\ tick \in Nat /\ tick < MaxTicks BY <1>1 DEF SimInv, ScTyped
<1>3. CASE DefenderRaises
  <2>1. turn' = "raised" /\ UNCHANGED <<tick, pending>> BY <1>3 DEF DefenderDecides, Decide
  <2> QED BY <1>1, <2>1, RaisedKeeps
<1>4. CASE ~DefenderRaises /\ ScriptedDefender = <<>>
  <2>1. pending' = <<>> /\ NextTurn("defender") BY <1>4 DEF DefenderDecides, Decide
  <2>2. TurnPassed("defender") BY <1>2, <2>1, NextTurnPasses
  <2>3. IsSeq(pending') BY <2>1, NoneIs
  <2> QED BY <1>1, <2>2, <2>3, PassedKeeps
<1>5. CASE ~DefenderRaises /\ ScriptedDefender # <<>>
  <2>1. pending' = ScriptedDefender /\ turn' = "defend" /\ tick' = tick BY <1>5 DEF DefenderDecides, Decide
  <2>2. Decisions(pending') BY <1>2, <2>1, DefenderPlans
  <2>3. ScTyped' BY <1>1, <1>2, <1>5, <2>1, <2>2, RestKept DEF ScTyped, Turns, Decisions
  <2>4. AppliedBefore' /\ PlanReady' BY <2>1 DEF AppliedBefore, PlanReady
  <2>5. PendingOnce'
    <3>1. \A p \in DOMAIN pending', n \in DOMAIN records : ~Same(pending'[p], RespAt(n))
      BY <2>2 DEF Decisions, Same, SimInv, TriggerInv, RecordedFired
    <3>2. \A p \in DOMAIN pending' : pending'[p].trigger # "none" BY <2>2 DEF Decisions
    <3>3. \A p, r \in DOMAIN pending' : Same(pending'[p], pending'[r]) => p = r BY <2>2 DEF Decisions
    <3> QED BY <1>1, <3>1, <3>2, <3>3 DEF PendingOnce, RespAt, Same
  <2>6. AllCome'
    <3>1. Defender' = Defender BY <1>1 DEF Defender
    <3>2. ASSUME NEW i \in DOMAIN Defender, Defender[i].trig.id \in sim.fired, NEW j \in DOMAIN Defender[i].resps
          PROVE \E n \in DOMAIN records : Of(RespAt(n), i, j)
      BY <1>1, <3>2 DEF SimInv, TriggerInv, AllCome, Comes
    <3>3. ASSUME NEW i \in DOMAIN Defender, NEW p \in DOMAIN pending', pending'[p].trigger = Defender[i].trig.id,
                 NEW j \in DOMAIN Defender[i].resps
          PROVE \E r \in DOMAIN pending' : Of(pending'[r], i, j)
      BY <2>2, <3>3 DEF Decisions
    <3> QED BY <1>1, <2>1, <3>1, <3>2, <3>3 DEF AllCome, Waits, Comes, Of, RespAt
  <2> QED BY <1>1, <1>2, <2>1, <2>3, <2>4, <2>5, <2>6, RestKept DEF SimInv, TriggerInv
<1> QED BY <1>3, <1>4, <1>5

-----------------------------------------------------------------------------
(* A response is applied.                                                    *)

LEMMA SetFlagsIs == ASSUME NEW f, NEW g
    PROVE /\ DOMAIN SetFlags(f, g) = DOMAIN f \cup DOMAIN g
          /\ \A k \in DOMAIN g : SetFlags(f, g)[k] = g[k]
          /\ \A k \in DOMAIN f : k \notin DOMAIN g => SetFlags(f, g)[k] = f[k]
BY DEF SetFlags

LEMMA EnvFlagIs == ASSUME NEW r
    PROVE /\ r.action \notin ENV_ACTIONS => DOMAIN EnvFlag(r) = {}
          /\ r.action \in ENV_ACTIONS => DOMAIN EnvFlag(r) = {<<ENV_FLAG_PREFIX[r.action], r.target>>}
<1>1. ASSUME r.action \notin ENV_ACTIONS PROVE DOMAIN EnvFlag(r) = {}
  <2>1. EnvFlag(r) = <<>> BY <1>1 DEF EnvFlag
  <2> QED BY <2>1, NoneIs
<1>2. ASSUME r.action \in ENV_ACTIONS PROVE DOMAIN EnvFlag(r) = {<<ENV_FLAG_PREFIX[r.action], r.target>>}
  <2>1. EnvFlag(r) = [key \in {<<ENV_FLAG_PREFIX[r.action], r.target>>} |->
            IF r.action = "inject_noise" THEN ToString(sim.noise + 1) ELSE ENV_FLAG_STATUS[r.action]]
    BY <1>2 DEF EnvFlag
  <2> QED BY <2>1, Zenon
<1> QED BY <1>1, <1>2

LEMMA HostFlag == ASSUME NEW a \in ENV_ACTIONS, ENV_FLAG_PREFIX[a] = "host" PROVE a = "quarantine_host"
BY DEF ENV_ACTIONS, ENV_FLAG_PREFIX

AppliesIn(role, applying) == <<role, applying>> \in {<<"attacker", "attack">>, <<"defender", "defend">>}
AppliedNow(role, r) ==
    /\ AppliesIn(role, turn)
    /\ pending # <<>> /\ r = Head(pending) /\ pending' = Tail(pending)
    /\ bus' = Append(bus, ResponseEvent(role, r))
    /\ records' = Append(records, [tick |-> tick, role |-> role, resp |-> r])
    /\ sim'.flags = SetFlags(SetFlags(sim.flags, EnvFlag(r)), r.sets)
    /\ sim'.fired = sim.fired \cup ({r.trigger} \ {"none"})
    /\ stopped \subseteq stopped' /\ (scn.live /\ r.action = "quarantine_host" => r.target \in stopped')
    /\ UNCHANGED <<scn, seen>>
    /\ (TurnPassed(role) /\ pending' = <<>>) \/ (turn' = turn /\ tick' = tick /\ pending' # <<>>)

LEMMA ApplyShape ==
    ASSUME SimInv, NEW role, NEW applying, _apply_responses(role, applying),
           AppliesIn(role, applying)
    PROVE \/ turn' = "raised" /\ UNCHANGED <<scn, tick, bus, sim, pending, records, seen, stopped>>
          \/ \E r : AppliedNow(role, r)
<1>1. turn = applying /\ tick \in Nat /\ tick < MaxTicks /\ IsSeq(pending) /\ pending # <<>>
  BY DEF SimInv, ScTyped, _apply_responses, AppliesIn
<1>2. PICK r : r = Head(pending) OBVIOUS
<1>3. PICK outcome \in RunnerOutcomes(r) :
        IF ~Returns(outcome)
        THEN turn' = "raised" /\ UNCHANGED <<scn, tick, bus, sim, pending, records, seen, stopped>>
        ELSE /\ bus' = Append(bus, ResponseEvent(role, r))
             /\ records' = Append(records, [tick |-> tick, role |-> role, resp |-> r])
             /\ sim' = [checkpoints |-> sim.checkpoints \cup ({r.checkpoint} \ {"none"}),
                        flags |-> SetFlags(SetFlags(sim.flags, EnvFlag(r)), r.sets),
                        fired |-> sim.fired \cup ({r.trigger} \ {"none"}),
                        noise |-> IF r.action = "inject_noise" THEN sim.noise + 1 ELSE sim.noise]
             /\ stopped' = IF scn.live /\ r.action = "quarantine_host" /\ outcome = "ok"
                           THEN stopped \cup {r.target} ELSE stopped
             /\ pending' = Tail(pending)
             /\ IF Len(pending) = 1 THEN NextTurn(role) ELSE UNCHANGED <<turn, tick>>
             /\ UNCHANGED <<scn, seen>>
  BY <1>2 DEF _apply_responses
<1>4. CASE ~Returns(outcome) BY <1>3, <1>4
<1>5. CASE Returns(outcome)
  <2>1. outcome = "ok" BY <1>5 DEF Returns
  <2>2. sim'.flags = SetFlags(SetFlags(sim.flags, EnvFlag(r)), r.sets) /\ sim'.fired = sim.fired \cup ({r.trigger} \ {"none"})
    BY <1>3, <1>5
  <2>3. (TurnPassed(role) /\ pending' = <<>>) \/ (turn' = turn /\ tick' = tick /\ pending' # <<>>)
    <3>1. CASE Len(pending) = 1
      <4>1. NextTurn(role) BY <1>3, <1>5, <3>1
      <4>2. IsSeq(Tail(pending)) /\ \A i \in DOMAIN Tail(pending) : FALSE
        <5>1. DOMAIN pending = {1} BY <1>1, <3>1, TailIs
        <5> QED BY <1>1, <5>1, TailIs
      <4>3. Len(Tail(pending)) \in Nat /\ DOMAIN Tail(pending) = 1..Len(Tail(pending)) BY <4>2, IsSeqFacts
      <4>4. 1 \notin 1..Len(Tail(pending)) BY <4>2, <4>3
      <4>5. PICK l : l = Len(Tail(pending)) OBVIOUS
      <4>9. l \in Nat /\ 1 \notin 1..l BY <4>3, <4>4, <4>5
      <4>10. l = 0 BY <4>9
      <4>6. Tail(pending) = <<>> BY <4>2, <4>5, <4>10, IsSeqFacts
      <4>7. role \in {"attacker", "defender"} BY DEF AppliesIn
      <4>8. TurnPassed(role) BY <1>1, <4>1, <4>7, NextTurnPasses
      <4> QED BY <1>3, <1>5, <4>6, <4>8
    <3>2. CASE Len(pending) # 1
      <4>1. Len(pending) \in Nat /\ Len(pending) # 0 /\ DOMAIN pending = 1..Len(pending) BY <1>1, IsSeqFacts
      <4>2. 2 \in DOMAIN pending BY <3>2, <4>1
      <4>3. 2 - 1 \in DOMAIN Tail(pending) BY <1>1, <4>2, TailIs
      <4>4. Tail(pending) # <<>> BY <4>3, NoneIs
      <4> QED BY <1>3, <1>5, <3>2, <4>4
    <3> QED BY <3>1, <3>2
  <2>4. AppliedNow(role, r) BY <1>1, <1>2, <1>3, <1>5, <2>1, <2>2, <2>3 DEF AppliedNow
  <2> QED BY <2>4
<1> QED BY <1>4, <1>5

\* The records after the step, and the time that may have passed.
RecordedNow(role, r, m) ==
    /\ m \in DOMAIN records' /\ m \notin DOMAIN records
    /\ records'[m].tick = tick /\ records'[m].role = role /\ records'[m].resp = r
    /\ \A n \in DOMAIN records : n \in DOMAIN records' /\ records'[n] = records[n]
    /\ \A n \in DOMAIN records' : n = m \/ n \in DOMAIN records
LEMMA RecordGrows == ASSUME SimInv, NEW role, NEW r, AppliedNow(role, r)
    PROVE IsSeq(records') /\ \E m : RecordedNow(role, r, m)
<1>1. PICK e : e = [tick |-> tick, role |-> role, resp |-> r] OBVIOUS
<1>2. e.tick = tick /\ e.role = role /\ e.resp = r BY <1>1
<1>3. IsSeq(records) /\ records' = Append(records, e) BY <1>1 DEF SimInv, ScTyped, AppliedNow
<1>4. RecordedNow(role, r, Len(records) + 1) BY <1>2, <1>3, AppendIs DEF RecordedNow
<1> QED BY <1>3, <1>4, AppendIs

LEMMA PendingShrinks == ASSUME SimInv, NEW role, NEW r, AppliedNow(role, r)
    PROVE /\ IsSeq(pending') /\ 1 \in DOMAIN pending /\ r = pending[1]
          /\ \A p \in DOMAIN pending' : p + 1 \in DOMAIN pending /\ pending'[p] = pending[p + 1] /\ p + 1 # 1 /\ p \in Nat
          /\ \A p \in DOMAIN pending : p = 1 \/ (p - 1 \in DOMAIN pending' /\ pending'[p - 1] = pending[p])
BY TailIs DEF SimInv, ScTyped, AppliedNow

LEMMA TimeGoes == ASSUME SimInv, NEW role, NEW r, AppliedNow(role, r)
    PROVE /\ tick \in Nat /\ tick' \in Nat /\ tick <= tick' /\ turn' \in {turn, "defender", "poll", "done"}
          /\ (turn' # "done" => tick' < MaxTicks) /\ (turn' = "poll" => tick < tick')
          /\ (turn' \in {"attack", "defend"} => turn' = turn /\ tick' = tick /\ pending' # <<>>)
          /\ (turn' \notin {"attack", "defend"} => pending' = <<>>)
BY DEF SimInv, ScTyped, AppliedNow, AppliesIn, TurnPassed

LEMMA ApplyTyped == ASSUME SimInv, NEW role, NEW r, AppliedNow(role, r) PROVE ScTyped' /\ AppliedBefore'
<1>1. PICK m : RecordedNow(role, r, m) BY RecordGrows
<1>2. \A n \in DOMAIN records : records[n].tick \in Nat /\ records[n].tick <= tick BY DEF SimInv, ScTyped
<1>3. ASSUME NEW n \in DOMAIN records' PROVE records'[n].tick \in Nat /\ records'[n].tick <= tick
  BY <1>1, <1>2, TimeGoes DEF RecordedNow
<1>4. turn' \in Turns /\ turn' # "attacker" BY TimeGoes DEF Turns, AppliedNow, AppliesIn
<1>5. ScTyped'
  <2>1. \A n \in DOMAIN records' : records'[n].tick \in Nat /\ records'[n].tick <= tick' BY <1>3, TimeGoes
  <2>2. scn' \in Scenarios BY DEF SimInv, ScTyped, AppliedNow
  <2> QED BY <1>4, <2>1, <2>2, TimeGoes, RecordGrows, PendingShrinks DEF ScTyped
<1>6. AppliedBefore' BY <1>3, <1>4, TimeGoes DEF AppliedBefore
<1> QED BY <1>5, <1>6

LEMMA ExplainedKept == ASSUME NEW role, NEW q, NEW m, RecordedNow(role, q, m), scn' = scn, NEW r, NEW t, BlockExplained(r, t)
                       PROVE BlockExplained(r, t)'
<1>1. ASSUME NEW key, FlagSetBefore(key, t) PROVE FlagSetBefore(key, t)'
  <2>1. PICK e \in DOMAIN records : records[e].tick < t /\ SetsFlag(RespAt(e), key) BY <1>1 DEF FlagSetBefore
  <2>2. e \in DOMAIN records' /\ records'[e] = records[e] BY <2>1 DEF RecordedNow
  <2> QED BY <2>1, <2>2 DEF FlagSetBefore, RespAt
<1> QED BY <1>1 DEF BlockExplained

LEMMA ApplyBlocked == ASSUME SimInv, NEW role, NEW r, AppliedNow(role, r) PROVE BlockedEarlier' /\ PlanReady'
<1>1. PICK m : RecordedNow(role, r, m) BY RecordGrows
<1>2. scn' = scn BY DEF AppliedNow
<1>3. ASSUME NEW n \in DOMAIN records', records'[n].role = "attacker",
             NEW x, x = records'[n].resp, NEW t, t = records'[n].tick
      PROVE BlockExplained(x, t)'
  <2>1. CASE n \in DOMAIN records
    <3>1. BlockExplained(x, t) BY <1>1, <1>3, <2>1 DEF SimInv, BlockedEarlier, RespAt, RecordedNow
    <3> QED BY <1>1, <1>2, <3>1, ExplainedKept
  <2>2. CASE n = m
    <3>1. x = r /\ t = tick /\ turn = "attack" BY <1>1, <1>3, <2>2 DEF RecordedNow, AppliedNow, AppliesIn
    <3>2. BlockExplained(x, t) BY <3>1, PendingShrinks DEF SimInv, PlanReady
    <3> QED BY <1>1, <1>2, <3>2, ExplainedKept
  <2> QED BY <1>1, <2>1, <2>2 DEF RecordedNow
<1>4. BlockedEarlier' BY <1>3 DEF BlockedEarlier, BlockExplained, FlagSetBefore, RespAt
<1>5. ASSUME turn' = "attack", NEW p \in DOMAIN pending', NEW x, x = pending'[p], NEW t, t = tick'
      PROVE x.trigger = "none" /\ BlockExplained(x, t)'
  <2>1. turn = "attack" /\ t = tick BY <1>5, TimeGoes
  <2>2. x.trigger = "none" /\ BlockExplained(x, t) BY <1>5, <2>1, PendingShrinks DEF SimInv, PlanReady
  <2> QED BY <1>1, <1>2, <2>2, ExplainedKept
<1>6. PlanReady' BY <1>5 DEF PlanReady, BlockExplained, FlagSetBefore
<1> QED BY <1>4, <1>6

LEMMA ApplyFlags == ASSUME SimInv, NEW role, NEW r, AppliedNow(role, r) PROVE FlagHasSetter' /\ FlagsTrue'
<1>1. PICK m : RecordedNow(role, r, m) BY RecordGrows
<1>2. PICK f, g, h : f = sim.flags /\ g = EnvFlag(r) /\ h = sim'.flags OBVIOUS
<1>3. h = SetFlags(SetFlags(f, g), r.sets) BY <1>2 DEF AppliedNow
<1>4. DOMAIN h = (DOMAIN f \cup DOMAIN g) \cup DOMAIN r.sets
  <2>1. PICK x, y : x = SetFlags(f, g) /\ y = r.sets OBVIOUS
  <2>2. DOMAIN x = DOMAIN f \cup DOMAIN g BY <2>1, SetFlagsIs
  <2>3. DOMAIN SetFlags(x, y) = DOMAIN x \cup DOMAIN y BY SetFlagsIs
  <2> QED BY <1>3, <2>1, <2>2, <2>3
<1>5. \A k \in DOMAIN g : r.action \in ENV_ACTIONS /\ k = <<ENV_FLAG_PREFIX[r.action], r.target>>
  BY <1>2, EnvFlagIs
<1>6. ASSUME NEW key \in DOMAIN h PROVE \E n \in DOMAIN records' : SetsFlag(records'[n].resp, key)
  <2>1. CASE key \in DOMAIN f
    <3>1. PICK n \in DOMAIN records : SetsFlag(records[n].resp, key) BY <1>2, <2>1 DEF SimInv, FlagHasSetter, RespAt
    <3> QED BY <1>1, <3>1 DEF RecordedNow
  <2>2. CASE key \in DOMAIN g \cup DOMAIN r.sets
    <3>1. SetsFlag(r, key) BY <1>5, <2>2 DEF SetsFlag
    <3> QED BY <1>1, <3>1 DEF RecordedNow
  <2> QED BY <1>4, <2>1, <2>2
<1>7. FlagHasSetter' BY <1>2, <1>6 DEF FlagHasSetter, RespAt
<1>8. ASSUME NEW key \in DOMAIN h, scn.live, key[1] = "host", h[key] = "quarantined", key[2] \notin stopped'
      PROVE \E n \in DOMAIN records' : key \in DOMAIN records'[n].resp.sets
  <2>1. CASE key \in DOMAIN r.sets BY <1>1, <2>1 DEF RecordedNow
  <2>2. CASE key \notin DOMAIN r.sets
    <3>1. key \notin DOMAIN g
      <4> SUFFICES ASSUME key \in DOMAIN g PROVE FALSE OBVIOUS
      <4>1. r.action \in ENV_ACTIONS /\ key = <<ENV_FLAG_PREFIX[r.action], r.target>> BY <1>5
      <4>2. ENV_FLAG_PREFIX[r.action] = "host" /\ key[2] = r.target BY <1>8, <4>1
      <4>3. r.action = "quarantine_host" BY <4>1, <4>2, HostFlag
      <4> QED BY <1>8, <4>2, <4>3 DEF AppliedNow
    <3>2. key \in DOMAIN f /\ h[key] = f[key]
      <4>0. DOMAIN SetFlags(f, g) = DOMAIN f \cup DOMAIN g BY SetFlagsIs
      <4>1. key \in DOMAIN f /\ key \in DOMAIN SetFlags(f, g) BY <1>4, <2>2, <3>1, <4>0
      <4>2. SetFlags(f, g)[key] = f[key] BY <3>1, <4>1, SetFlagsIs
      <4>3. PICK x, y : x = SetFlags(f, g) /\ y = r.sets OBVIOUS
      <4>4. h[key] = x[key] BY <1>3, <2>2, <4>1, <4>3, SetFlagsIs
      <4> QED BY <4>1, <4>2, <4>3, <4>4
    <3>3. key[2] \notin stopped BY <1>8 DEF AppliedNow
    <3>4. PICK n \in DOMAIN records : key \in DOMAIN records[n].resp.sets
      BY <1>2, <1>8, <3>2, <3>3 DEF SimInv, FlagsTrue, RespAt
    <3> QED BY <1>1, <3>4 DEF RecordedNow
  <2> QED BY <2>1, <2>2
<1>9. scn'.live = scn.live BY DEF AppliedNow
<1>10. FlagsTrue' BY <1>2, <1>8, <1>9 DEF FlagsTrue, RespAt
<1> QED BY <1>7, <1>10

LEMMA ApplyTriggers == ASSUME SimInv, NEW role, NEW r, AppliedNow(role, r) PROVE TriggerInv'
<1>1. PICK m : RecordedNow(role, r, m) BY RecordGrows
<1>2. PICK F, G : F = sim.fired /\ G = sim'.fired OBVIOUS
<1>3. G = F \cup ({r.trigger} \ {"none"}) BY <1>2 DEF AppliedNow
<1>4. Defender' = Defender BY DEF Defender, AppliedNow
<1>5. /\ \A n \in DOMAIN records : records[n].resp.trigger # "none" => records[n].resp.trigger \in F
      /\ \A n, k \in DOMAIN records : Same(records[n].resp, records[k].resp) => n = k
  BY <1>2 DEF SimInv, TriggerInv, RecordedFired, AppliedOnce, RespAt
<1>6. CASE turn = "attack"
  <2>1. r.trigger = "none" BY <1>6, PendingShrinks DEF SimInv, PlanReady
  <2>2. G = F BY <1>3, <2>1
  <2>3. turn' # "defend" BY <1>6, TimeGoes
  <2>4. RecordedFired' BY <1>1, <1>2, <1>5, <2>1, <2>2 DEF RecordedFired, RecordedNow, RespAt
  <2>5. AppliedOnce' BY <1>1, <1>5, <2>1 DEF AppliedOnce, RecordedNow, RespAt, Same
  <2>6. PendingOnce' BY <2>3 DEF PendingOnce
  <2>7. ASSUME NEW i \in DOMAIN Defender, Defender[i].trig.id \in F, NEW j \in DOMAIN Defender[i].resps
        PROVE \E n \in DOMAIN records' : Of(records'[n].resp, i, j)
    <3>1. PICK n \in DOMAIN records : Of(records[n].resp, i, j)
      BY <1>2, <1>6, <2>7 DEF SimInv, TriggerInv, AllCome, Comes, RespAt
    <3> QED BY <1>1, <3>1 DEF RecordedNow
  <2>8. AllCome' BY <1>2, <1>4, <2>2, <2>3, <2>7 DEF AllCome, Waits, Comes, Of, RespAt
  <2> QED BY <2>4, <2>5, <2>6, <2>8 DEF TriggerInv
<1>7. CASE turn = "defend"
  <2>1. r = pending[1] /\ 1 \in DOMAIN pending BY PendingShrinks
  <2>2. /\ \A p \in DOMAIN pending : pending[p].trigger # "none"
        /\ \A p, q \in DOMAIN pending : Same(pending[p], pending[q]) => p = q
        /\ \A p \in DOMAIN pending, n \in DOMAIN records : ~Same(pending[p], records[n].resp)
    BY <1>7 DEF SimInv, TriggerInv, PendingOnce, RespAt
  <2>3. r.trigger # "none" /\ G = F \cup {r.trigger} BY <1>3, <2>1, <2>2
  <2>4. RecordedFired'
    <3>1. \A n \in DOMAIN records' : records'[n].resp.trigger # "none" => records'[n].resp.trigger \in G
      BY <1>1, <1>5, <2>3 DEF RecordedNow
    <3> QED BY <1>2, <3>1 DEF RecordedFired, RespAt
  <2>5. AppliedOnce'
    <3>1. \A n \in DOMAIN records : ~Same(r, records[n].resp) BY <2>1, <2>2
    <3>2. \A n, k \in DOMAIN records' : Same(records'[n].resp, records'[k].resp) => n = k
      BY <1>1, <1>5, <3>1 DEF RecordedNow, Same
    <3> QED BY <3>2 DEF AppliedOnce, RespAt, Same
  <2>6. PendingOnce'
    <3>1. \A p \in DOMAIN pending' : pending'[p].trigger # "none" BY <2>2, PendingShrinks
    <3>2. ASSUME NEW p \in DOMAIN pending', NEW q \in DOMAIN pending', Same(pending'[p], pending'[q]) PROVE p = q
      <4>1. p + 1 = q + 1 /\ p \in Nat /\ q \in Nat BY <2>2, <3>2, PendingShrinks
      <4> QED BY <4>1
    <3>3. ASSUME NEW p \in DOMAIN pending', NEW n \in DOMAIN records' PROVE ~Same(pending'[p], records'[n].resp)
      <4>1. p + 1 \in DOMAIN pending /\ pending'[p] = pending[p + 1] /\ p + 1 # 1 BY PendingShrinks
      <4>2. CASE n = m BY <1>1, <2>1, <2>2, <4>1, <4>2 DEF RecordedNow
      <4>3. CASE n \in DOMAIN records BY <1>1, <2>2, <4>1, <4>3 DEF RecordedNow
      <4> QED BY <1>1, <4>2, <4>3 DEF RecordedNow
    <3> QED BY <3>1, <3>2, <3>3 DEF PendingOnce, RespAt, Same
  <2>7. ASSUME NEW i \in DOMAIN Defender, Defender[i].trig.id \in F \/ (\E p \in DOMAIN pending : pending[p].trigger = Defender[i].trig.id),
               NEW j \in DOMAIN Defender[i].resps
        PROVE (\E n \in DOMAIN records' : Of(records'[n].resp, i, j)) \/ \E p \in DOMAIN pending' : Of(pending'[p], i, j)
    <3>1. (\E n \in DOMAIN records : Of(records[n].resp, i, j)) \/ \E p \in DOMAIN pending : Of(pending[p], i, j)
      BY <1>2, <1>7, <2>7 DEF SimInv, TriggerInv, AllCome, Waits, Comes, RespAt
    <3>2. CASE \E n \in DOMAIN records : Of(records[n].resp, i, j) BY <1>1, <3>2 DEF RecordedNow
    <3>3. CASE \E p \in DOMAIN pending : Of(pending[p], i, j)
      <4>1. PICK p \in DOMAIN pending : Of(pending[p], i, j) BY <3>3
      <4>2. CASE p = 1 BY <1>1, <2>1, <4>1, <4>2 DEF RecordedNow
      <4>3. CASE p # 1
        <5>1. p - 1 \in DOMAIN pending' /\ pending'[p - 1] = pending[p] BY <4>3, PendingShrinks
        <5> QED BY <4>1, <5>1
      <4> QED BY <4>2, <4>3
    <3> QED BY <3>1, <3>2, <3>3
  <2>8. ASSUME NEW i \in DOMAIN Defender, Defender[i].trig.id \in G \/ (\E p \in DOMAIN pending' : pending'[p].trigger = Defender[i].trig.id)
        PROVE Defender[i].trig.id \in F \/ (\E p \in DOMAIN pending : pending[p].trigger = Defender[i].trig.id)
    BY <2>1, <2>3, <2>8, PendingShrinks
  <2>9. turn' # "defend" => \A p \in DOMAIN pending' : FALSE
    <3> SUFFICES ASSUME turn' # "defend" PROVE DOMAIN pending' = {} OBVIOUS
    <3>1. turn' \notin {"attack", "defend"} BY <1>7, TimeGoes
    <3> QED BY <3>1, TimeGoes, NoneIs
  <2>10. ASSUME NEW i \in DOMAIN Defender,
                Defender[i].trig.id \in G \/ (turn' = "defend" /\ \E p \in DOMAIN pending' : pending'[p].trigger = Defender[i].trig.id),
                NEW j \in DOMAIN Defender[i].resps
         PROVE \/ \E n \in DOMAIN records' : Of(records'[n].resp, i, j)
               \/ turn' = "defend" /\ \E p \in DOMAIN pending' : Of(pending'[p], i, j)
    <3>1. Defender[i].trig.id \in F \/ (\E p \in DOMAIN pending : pending[p].trigger = Defender[i].trig.id) BY <2>8, <2>10
    <3>2. (\E n \in DOMAIN records' : Of(records'[n].resp, i, j)) \/ \E p \in DOMAIN pending' : Of(pending'[p], i, j)
      BY <2>7, <3>1
    <3> QED BY <2>9, <3>2
  <2>11. AllCome' BY <1>2, <1>4, <2>10 DEF AllCome, Waits, Comes, Of, RespAt
  <2> QED BY <2>4, <2>5, <2>6, <2>11 DEF TriggerInv
<1> QED BY <1>6, <1>7 DEF AppliedNow, AppliesIn

LEMMA ApplyBus == ASSUME SimInv, NEW role, NEW r, AppliedNow(role, r) PROVE BusInv(bus, seen, tick, scn.live)'
<1>1. PICK e : e = ResponseEvent(role, r) OBVIOUS
<1>2. e.tick = tick /\ e.source # "http"
  <2>1. CASE r.action \in ENV_ACTIONS
    <3>1. PICK x : x = SimEvent(0, "environment", r.action, r.target) OBVIOUS
    <3>2. x.source = "environment" /\ IsEvent(x) BY <3>1, EventIs DEF IsEvent
    <3>3. e = Stamped(x) BY <1>1, <2>1, <3>1 DEF ResponseEvent
    <3> QED BY <3>2, <3>3, StampedIs
  <2>2. CASE r.action \notin ENV_ACTIONS
    <3>1. e = SimEvent(tick, role, r.action, r.target) BY <1>1, <2>2 DEF ResponseEvent
    <3>2. role # "http" BY DEF AppliedNow, AppliesIn
    <3> QED BY <3>1, <3>2, EventIs
  <2> QED BY <2>1, <2>2
<1>3. bus' = Append(bus, e) /\ seen' = seen /\ scn' = scn BY <1>1 DEF AppliedNow
<1>4. tick \in Nat /\ tick' \in Nat /\ tick <= tick' BY TimeGoes
<1>5. BusInv(bus, seen, tick, scn.live) BY DEF SimInv
<1>6. BusInv(Append(bus, e), seen, tick, scn.live) BY <1>2, <1>4, <1>5, BusAppends
<1>7. BusInv(Append(bus, e), seen, tick', scn.live) BY <1>4, <1>6, BusLater
<1> QED BY <1>3, <1>7

LEMMA AppliesKeeps == ASSUME SimInv, AttackerApplies \/ DefenderApplies PROVE SimInv'
<1>1. \/ turn' = "raised" /\ UNCHANGED <<scn, tick, bus, sim, pending, records, seen, stopped>>
      \/ \E role, r : AppliedNow(role, r)
  <2>1. CASE AttackerApplies
    <3>1. _apply_responses("attacker", "attack") BY <2>1 DEF AttackerApplies
    <3>2. \/ turn' = "raised" /\ UNCHANGED <<scn, tick, bus, sim, pending, records, seen, stopped>>
          \/ \E r : AppliedNow("attacker", r)
      <4>1. AppliesIn("attacker", "attack") BY DEF AppliesIn
      <4> QED BY <3>1, <4>1, ApplyShape
    <3> QED BY <3>2
  <2>2. CASE DefenderApplies
    <3>1. _apply_responses("defender", "defend") BY <2>2 DEF DefenderApplies
    <3>2. \/ turn' = "raised" /\ UNCHANGED <<scn, tick, bus, sim, pending, records, seen, stopped>>
          \/ \E r : AppliedNow("defender", r)
      <4>1. AppliesIn("defender", "defend") BY DEF AppliesIn
      <4> QED BY <3>1, <4>1, ApplyShape
    <3> QED BY <3>2
  <2> QED BY <2>1, <2>2
<1>2. turn # "done" BY DEF AttackerApplies, DefenderApplies, _apply_responses
<1>3. CASE turn' = "raised" /\ UNCHANGED <<scn, tick, bus, sim, pending, records, seen, stopped>>
  BY <1>2, <1>3, RaisedKeeps
<1>4. CASE \E role, r : AppliedNow(role, r)
  <2>1. PICK role, r : AppliedNow(role, r) BY <1>4
  <2>2. ScTyped' /\ AppliedBefore' BY <2>1, ApplyTyped
  <2>3. BlockedEarlier' /\ PlanReady' BY <2>1, ApplyBlocked
  <2>4. FlagHasSetter' /\ FlagsTrue' BY <2>1, ApplyFlags
  <2>5. TriggerInv' BY <2>1, ApplyTriggers
  <2>6. BusInv(bus, seen, tick, scn.live)' BY <2>1, ApplyBus
  <2> QED BY <2>2, <2>3, <2>4, <2>5, <2>6 DEF SimInv
<1> QED BY <1>1, <1>3, <1>4

-----------------------------------------------------------------------------

LEMMA SimStarts == SimInit => SimInv
<1> SUFFICES ASSUME SimInit PROVE SimInv OBVIOUS
<1>1. /\ scn \in Scenarios /\ tick = 0 /\ turn = IF MaxTicks = 0 THEN "done" ELSE "poll"
      /\ bus = <<>> /\ pending = <<>> /\ records = <<>> /\ sim.flags = <<>> /\ sim.fired = {}
  BY DEF SimInit
<1>2. DOMAIN records = {} /\ DOMAIN bus = {} /\ DOMAIN sim.flags = {} /\ IsSeq(records) /\ IsSeq(pending) /\ IsSeq(bus)
  BY <1>1, NoneIs
<1>3. turn \in {"done", "poll"} /\ (turn # "done" => tick < MaxTicks) BY <1>1, TicksAssumption
<1>4. ScTyped /\ AppliedBefore BY <1>1, <1>2, <1>3 DEF ScTyped, AppliedBefore, Turns
<1>5. FlagHasSetter /\ BlockedEarlier /\ PlanReady /\ FlagsTrue
  BY <1>2, <1>3 DEF FlagHasSetter, BlockedEarlier, PlanReady, FlagsTrue
<1>6. TriggerInv BY <1>1, <1>2, <1>3 DEF TriggerInv, RecordedFired, AppliedOnce, PendingOnce, AllCome, Waits
<1>7. BusInv(bus, seen, tick, scn.live) BY <1>2 DEF BusInv, CkOnce
<1> QED BY <1>4, <1>5, <1>6, <1>7 DEF SimInv

LEMMA SimStays == ASSUME SimInv, UNCHANGED simVars PROVE SimInv'
<1>1. UNCHANGED <<scn, tick, turn, bus, sim, pending, records, seen, stopped>> BY DEF simVars
<1>2. Defender' = Defender BY <1>1 DEF Defender
<1>3. ScTyped' /\ AppliedBefore' BY <1>1 DEF SimInv, ScTyped, AppliedBefore
<1>4. FlagHasSetter' BY <1>1 DEF SimInv, FlagHasSetter, RespAt
<1>5. BlockedEarlier' BY <1>1 DEF SimInv, BlockedEarlier, BlockExplained, FlagSetBefore, RespAt
<1>6. PlanReady' BY <1>1 DEF SimInv, PlanReady, BlockExplained, FlagSetBefore, RespAt
<1>7. FlagsTrue' BY <1>1 DEF SimInv, FlagsTrue, RespAt
<1>8. RecordedFired' /\ AppliedOnce' /\ PendingOnce'
  BY <1>1 DEF SimInv, TriggerInv, RecordedFired, AppliedOnce, PendingOnce, RespAt
<1>9. AllCome' BY <1>1, <1>2 DEF SimInv, TriggerInv, AllCome, Waits, Comes, Of, RespAt
<1>10. BusInv(bus, seen, tick, scn.live)' BY <1>1 DEF SimInv
<1> QED BY <1>3, <1>4, <1>5, <1>6, <1>7, <1>8, <1>9, <1>10 DEF SimInv, TriggerInv

LEMMA AtMostOne == ASSUME NEW S, \A x, y \in S : x = y PROVE Cardinality(S) \in Nat /\ Cardinality(S) <= 1
<1>1. CASE S = {} BY <1>1, FS_EmptySet
<1>2. CASE S # {}
  <2>1. PICK x : x \in S BY <1>2
  <2>2. S = {x} BY <2>1
  <2> QED BY <2>2, FS_Singleton
<1> QED BY <1>1, <1>2

LEMMA ExactlyOne == ASSUME NEW S, \A x, y \in S : x = y, S # {} PROVE Cardinality(S) = 1
<1>1. PICK x : x \in S OBVIOUS
<1>2. S = {x} BY <1>1
<1> QED BY <1>2, FS_Singleton

LEMMA SimInvSafe == ASSUME SimInv PROVE ScenarioSafe
<1>1. TimelineOrdered BY DEF SimInv, BusInv, TimelineOrdered
<1>2. CheckpointOnce
  <2> SUFFICES ASSUME NEW ck \in SimCheckpoint, scn.live, OnlyText(ck)
               PROVE Cardinality({i \in DOMAIN bus : Publishes(bus[i], ck)}) <= 1
    BY DEF CheckpointOnce
  <2>1. CkOnce(bus, seen, ck) BY DEF SimInv, BusInv
  <2>2. \A i, j \in {n \in DOMAIN bus : Publishes(bus[n], ck)} : i = j BY <2>1 DEF CkOnce
  <2> QED BY <2>2, AtMostOne
<1>3. TriggersFireWhole
  <2> SUFFICES ASSUME NEW i \in DOMAIN Defender, NEW j \in DOMAIN Defender[i].resps,
                      NEW S, S = {n \in DOMAIN records : Of(RespAt(n), i, j)}
               PROVE /\ Cardinality(S) <= 1
                     /\ Defender[i].trig.id \in sim.fired /\ turn \notin {"defend", "raised"} => Cardinality(S) = 1
    BY DEF TriggersFireWhole, Of
  <2>1. Defender[i].trig.id # "none" BY ScenarioIs DEF SimInv, ScTyped, IsDefender
  <2>2. \A n, k \in S : n = k BY <2>1 DEF SimInv, TriggerInv, AppliedOnce, Same, Of
  <2>3. Defender[i].trig.id \in sim.fired /\ turn \notin {"defend", "raised"} => S # {}
    BY DEF SimInv, TriggerInv, AllCome, Comes
  <2> QED BY <2>2, <2>3, AtMostOne, ExactlyOne
<1>4. BlockedEarlier /\ FlagsTrue BY DEF SimInv
<1> QED BY <1>1, <1>2, <1>3, <1>4 DEF ScenarioSafe

\* What the report of a scenario says is what happened: each response of a
\* trigger that fired is applied once, a blocked move has a reason in an
\* earlier tick, the timeline is in order, a checkpoint is published once, and
\* the flag of a quarantined host is true.  (run_scenario, for every scenario
\* that is well formed, every checkpoint and every number of ticks)
THEOREM ScenarioSafeHolds == SimInit /\ [][SimNext]_simVars => []ScenarioSafe
<1>1. SimInv /\ [SimNext]_simVars => SimInv'
  BY PollKeeps, AttackerDecidesKeeps, DefenderDecidesKeeps, AppliesKeeps, SimStays DEF SimNext
<1>2. SimInv => ScenarioSafe BY SimInvSafe
<1> QED BY <1>1, <1>2, SimStarts, PTL
=============================================================================
