----------------------------- MODULE Reconciler -----------------------------
(***************************************************************************)
(* InstanceReconciler.reconcile_once beside the calls and the workers of   *)
(* InstanceWorker.  A pass reads the row once and decides from that copy,  *)
(* one transaction after the other; every exception ends its work on the   *)
(* instance.  Several passes may run at once.                              *)
(***************************************************************************)
EXTENDS InstanceWorker

CONSTANTS Pass,      \* reconciler passes that may run at once
          Calls,     \* the calls an operator makes after the request
          MaxCalls,  \* bound: operator calls, and calls that die
          MaxFaults, \* bound: faults and unasked reports
          MaxSpent   \* bound: the sum of both

ASSUME ReconcilerAssumption == {MaxCalls, MaxFaults, MaxSpent} \subseteq Nat

VARIABLES pass,      \* pass[p]: pc, the copy of the row, what it observed, and
                     \* the resources it has read and means to mark
          spent      \* how many calls and how many faults there were

recVars == <<instVars, pass, spent>>

NoPass == [pc |-> "idle", after |-> "end", seen |-> "absent", marks |-> {},
           row |-> NewRow]

\* What a pass keeps between two of its transactions.
PassPc == {"idle", "observe", "worker", "stale", "delete stale", "advance", "degrade", "lookup",
           "fence", "relaunch", "drain", "settle", "exposed", "endpoints", "delete exposed",
           "mark", "clean", "delete unexpected", "archive", "archive now", "release", "end"}
PassRecord == [pc : PassPc, after : PassPc, seen : {"absent", "sick", "healthy"},
               marks : ResourceSet, row : InstanceRow]

RecInit == InstInit /\ pass = [p \in Pass |-> NoPass] /\ spent = [calls |-> 0, faults |-> 0]

\* Every live state, not just the running ones.
LiveDrainable == {"requested", "queued", "building", "ready", "starting", "healthy",
                  "active", "degraded"}
RecoveryStates == LiveDrainable \cup {"failed", "stopped"}
Archivable == {"stopped", "expired", "failed", "quarantined"}

-----------------------------------------------------------------------------

At(p, pc) == pass[p].pc = pc
Copy(p) == pass[p].row

\* The columns of its copy that the code from pc on still reads; the rest is
\* forgotten, and at "end" everything is.
Reads(pc) == CASE pc \in {"lookup", "fence", "relaunch", "delete unexpected"} -> {"gen"}
               [] pc \in {"advance", "archive"}  -> {"state"}
               [] pc \in {"stale", "delete stale"} -> {"gen", "state"}
               [] pc \in {"clean", "endpoints", "delete exposed", "mark", "drain", "settle", "exposed"}
                                                -> {"gen", "state", "desired"}
               [] pc = "worker"                 -> {"gen", "state", "worker"}
               [] OTHER                         -> {}

Recalled(r, pc) ==
    [state   |-> IF "state" \in Reads(pc) THEN r.state ELSE NewRow.state,
     desired |-> IF "desired" \in Reads(pc) THEN r.desired ELSE NewRow.desired,
     gen     |-> IF "gen" \in Reads(pc) THEN r.gen ELSE NewRow.gen,
     worker  |-> IF "worker" \in Reads(pc) THEN r.worker ELSE NewRow.worker]

\* Pass p goes on at pc with row r as its copy.
GoWith(p, pc, r) ==
    pass' = [pass EXCEPT ![p] =
      IF pc = "end" THEN NoPass
      ELSE [pc |-> pc, after |-> "end", row |-> Recalled(r, pc),
            marks |-> IF pc \in {"delete exposed", "mark"} THEN @.marks ELSE {},
            seen |-> IF pc \in {"worker", "stale", "delete stale", "drain", "clean"}
                     THEN @.seen ELSE "absent"]]

Go(p, pc) == GoWith(p, pc, Copy(p))
Done(p) == Go(p, "end")

\* ... after the release of the hold, which is a transaction of its own.
ReleaseThen(p, pc, r) ==
    pass' = [pass EXCEPT ![p] = [pc |-> "release", after |-> pc, row |-> Recalled(r, pc),
                                 seen |-> "absent", marks |-> {}]]

WorldOnly == UNCHANGED <<hostVars, out, quiet, call, exec>>

\* list_reconcilable
Begin(p) ==
    /\ pass[p] = NoPass
    /\ Writable(row)
    /\ pass' = [pass EXCEPT ![p] = [NoPass EXCEPT !.pc = "observe", !.row = row]]
    /\ UNCHANGED instVars

\* _effective_observation: one of another generation is ignored.
Effective(r) == IF obs.gen = r.gen THEN obs.what ELSE "absent"

Observe(p) ==
    /\ At(p, "observe")
    /\ LET pc == CASE Copy(p).desired = "active"  -> "worker"
                   [] Copy(p).desired = "stopped" -> "drain"
                   [] OTHER                       -> "clean"
       IN  pass' = [pass EXCEPT ![p] = [pc |-> pc, after |-> "end", seen |-> Effective(Copy(p)),
                                        marks |-> {}, row |-> Recalled(Copy(p), pc)]]
    /\ UNCHANGED instVars

\* _enqueue, with the generation of the copy.
Correct(p, a, next) ==
    /\ jobs' = Enqueued(Copy(p).gen, a)
    /\ next
    /\ UNCHANGED <<row, hold, factVars>> /\ WorldOnly

\* _drive_transition: a no-op, a legal move, or the trigger's exception.
Drive(p, t, next) ==
    /\ IF MayMove(row, t)
       THEN /\ row' = Moved(row, t)
            /\ IF row.state # t /\ t \in ReleaseStates
               THEN ReleaseThen(p, next, Moved(row, t))
               ELSE GoWith(p, next, Moved(row, t))
       ELSE Done(p) /\ UNCHANGED row
    /\ UNCHANGED <<hold, jobs, factVars>> /\ WorldOnly

\* The hold is released in a transaction of its own.
ReleaseHold(p) ==
    /\ At(p, "release")
    /\ hold' = Released(hold)
    /\ Go(p, pass[p].after)
    /\ UNCHANGED <<row, jobs, factVars>> /\ WorldOnly

\* The process of the pass dies.
Die(p) ==
    /\ pass[p] # NoPass
    /\ Done(p)
    /\ UNCHANGED instVars

-----------------------------------------------------------------------------
(* _reconcile_active *)

Evacuable(p) == LET w == Copy(p).worker IN
    w # NoWorker /\ (w \in out \/ (w \in quiet /\ pass[p].seen # "healthy"))

\* fence_stale_worker: still the same worker at the same generation.
FenceWorker(p) == row.worker = Copy(p).worker /\ row.gen = Copy(p).gen /\ Writable(row)

\* Case 3.  Bound: MaxGen.
Evacuate(p) ==
    /\ At(p, "worker") /\ Evacuable(p)
    /\ IF FenceWorker(p) /\ row.gen < MaxGen
       THEN /\ row' = bump_generation(set_assignment(row, NoWorker))
            /\ ReleaseThen(p, "relaunch", bump_generation(row))
       ELSE Done(p) /\ UNCHANGED row
    /\ UNCHANGED <<hold, jobs, factVars>> /\ WorldOnly

\* Cases 1 and 4 apply.
Missing(p) == pass[p].seen = "absent" /\ Copy(p).state \in RecoveryStates

Ladder(s) == CASE s = "building" -> "ready" [] s = "ready" -> "starting"
               [] s = "starting" -> "healthy" [] OTHER -> "none"

\* Case 6: a healthy observation, and the row has not changed for long enough
\* or it has.
Stuck(p) == pass[p].seen = "healthy" /\ Ladder(Copy(p).state) # "none"

\* What is left to do once the worker and the resources are in order.
Remaining(p) == CASE Stuck(p)    -> {"advance", "end"}
                  [] ~Missing(p) -> {"end"}
                  [] Copy(p).state \in {"active", "healthy"} -> {"degrade"}
                  [] OTHER       -> {"lookup"}

\* The resources of older generations, as _load_facts returns them.
Stale(p) == {g \in live : g < Copy(p).gen}

\* The pass goes on at pc, with the resources it has read.
GoMarking(p, pc, after, marks) ==
    pass' = [pass EXCEPT ![p].pc = pc, ![p].after = after, ![p].marks = marks,
                         ![p].row = Recalled(Copy(p), pc)]

KeepWorker(p) ==
    /\ At(p, "worker") /\ ~Evacuable(p)
    /\ IF Stale(p) # {}
       THEN GoMarking(p, "stale", "end", Stale(p))
       ELSE \E next \in Remaining(p) : Go(p, next)
    /\ UNCHANGED instVars

\* Case 8: resources of older generations.  set_resource_state writes each one.
MarkStale(p) ==
    /\ At(p, "stale")
    /\ set_resource_state(pass[p].marks)
    /\ Go(p, "delete stale")
    /\ UNCHANGED <<rowVars, obs, exposed>> /\ WorldOnly

DeleteStale(p) ==
    At(p, "delete stale") /\ \E next \in Remaining(p) : Correct(p, "delete", Go(p, next))

Advance(p) == At(p, "advance") /\ Drive(p, Ladder(Copy(p).state), "end")

Degrade(p) == At(p, "degrade") /\ Drive(p, "degraded", "lookup")

\* Mutant: only a launch that has succeeded is fenced and repeated.
LookUpSucceeded(p) ==
    /\ At(p, "lookup")
    /\ Go(p, CASE jobs[Copy(p).gen]["launch"] \in {"queued", "running"} -> "relaunch"
                  [] jobs[Copy(p).gen]["launch"] = "succeeded" -> "fence"
                  [] OTHER -> "end")
    /\ UNCHANGED instVars

\* A launch that is under way is left alone; one that is spent for good is
\* left to the operator.
LookUpLaunch(p) ==
    /\ At(p, "lookup")
    /\ Go(p, CASE jobs[Copy(p).gen]["launch"] \in {"queued", "running"} -> "relaunch"
                  [] jobs[Copy(p).gen]["launch"] \in {"none", "succeeded"} -> "fence"
                  [] OTHER -> "end")
    /\ UNCHANGED instVars

\* fence_missing_container.  Bound: MaxGen.
FenceMissing(p) ==
    /\ At(p, "fence")
    /\ IF row.gen = Copy(p).gen /\ Writable(row) /\ row.gen < MaxGen
       THEN /\ row' = bump_generation(row)
            /\ GoWith(p, "relaunch", bump_generation(row))
       ELSE Done(p) /\ UNCHANGED row
    /\ UNCHANGED <<hold, jobs, factVars>> /\ WorldOnly

Relaunch(p) == At(p, "relaunch") /\ Correct(p, "launch", Done(p))

-----------------------------------------------------------------------------
(* _reconcile_stopped, _reconcile_deleted *)

\* Mutant: only running instances are drained.
DrainsRunning(s) == s \in {"starting", "healthy", "active", "degraded"}

Drains(s) == s \in LiveDrainable

\* Where a drained instance goes next.
AfterDrain(p) == IF Copy(p).desired = "deleted" THEN "archive" ELSE "exposed"

\* Case 2: it runs though it should not.
StopUnexpected(p) ==
    /\ pass[p].seen # "absent"
    /\ \/ At(p, "drain") /\ Correct(p, "stop", Go(p, "exposed"))
       \/ At(p, "clean") /\ Correct(p, "stop", Go(p, "delete unexpected"))

DeleteUnexpected(p) == At(p, "delete unexpected") /\ Correct(p, "delete", Done(p))

\* _drain_to_stopped, its first and its second move.
Drain(p) ==
    /\ At(p, "drain") /\ pass[p].seen = "absent"
    /\ IF Drains(Copy(p).state)
       THEN Drive(p, "stopping", "settle")
       ELSE Go(p, "settle") /\ UNCHANGED instVars

Settle(p) ==
    /\ At(p, "settle")
    /\ IF Copy(p).state = "stopping"
       THEN Drive(p, "stopped", AfterDrain(p))
       ELSE Go(p, AfterDrain(p)) /\ UNCHANGED instVars

\* _cleanup_exposed: read the facts, drop the endpoints, enqueue the delete job,
\* mark what was active.  Case 9 for a stopped instance, and first of all for a
\* deleted one.
CleanEndpoints(p) ==
    /\ \/ At(p, "exposed") /\ Copy(p).state = "stopped"
       \/ At(p, "clean") /\ pass[p].seen = "absent"
    /\ LET rest == CASE live \cup dropping # {}      -> "delete exposed"
                     [] Copy(p).desired = "deleted" -> "drain"
                     [] OTHER                       -> "end"
       IN  IF exposed THEN GoMarking(p, "endpoints", rest, live)
                      ELSE IF rest = "delete exposed"
                           THEN GoMarking(p, rest, "end", live)
                           ELSE Go(p, rest)
    /\ UNCHANGED instVars

DropEndpoints(p) ==
    /\ At(p, "endpoints")
    /\ delete_endpoint
    /\ IF pass[p].after = "delete exposed"
       THEN GoMarking(p, "delete exposed", "end", pass[p].marks)
       ELSE Go(p, pass[p].after)
    /\ UNCHANGED <<rowVars, obs, live, dropping>> /\ WorldOnly

NotExposed(p) == /\ At(p, "exposed") /\ Copy(p).state # "stopped"
                 /\ Done(p) /\ UNCHANGED instVars

DeleteExposed(p) == At(p, "delete exposed") /\ Correct(p, "delete", Go(p, "mark"))

MarkExposed(p) ==
    /\ At(p, "mark")
    /\ set_resource_state(pass[p].marks)
    /\ Go(p, IF Copy(p).desired = "deleted" THEN "drain" ELSE "end")
    /\ UNCHANGED <<rowVars, obs, exposed>> /\ WorldOnly

\* Nothing in the repository moves a resource to released.
FullyCleaned == live = {} /\ dropping = {} /\ ~exposed

ReadCleaned(p) ==
    /\ At(p, "archive")
    /\ IF Copy(p).state \in Archivable /\ FullyCleaned THEN Go(p, "archive now") ELSE Done(p)
    /\ UNCHANGED instVars

Archive(p) == At(p, "archive now") /\ Drive(p, "archived", "end")

\* Mutant: endpoints are swept with the leaked resources only.
SweepEndpointsOfLeaks ==
    /\ row.state = "archived" /\ exposed /\ live # {}
    /\ exposed' = FALSE
    /\ UNCHANGED <<rowVars, obs, live, dropping, pass>> /\ WorldOnly

\* _reconcile_leaks: cases 5 and 10.
SweepLeaks ==
    /\ list_leaked_resources # {}
    /\ jobs' = Enqueued(row.gen, "delete")
    /\ set_resource_state(list_leaked_resources)
    /\ UNCHANGED <<row, hold, obs, exposed, pass>> /\ WorldOnly

SweepOrphanEndpoints ==
    /\ list_orphan_endpoints
    /\ delete_endpoint
    /\ UNCHANGED <<rowVars, obs, live, dropping, pass>> /\ WorldOnly

-----------------------------------------------------------------------------

PassStep(p) ==
    \/ Begin(p) \/ Observe(p) \/ ReleaseHold(p)
    \/ Evacuate(p) \/ KeepWorker(p) \/ MarkStale(p) \/ DeleteStale(p)
    \/ Advance(p) \/ Degrade(p) \/ LookUpLaunch(p)
    \/ FenceMissing(p) \/ Relaunch(p)
    \/ StopUnexpected(p) \/ DeleteUnexpected(p) \/ Drain(p) \/ Settle(p)
    \/ CleanEndpoints(p) \/ NotExposed(p) \/ DeleteExposed(p) \/ MarkExposed(p)
    \/ DropEndpoints(p) \/ ReadCleaned(p) \/ Archive(p)

CallStep == RequestInstance \/ RequestReserve \/ RequestPlace \/ CallEnqueue
            \/ ResetRehold \/ ExpireRelease

WorkStep ==
    \/ \E w \in Worker : \/ ExecStep(w) \/ WorkerStarts(w)
                         \/ \E g \in Gen, a \in Action : Claim(w, g, a)
    \/ \E g \in Gen, a \in Action : Reap(g, a)

OperatorCall ==
    \/ "stop" \in Calls /\ RequestStop
    \/ "reset" \in Calls /\ RequestReset
    \/ "delete" \in Calls /\ RequestDelete
    \/ "expire" \in Calls /\ Expire
    \/ CallEnds

Fault ==
    \/ SweepHold
    \/ \E g \in Gen, a \in Action : ReapForGood(g, a)
    \/ \E w \in Worker : \/ Crash(w) \/ LaunchRefused(w) \/ LaunchSick(w) \/ DoHealth(w)
                         \/ WorkerOut(w) \/ WorkerBlinks(w) \/ FailForGood(w)
                         \/ \E t \in OtherReports : OtherTransition(w, t)

Spend(what, max) ==
    /\ spent[what] < max /\ spent.calls + spent.faults < MaxSpent
    /\ spent' = [spent EXCEPT ![what] = @ + 1]

SpendCall == Spend("calls", MaxCalls)
SpendFault == Spend("faults", MaxFaults)

RecNext ==
    \/ (CallStep \/ RequestRefused \/ WorkStep) /\ UNCHANGED <<pass, spent>>
    \/ OperatorCall /\ SpendCall /\ UNCHANGED pass
    \/ Fault /\ SpendFault /\ UNCHANGED pass
    \/ \E p \in Pass : (PassStep(p) /\ UNCHANGED spent) \/ (Die(p) /\ SpendFault)
    \/ (SweepLeaks \/ SweepOrphanEndpoints) /\ UNCHANGED spent

RecSpec == RecInit /\ [][RecNext]_recVars

\* Passes are run again and again and a pass that has begun goes on; a worker
\* polls for jobs, carries on with the one it has and is started again; the
\* reaper runs; a service call that does not die goes on.
RecFair ==
    /\ \A p \in Pass : WF_recVars(PassStep(p) /\ UNCHANGED spent)
    /\ WF_recVars(SweepLeaks /\ UNCHANGED spent)
    /\ WF_recVars(SweepOrphanEndpoints /\ UNCHANGED spent)
    /\ \A w \in Worker :
         /\ WF_recVars(ExecStep(w) /\ UNCHANGED <<pass, spent>>)
         /\ WF_recVars(WorkerStarts(w) /\ UNCHANGED <<pass, spent>>)
         /\ WF_recVars((\E g \in Gen, a \in Action : Claim(w, g, a)) /\ UNCHANGED <<pass, spent>>)
    /\ WF_recVars((\E g \in Gen, a \in Action : Reap(g, a)) /\ UNCHANGED <<pass, spent>>)
    /\ WF_recVars(CallStep /\ UNCHANGED <<pass, spent>>)

RecLiveSpec == RecSpec /\ RecFair

-----------------------------------------------------------------------------
(* Properties *)

\* The variables keep their types, and what is recorded as running does run.
RecTypeOK ==
    /\ InstTypeOK
    /\ pass \in [Pass -> PassRecord]
    /\ spent \in [calls : Nat, faults : Nat]

\* A live container cannot escape tracking: it is recorded, or its launch is
\* still on the way to the report, or its worker died in between.
TrackedContainer ==
    \A w \in box : \/ w \in tracked \cup lost
                   \/ Mine(w, "launch", "facts")

\* The state of the instance moves along the matrix and its generation one by
\* one, whoever moves it, and an archived instance stays as it is.
ImplementsMatrix == Matrix!MSpec

\* An instance that is queued without a launch job, because its request died
\* between the two transactions, gets one from the reconciler.
LaunchNotLost ==
    (row.state = "queued" /\ row.desired = "active" /\ \A g \in Gen : jobs[g]["launch"] = "none")
        ~> (row.desired # "active" \/ \E g \in Gen : jobs[g]["launch"] # "none")

\* Whatever live state it is in, an instance that is no longer desired is drained
\* unless a container of its generation has been observed.
DrainConverges ==
    (row.desired # "active" /\ row.state \in LiveDrainable)
        ~> (row.state \notin LiveDrainable \/ (obs.gen = row.gen /\ obs.what # "absent"))

\* What a late launch leaves exposed after the archive is swept up.
LeaksSwept ==
    /\ (row.state = "archived" /\ exposed) ~> ~exposed
    /\ (row.state = "archived" /\ live # {}) ~> live = {}

\* "evacuate off a worker that is genuinely adverse": capacity for an instance
\* that has been taken off its worker is not reserved on one that is draining,
\* quarantined or revoked.
NotBackOnAdverse ==
    [][row.worker = NoWorker /\ hold.state # "held" /\ hold'.state = "held"
         => hold'.worker \notin out]_hold
=============================================================================
