--------------------------- MODULE InstanceWorker ---------------------------
(***************************************************************************)
(* The instance handlers of the worker (_do_launch, _do_stop, _do_delete,  *)
(* _do_health) and the ownership gate of WorkerInstanceService in front of *)
(* every report.  The gate reads the assignment in one transaction, and    *)
(* the report is written in another.                                       *)
(***************************************************************************)
EXTENDS Instances

Mine(w, a, pc) == exec[w].act = a /\ exec[w].pc = pc

To(w, pc) == exec' = [exec EXCEPT ![w].pc = pc]

ControlOnly == UNCHANGED <<out, quiet, call>>

\* authenticate and claim: a worker that is draining, quarantined, revoked or
\* without a recent heartbeat gets nothing.  Any worker may get any job.
Claim(w, g, a) ==
    /\ exec[w] = NoExec
    /\ w \notin out \cup quiet
    /\ jobs[g][a] = "queued"
    /\ jobs' = [jobs EXCEPT ![g][a] = "running"]
    /\ exec' = [exec EXCEPT ![w] =
         [NoExec EXCEPT !.act = a, !.gen = g,
             !.pc = CASE a = "delete" -> "remove" [] a = "expire" -> "fail" [] OTHER -> "read"]]
    /\ UNCHANGED <<row, hold, factVars, hostVars>> /\ ControlOnly

\* The queue takes the answer: success, a failure that is retried, or one that
\* spends the last attempt.
Report(w, status) ==
    /\ jobs' = [jobs EXCEPT ![exec[w].gen][exec[w].act] = status]
    /\ exec' = [exec EXCEPT ![w] = NoExec]
    /\ UNCHANGED <<row, hold, factVars, hostVars>> /\ ControlOnly

Complete(w) == exec[w].pc = "complete" /\ Report(w, "succeeded")
Fail(w) == exec[w].pc = "fail" /\ Report(w, "queued")
FailForGood(w) == exec[w].pc = "fail" /\ Report(w, "dead")

\* The worker process ends, in the middle of a handler or beside a container
\* of it (an idle worker without one may as well take its time).
\* Its job waits for the reaper; a container it had not recorded yet is
\* known to nobody until the worker is started again.
Down == [NoExec EXCEPT !.pc = "down"]

Crash(w) ==
    /\ exec[w] # Down /\ (exec[w] # NoExec \/ w \in box)
    /\ exec' = [exec EXCEPT ![w] = Down]
    /\ lost' = IF w \in box \ tracked THEN lost \cup {w} ELSE lost
    /\ UNCHANGED <<rowVars, factVars, box, tracked>> /\ ControlOnly

\* The reaper: the lease is over and no handler runs the job any more.
ReapTo(g, a, status) ==
    /\ jobs[g][a] = "running"
    /\ \A w \in Worker : ~(exec[w].act = a /\ exec[w].gen = g)
    /\ jobs' = [jobs EXCEPT ![g][a] = status]
    /\ UNCHANGED <<row, hold, factVars, hostVars, exec>> /\ ControlOnly

Reap(g, a) == ReapTo(g, a, "queued")
ReapForGood(g, a) == ReapTo(g, a, "dead")

\* backend.remove on this host.
Removed(w) == box' = box \ {w} /\ tracked' = tracked \ {w} /\ lost' = lost \ {w}

-----------------------------------------------------------------------------
(* The gate.  A pc that names a report means that its ownership check has   *)
(* passed and its write is due; the check of the next report belongs to    *)
(* the same step as the write of the one before.                           *)

\* Mutant: the launch handler leaves the container behind.
GiveUpKeepsContainer(w) == To(w, "fail") /\ UNCHANGED hostVars

\* A handler gives up: a launch that has a container removes it.
GiveUp(w) ==
    /\ To(w, "fail")
    /\ IF exec[w].act = "launch" THEN Removed(w) ELSE UNCHANGED hostVars

\* _authorize_owner in front of the next report.
Authorized(w, next) ==
    IF row.worker = w THEN To(w, next) /\ UNCHANGED hostVars ELSE GiveUp(w)

\* record_observation, appended with the generation that was read at the start.
ReportHealth(w, what) == append_observation(exec[w].seen, what)

\* apply_transition to t: nothing to do, a legal move, or an exception.
ApplyTransition(w, t, next) ==
    /\ \/ row.state = t /\ UNCHANGED row /\ next
       \/ row.state # t /\ MayMove(row, t) /\ row' = Moved(row, t) /\ next
       \/ ~MayMove(row, t) /\ UNCHANGED row /\ GiveUp(w)
    /\ UNCHANGED <<hold, jobs, factVars>> /\ ControlOnly

Onward(w, pc) == To(w, pc) /\ UNCHANGED hostVars

-----------------------------------------------------------------------------
(* _do_launch *)

\* The generation of the job is not looked at: the row's counts.
LaunchRead(w) ==
    /\ Mine(w, "launch", "read")
    /\ CASE row.worker = w -> exec' = [exec EXCEPT ![w].pc = "start", ![w].seen = row.gen]
         [] row.worker = NoWorker -> To(w, "reserve")
         [] OTHER -> To(w, "fail")
    /\ UNCHANGED <<rowVars, factVars, hostVars>> /\ ControlOnly

\* replace_instance: reserve, then record the assignment.
LaunchReserve(w) ==
    /\ Mine(w, "launch", "reserve")
    /\ \E h \in Reserved(hold) :
         hold' = h /\ exec' = [exec EXCEPT ![w].pc = "assign", ![w].worker = h.worker]
    /\ UNCHANGED <<row, jobs, factVars, hostVars>> /\ ControlOnly

\* No worker or no quota, no image or a wrong digest, or Docker says no.
LaunchRefused(w) ==
    /\ exec[w].act = "launch" /\ exec[w].pc \in {"reserve", "start"}
    /\ To(w, "fail")
    /\ UNCHANGED <<rowVars, factVars, hostVars>> /\ ControlOnly

LaunchAssign(w) ==
    /\ Mine(w, "launch", "assign")
    /\ IF Writable(row)
       THEN /\ row' = set_assignment(row, exec[w].worker)
            /\ exec' = [exec EXCEPT ![w].pc = IF exec[w].worker = w THEN "start" ELSE "fail",
                                    ![w].seen = row.gen, ![w].worker = NoWorker]
       ELSE UNCHANGED row /\ To(w, "fail")
    /\ UNCHANGED <<hold, jobs, factVars, hostVars>> /\ ControlOnly

\* backend.launch: the name of the container must be free.  A container nobody
\* may report is removed again.
LaunchStart(w) ==
    /\ Mine(w, "launch", "start")
    /\ IF w \notin box /\ row.worker = w
       THEN box' = box \cup {w} /\ To(w, "facts")
       ELSE To(w, "fail") /\ UNCHANGED box
    /\ UNCHANGED <<rowVars, factVars, tracked, lost>> /\ ControlOnly

\* The runtime resources and then the endpoints, which are always read together.
LaunchRecord(w) ==
    /\ Mine(w, "launch", "facts")
    /\ record_runtime_resource(exec[w].seen)
    /\ record_endpoint
    /\ IF row.worker = w
       THEN To(w, "health") /\ tracked' = tracked \cup {w} /\ UNCHANGED <<box, lost>>
       ELSE GiveUp(w)
    /\ UNCHANGED <<rowVars, obs, dropping>> /\ ControlOnly

LaunchReports(w, what, next) ==
    /\ Mine(w, "launch", "health")
    /\ ReportHealth(w, what)
    /\ Authorized(w, next)
    /\ UNCHANGED <<rowVars, live, dropping, exposed>> /\ ControlOnly

\* The phase of the container is running, or it is still coming up.
LaunchHealth(w) == LaunchReports(w, "healthy", "starting")
LaunchSick(w)   == LaunchReports(w, "sick", "starting only")

LaunchStarting(w) ==
    \/ Mine(w, "launch", "starting") /\ ApplyTransition(w, "starting", Authorized(w, "healthy"))
    \/ Mine(w, "launch", "starting only") /\ ApplyTransition(w, "starting", Onward(w, "complete"))

LaunchHealthy(w) ==
    Mine(w, "launch", "healthy") /\ ApplyTransition(w, "healthy", Onward(w, "complete"))

-----------------------------------------------------------------------------
(* _do_stop, _do_delete, _do_health *)

StopRead(w) ==
    /\ Mine(w, "stop", "read")
    /\ exec' = [exec EXCEPT ![w].pc = "remove", ![w].seen = row.gen]
    /\ UNCHANGED <<rowVars, factVars, hostVars>> /\ ControlOnly

\* Stop and delete remove what is on the host of the worker that has the job.
RemoveContainer(w) ==
    /\ exec[w].pc = "remove"
    /\ Removed(w)
    /\ To(w, CASE exec[w].act = "delete" -> "complete"
              [] row.worker = w -> "absent"
              [] OTHER -> "fail")
    /\ UNCHANGED <<rowVars, factVars>> /\ ControlOnly

StopReport(w) ==
    /\ Mine(w, "stop", "absent")
    /\ ReportHealth(w, "absent")
    /\ Authorized(w, "stopping")
    /\ UNCHANGED <<rowVars, live, dropping, exposed>> /\ ControlOnly

StopStopping(w) ==
    Mine(w, "stop", "stopping") /\ ApplyTransition(w, "stopping", Authorized(w, "stopped"))

StopStopped(w) ==
    /\ Mine(w, "stop", "stopped")
    /\ ApplyTransition(w, "stopped",
                       Onward(w, IF row.state = "stopped" THEN "complete" ELSE "release"))

StopRelease(w) ==
    /\ Mine(w, "stop", "release")
    /\ hold' = Released(hold)
    /\ To(w, "complete")
    /\ UNCHANGED <<row, jobs, factVars, hostVars>> /\ ControlOnly

\* A health check by the owner: a container that has stopped by itself is
\* still there.  Nothing here enqueues its job.
DoHealth(w) ==
    /\ row.worker = w /\ Writable(row)
    /\ \E what \in (IF w \in box THEN {"healthy", "sick"} ELSE {"absent"}) :
         append_observation(row.gen, what)
    /\ UNCHANGED <<rowVars, live, dropping, exposed, hostVars, exec>> /\ ControlOnly

\* transition_instance takes any state: what other handlers may report.
OtherTransition(w, t) ==
    /\ row.worker = w /\ MayMove(row, t)
    /\ row' = Moved(row, t)
    /\ UNCHANGED <<hold, jobs, factVars, hostVars, exec>> /\ ControlOnly

-----------------------------------------------------------------------------
(* The environment: workers start again, drain and go quiet *)

\* recover_abandoned: a worker that starts removes what carries its label.
WorkerStarts(w) ==
    /\ exec[w] = Down
    /\ Removed(w)
    /\ exec' = [exec EXCEPT ![w] = NoExec]
    /\ UNCHANGED <<rowVars, factVars, out, quiet, call>>

WorkerOut(w) ==
    /\ out' = out \cup {w} /\ w \notin out
    /\ UNCHANGED <<rowVars, factVars, hostVars, quiet, call, exec>>

WorkerBlinks(w) ==
    /\ quiet' = IF w \in quiet THEN quiet \ {w} ELSE quiet \cup {w}
    /\ UNCHANGED <<rowVars, factVars, hostVars, out, call, exec>>

ExecStep(w) ==
    \/ Complete(w) \/ Fail(w)
    \/ LaunchRead(w) \/ LaunchReserve(w) \/ LaunchAssign(w) \/ LaunchStart(w)
    \/ LaunchRecord(w) \/ LaunchHealth(w)
    \/ LaunchStarting(w) \/ LaunchHealthy(w)
    \/ StopRead(w) \/ RemoveContainer(w) \/ StopReport(w)
    \/ StopStopping(w) \/ StopStopped(w) \/ StopRelease(w)
=============================================================================
