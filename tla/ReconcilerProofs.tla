-------------------------- MODULE ReconcilerProofs --------------------------
(* Theorems about Reconciler: whatever the operator's calls, the workers    *)
(* and the reconciler passes do to an instance, in whatever order, its row  *)
(* moves along the matrix, its generation grows one by one, and a container *)
(* of it is on record; for every number of workers, passes and generations. *)
EXTENDS Reconciler, TLAPS

-----------------------------------------------------------------------------
(* The row. *)

\* What a transaction may do to the state and the generation of the row.
RowStep ==
    /\ row' \in InstanceRow
    /\ \/ row'.state = row.state /\ row'.gen = row.gen
       \/ /\ row.state # "archived" /\ row'.state \in Matrix!LegalNext(row.state)
          /\ row'.gen = row.gen
       \/ Writable(row) /\ row'.state = row.state /\ row'.gen = row.gen + 1

\* The matrix leads to states of the lifecycle.
LEMMA LegalIsState == \A s : Matrix!LegalNext(s) \subseteq Matrix!InstanceState
  BY DEF Matrix!LegalNext, Matrix!InstanceState

LEMMA RowStays ==
    ASSUME row \in InstanceRow, row' = row
    PROVE  RowStep
  BY DEF RowStep

LEMMA RowMoves ==
    ASSUME row \in InstanceRow, NEW t, MayMove(row, t), row' = Moved(row, t)
    PROVE  RowStep
  <1>1. t \in Matrix!InstanceState \cup {"none"}
    BY LegalIsState DEF MayMove, InstanceRow
  <1>2. row' \in InstanceRow /\ row'.state = t /\ row'.gen = row.gen
    BY <1>1 DEF Moved, InstanceRow
  <1>. QED  BY <1>2 DEF RowStep, MayMove, Writable

LEMMA BumpTypes ==
    ASSUME row \in InstanceRow, row.gen < MaxGen
    PROVE  bump_generation(row) \in InstanceRow
  <1>1. row.gen + 1 \in Gen
    BY InstancesAssumption DEF InstanceRow, Gen
  <1>. QED  BY <1>1 DEF bump_generation, InstanceRow

LEMMA RowBumps ==
    ASSUME row \in InstanceRow, Writable(row), row.gen < MaxGen,
           NEW w \in Worker \cup {NoWorker}, row' = bump_generation(set_assignment(row, w))
    PROVE  RowStep
  <1>1. row.gen + 1 \in Gen
    BY InstancesAssumption DEF InstanceRow, Gen
  <1>2. row' \in InstanceRow /\ row'.state = row.state /\ row'.gen = row.gen + 1
    BY <1>1 DEF bump_generation, set_assignment, InstanceRow
  <1>. QED  BY <1>2 DEF RowStep

LEMMA RowIsBumped ==
    ASSUME row \in InstanceRow, Writable(row), row.gen < MaxGen, row' = bump_generation(row)
    PROVE  RowStep
  <1>1. row.gen + 1 \in Gen
    BY InstancesAssumption DEF InstanceRow, Gen
  <1>2. row' \in InstanceRow /\ row'.state = row.state /\ row'.gen = row.gen + 1
    BY <1>1 DEF bump_generation, InstanceRow
  <1>. QED  BY <1>2 DEF RowStep

LEMMA RowIsAssigned ==
    ASSUME row \in InstanceRow, NEW w \in Worker \cup {NoWorker}, row' = set_assignment(row, w)
    PROVE  RowStep
  BY DEF RowStep, InstanceRow, set_assignment

LEMMA RowIsPlaced ==
    ASSUME row \in InstanceRow, NEW w \in Worker \cup {NoWorker}, MayMove(row, "queued"),
           row' = Moved(set_assignment(row, w), "queued")
    PROVE  RowStep
  <1>1. "queued" \in Matrix!InstanceState
    BY DEF Matrix!InstanceState
  <1>2. row' \in InstanceRow /\ row'.state = "queued" /\ row'.gen = row.gen
    BY <1>1 DEF Moved, InstanceRow, set_assignment
  <1>. QED  BY <1>2 DEF RowStep, MayMove, Writable

LEMMA RowIsDesired ==
    ASSUME row \in InstanceRow, NEW d \in {"active", "stopped", "deleted"}, row' = set_desired_state(row, d)
    PROVE  RowStep
  BY DEF RowStep, InstanceRow, set_desired_state

LEMMA RowIsAdded ==
    ASSUME row.state = "none", row.gen = 1, row' = add
    PROVE  RowStep
  <1>1. row' \in InstanceRow /\ row'.state = "requested" /\ row'.gen = 1
    BY InstancesAssumption DEF InstanceRow, add, Moved, NewRow, Gen, Matrix!InstanceState
  <1>2. "requested" \in Matrix!LegalNext("none")
    BY DEF Matrix!LegalNext
  <1>. QED  BY <1>1, <1>2 DEF RowStep

\* A row that is not there yet has the generation it will be created with.
FirstGen == row.state = "none" => row.gen = 1

LEMMA FirstGenStep ==
    ASSUME FirstGen, RowStep
    PROVE  FirstGen'
  <1>1. "none" \notin Matrix!LegalNext(row.state)
    BY LegalIsState DEF Matrix!InstanceState
  <1>. QED  BY <1>1 DEF FirstGen, RowStep, Writable

-----------------------------------------------------------------------------
(* The calls. *)

LEMMA RecordTypes ==
    /\ NewRow \in InstanceRow /\ NoCall \in CallRecord
    /\ NoExec \in ExecRecord /\ Down \in ExecRecord /\ NoPass \in PassRecord
  <1>1. 1 \in Gen
    BY InstancesAssumption DEF Gen
  <1>2. NewRow \in InstanceRow
    BY <1>1 DEF NewRow, InstanceRow
  <1>. QED  BY <1>1, <1>2 DEF NoCall, CallRecord, NoExec, ExecRecord, Down, NoPass, PassRecord, ResourceSet,
                          CallPc, ExecPc, PassPc

LEMMA HoldTypes ==
    ASSUME hold \in Hold
    PROVE  /\ Released(hold) \in Hold
           /\ Reserved(hold) \subseteq Hold
           /\ [hold EXCEPT !.state = "held"] \in Hold
  BY DEF Hold, Released, Reserved

LEMMA JobTypes ==
    ASSUME jobs \in [Gen -> [Action -> JobState]], NEW g, NEW a, NEW s \in JobState
    PROVE  [jobs EXCEPT ![g][a] = s] \in [Gen -> [Action -> JobState]]
  OBVIOUS

LEMMA EnqueuedTypes ==
    ASSUME jobs \in [Gen -> [Action -> JobState]], NEW g, NEW a
    PROVE  Enqueued(g, a) \in [Gen -> [Action -> JobState]]
  BY JobTypes DEF Enqueued, JobState

LEMMA CallTypes ==
    ASSUME InstTypeOK, FirstGen, CallStep \/ RequestRefused \/ OperatorCall
    PROVE  InstTypeOK' /\ RowStep
  <1>. DEFINE Op == {"none", "request", "stop", "reset", "expire"}
  <1>. USE DEF CallPc, Elsewhere, rowVars, factVars, hostVars, Enter, Step, Return
  <1>0. /\ row \in InstanceRow /\ hold \in Hold /\ jobs \in [Gen -> [Action -> JobState]] /\ call \in CallRecord
        /\ row.gen \in Gen /\ call.worker \in Worker \cup {NoWorker} /\ call.gen \in Gen
    BY DEF InstTypeOK, InstanceRow, CallRecord
  <1>s. ASSUME UNCHANGED <<factVars, hostVars, exec>>, RowStep, hold' \in Hold,
               jobs' \in [Gen -> [Action -> JobState]], call' \in CallRecord
        PROVE  InstTypeOK' /\ RowStep
    BY <1>s DEF InstTypeOK, RowStep
  <1>c. /\ \A op \in Op, pc \in CallPc, g \in Gen : [op |-> op, pc |-> pc, gen |-> g, worker |-> NoWorker] \in CallRecord
        /\ \A pc \in CallPc : [call EXCEPT !.pc = pc] \in CallRecord
        /\ \A pc \in CallPc, w \in Worker \cup {NoWorker} : [call EXCEPT !.pc = pc, !.worker = w] \in CallRecord
        /\ \A pc \in CallPc, g \in Gen : [call EXCEPT !.pc = pc, !.gen = g] \in CallRecord
        /\ NoCall \in CallRecord
    BY <1>0, RecordTypes DEF CallRecord
  <1>1. CASE RequestInstance
    <2>1. RowStep
      BY <1>0, <1>1, RowStays, RowIsAdded DEF RequestInstance, FirstGen
    <2>2. call' \in CallRecord /\ UNCHANGED <<hold, jobs, factVars, hostVars, exec>>
      BY <1>0, <1>1, <1>c DEF RequestInstance
    <2>. QED  BY <1>0, <1>s, <2>1, <2>2
  <1>2. CASE RequestReserve
    <2>1. PICK h \in Reserved(hold) : hold' = h /\ call' = [call EXCEPT !.pc = "place", !.worker = h.worker]
      BY <1>2 DEF RequestReserve
    <2>2. h \in Hold /\ h.worker \in Worker \cup {NoWorker}
      BY <1>0, <2>1, HoldTypes DEF Hold
    <2>3. call' \in CallRecord
      BY <1>c, <2>1, <2>2
    <2>. QED  BY <1>0, <1>2, <1>s, <2>1, <2>2, <2>3, RowStays DEF RequestReserve
  <1>3. CASE RequestPlace
    <2>1. RowStep
      BY <1>0, <1>3, RowStays, RowIsPlaced DEF RequestPlace
    <2>2. call' \in CallRecord /\ UNCHANGED <<hold, jobs, factVars, hostVars, exec>>
      BY <1>0, <1>3, <1>c DEF RequestPlace
    <2>. QED  BY <1>0, <1>s, <2>1, <2>2
  <1>4. CASE CallEnqueue
    BY <1>0, <1>4, <1>c, <1>s, RowStays, EnqueuedTypes DEF CallEnqueue
  <1>5. CASE RequestStop
    <2>1. RowStep
      BY <1>0, <1>5, RowIsDesired DEF RequestStop
    <2>. QED  BY <1>0, <1>5, <1>c, <1>s, <2>1 DEF RequestStop
  <1>6. CASE RequestReset
    <2>1. RowStep
      BY <1>0, <1>6, RowIsBumped DEF RequestReset
    <2>2. row.gen + 1 \in Gen
      BY <1>0, <1>6, InstancesAssumption DEF RequestReset, Gen
    <2>. QED  BY <1>0, <1>6, <1>c, <1>s, <2>1, <2>2 DEF RequestReset
  <1>7. CASE ResetRehold
    BY <1>0, <1>7, <1>c, <1>s, RowStays, HoldTypes DEF ResetRehold
  <1>8. CASE RequestDelete
    <2>1. RowStep
      BY <1>0, <1>8, RowIsDesired DEF RequestDelete
    <2>. QED  BY <1>0, <1>8, <1>c, <1>s, <2>1 DEF RequestDelete
  <1>9. CASE Expire
    <2>1. RowStep
      BY <1>0, <1>9, RowMoves DEF Expire
    <2>. QED  BY <1>0, <1>9, <1>c, <1>s, <2>1 DEF Expire
  <1>10. CASE ExpireRelease
    BY <1>0, <1>10, <1>c, <1>s, RowStays, HoldTypes DEF ExpireRelease
  <1>11. CASE RequestRefused \/ CallEnds
    BY <1>0, <1>11, <1>c, <1>s, RowStays DEF RequestRefused, CallEnds
  <1>. QED  BY <1>1, <1>2, <1>3, <1>4, <1>5, <1>6, <1>7, <1>8, <1>9, <1>10, <1>11 DEF CallStep, OperatorCall

-----------------------------------------------------------------------------
(* The workers. *)

\* What a step of worker w may do to the hosts: nothing, unless a container of
\* w has yet to be recorded, or remove the container of w.
HostStep(w) ==
    /\ exec' \in [Worker -> ExecRecord]
    /\ exec'[w].pc # "facts"
    /\ \A u \in Worker \ {w} : exec'[u] = exec[u]
    /\ \/ UNCHANGED hostVars /\ ~Mine(w, "launch", "facts")
       \/ Removed(w)

\* What the invariant says of the hosts: also that a container is there when
\* its facts are due.
HostsOK ==
    /\ tracked \subseteq box /\ box \subseteq Worker
    /\ TrackedContainer
    /\ \A w \in Worker : Mine(w, "launch", "facts") => w \in box

LEMMA HostStepTracks ==
    ASSUME HostsOK, NEW w \in Worker, HostStep(w)
    PROVE  HostsOK'
  <1>1. CASE UNCHANGED hostVars /\ ~Mine(w, "launch", "facts")
    BY <1>1 DEF HostsOK, TrackedContainer, HostStep, hostVars, Mine
  <1>2. CASE Removed(w)
    BY <1>2 DEF HostsOK, TrackedContainer, HostStep, Removed, Mine
  <1>. QED  BY <1>1, <1>2 DEF HostStep

LEMMA HostsSame ==
    ASSUME HostsOK, UNCHANGED <<hostVars, exec>>
    PROVE  HostsOK'
  BY DEF HostsOK, TrackedContainer, hostVars, Mine

\* The handler of w goes on at pc.
LEMMA ToTypes ==
    ASSUME exec \in [Worker -> ExecRecord], NEW w \in Worker, NEW pc \in ExecPc, To(w, pc)
    PROVE  /\ exec' \in [Worker -> ExecRecord]
           /\ exec'[w].pc = pc /\ exec'[w].act = exec[w].act
           /\ \A u \in Worker \ {w} : exec'[u] = exec[u]
  BY DEF To, ExecRecord

LEMMA ToHost ==
    ASSUME exec \in [Worker -> ExecRecord], NEW w \in Worker, NEW pc \in ExecPc, pc # "facts",
           Onward(w, pc), ~Mine(w, "launch", "facts")
    PROVE  HostStep(w)
  BY ToTypes DEF HostStep, Onward

LEMMA GiveUpHost ==
    ASSUME exec \in [Worker -> ExecRecord], NEW w \in Worker, GiveUp(w)
    PROVE  HostStep(w)
  <1>1. /\ exec' \in [Worker -> ExecRecord] /\ exec'[w].pc # "facts"
        /\ \A u \in Worker \ {w} : exec'[u] = exec[u]
    BY ToTypes DEF GiveUp, ExecPc
  <1>2. CASE exec[w].act = "launch"
    BY <1>1, <1>2 DEF GiveUp, HostStep
  <1>3. CASE exec[w].act # "launch"
    BY <1>1, <1>3 DEF GiveUp, HostStep, Mine
  <1>. QED  BY <1>2, <1>3

LEMMA AuthorizedHost ==
    ASSUME exec \in [Worker -> ExecRecord], NEW w \in Worker, NEW pc \in ExecPc, pc # "facts",
           Authorized(w, pc), ~Mine(w, "launch", "facts")
    PROVE  HostStep(w)
  BY ToHost, GiveUpHost DEF Authorized, Onward

\* The handler of w is another one.
LEMMA ExecTypes ==
    ASSUME exec \in [Worker -> ExecRecord], NEW w \in Worker, NEW e \in ExecRecord,
           exec' = [exec EXCEPT ![w] = e]
    PROVE  /\ exec' \in [Worker -> ExecRecord]
           /\ exec'[w] = e /\ \A u \in Worker \ {w} : exec'[u] = exec[u]
  OBVIOUS

\* What else the invariant says of the variables the workers write.
LEMMA WorkTypes ==
    ASSUME InstTypeOK, HostsOK, NEW w \in Worker, RowStep, hold' \in Hold,
           jobs' \in [Gen -> [Action -> JobState]], obs' \in Observation,
           {live', dropping'} \subseteq ResourceSet, exposed' \in BOOLEAN,
           HostsOK', exec' \in [Worker -> ExecRecord], UNCHANGED call
    PROVE  InstTypeOK'
  BY DEF InstTypeOK, RowStep, HostsOK

\* apply_transition, with another report to follow or none.
LEMMA TransitionStep ==
    ASSUME InstTypeOK, NEW w \in Worker, NEW t, NEW pc \in ExecPc, pc # "facts", ~Mine(w, "launch", "facts"),
           \/ ApplyTransition(w, t, Authorized(w, pc))
           \/ ApplyTransition(w, t, Onward(w, pc))
    PROVE  RowStep /\ HostStep(w) /\ UNCHANGED <<hold, jobs, factVars, call>>
  <1>1. row \in InstanceRow /\ exec \in [Worker -> ExecRecord]
    BY DEF InstTypeOK
  <1>2. RowStep
    BY <1>1, RowStays, RowMoves DEF ApplyTransition
  <1>3. HostStep(w)
    BY <1>1, GiveUpHost, AuthorizedHost, ToHost DEF ApplyTransition
  <1>. QED  BY <1>2, <1>3 DEF ApplyTransition, ControlOnly

LEMMA ExecStepInv ==
    ASSUME InstTypeOK, HostsOK, NEW w \in Worker, ExecStep(w) \/ LaunchSick(w)
    PROVE  InstTypeOK' /\ RowStep /\ HostsOK'
  <1>. USE DEF ControlOnly
  <1>0. /\ row \in InstanceRow /\ hold \in Hold /\ jobs \in [Gen -> [Action -> JobState]]
        /\ obs \in Observation /\ {live, dropping} \subseteq ResourceSet /\ exposed \in BOOLEAN
        /\ exec \in [Worker -> ExecRecord] /\ row.gen \in Gen
        /\ exec[w] \in ExecRecord /\ exec[w].seen \in Gen /\ exec[w].worker \in Worker \cup {NoWorker}
    BY DEF InstTypeOK, InstanceRow, ExecRecord
  <1>p. {"fail", "complete", "reserve", "start", "assign", "health", "starting", "starting only", "healthy",
         "remove", "absent", "stopping", "stopped", "release", "facts"} \subseteq ExecPc
    BY DEF ExecPc
  <1>h. \A g \in Gen, what \in {"absent", "sick", "healthy"} : [gen |-> g, what |-> what] \in Observation
    BY DEF Observation
  \* Where neither the facts nor the queue are written.
  <1>s. ASSUME RowStep, HostStep(w), hold' \in Hold, UNCHANGED <<jobs, factVars, call>>
        PROVE  InstTypeOK' /\ RowStep /\ HostsOK'
    <2>1. HostsOK'
      BY <1>s, HostStepTracks
    <2>. QED  BY <1>0, <1>s, <2>1, WorkTypes DEF HostStep, factVars
  <1>1. CASE Complete(w) \/ Fail(w)
    <2>1. PICK st \in JobState : Report(w, st)
      BY <1>1 DEF Complete, Fail, JobState
    <2>2. HostStep(w)
      <3>1. ~Mine(w, "launch", "facts") /\ exec' = [exec EXCEPT ![w] = NoExec] /\ UNCHANGED hostVars
        BY <1>1, <2>1 DEF Complete, Fail, Mine, Report
      <3>. QED  BY <1>0, <3>1, ExecTypes, RecordTypes DEF HostStep, NoExec
    <2>3. jobs' \in [Gen -> [Action -> JobState]]
      BY <1>0, <2>1, JobTypes DEF Report
    <2>4. HostsOK' /\ RowStep /\ UNCHANGED <<hold, factVars, call>>
      BY <1>0, <2>1, <2>2, HostStepTracks, RowStays DEF Report
    <2>. QED  BY <1>0, <2>2, <2>3, <2>4, WorkTypes DEF HostStep, factVars
  <1>2. CASE LaunchRead(w)
    <2>1. ~Mine(w, "launch", "facts") /\ UNCHANGED <<rowVars, factVars, hostVars, call>>
      BY <1>2 DEF LaunchRead, Mine
    <2>2. HostStep(w)
      <3>1. CASE row.worker = w
        <4>1. exec' = [exec EXCEPT ![w].pc = "start", ![w].seen = row.gen]
          BY <1>2, <3>1, InstancesAssumption DEF LaunchRead
        <4>2. exec' \in [Worker -> ExecRecord] /\ exec'[w].pc # "facts" /\ \A u \in Worker \ {w} : exec'[u] = exec[u]
          BY <1>0, <1>p, <4>1 DEF ExecRecord
        <4>. QED  BY <2>1, <4>2 DEF HostStep
      <3>2. CASE row.worker # w
        <4>1. To(w, "reserve") \/ To(w, "fail")
          BY <1>2, <3>2 DEF LaunchRead
        <4>. QED  BY <1>0, <1>p, <2>1, <4>1, ToHost DEF Onward
      <3>. QED  BY <3>1, <3>2
    <2>. QED  BY <1>0, <1>s, <2>1, <2>2, RowStays DEF rowVars
  <1>3. CASE LaunchReserve(w)
    <2>1. PICK h \in Reserved(hold) :
             hold' = h /\ exec' = [exec EXCEPT ![w].pc = "assign", ![w].worker = h.worker]
      BY <1>3 DEF LaunchReserve
    <2>2. h \in Hold /\ h.worker \in Worker \cup {NoWorker}
      BY <1>0, <2>1, HoldTypes DEF Hold
    <2>3. /\ exec' \in [Worker -> ExecRecord] /\ exec'[w].pc # "facts"
          /\ \A u \in Worker \ {w} : exec'[u] = exec[u]
      BY <1>0, <1>p, <2>1, <2>2 DEF ExecRecord
    <2>4. HostStep(w)
      BY <1>3, <2>3 DEF HostStep, LaunchReserve, Mine
    <2>. QED  BY <1>0, <1>3, <1>s, <2>1, <2>2, <2>4, RowStays DEF LaunchReserve
  <1>4. CASE LaunchAssign(w)
    <2>1. ~Mine(w, "launch", "facts") /\ UNCHANGED <<hold, jobs, factVars, hostVars, call>>
      BY <1>4 DEF LaunchAssign, Mine
    <2>2. CASE Writable(row)
      <3>1. RowStep
        BY <1>0, <1>4, <2>2, RowIsAssigned DEF LaunchAssign
      <3>2. PICK pc \in ExecPc \ {"facts"} :
               exec' = [exec EXCEPT ![w].pc = pc, ![w].seen = row.gen, ![w].worker = NoWorker]
        BY <1>4, <1>p, <2>2 DEF LaunchAssign
      <3>3. /\ exec' \in [Worker -> ExecRecord] /\ exec'[w].pc # "facts"
            /\ \A u \in Worker \ {w} : exec'[u] = exec[u]
        BY <1>0, <3>2 DEF ExecRecord
      <3>4. HostStep(w)
        BY <2>1, <3>3 DEF HostStep
      <3>. QED  BY <1>0, <1>s, <2>1, <3>1, <3>4
    <2>3. CASE ~Writable(row)
      <3>1. UNCHANGED row /\ To(w, "fail")
        BY <1>4, <2>3 DEF LaunchAssign
      <3>2. HostStep(w)
        BY <1>0, <1>p, <2>1, <3>1, ToHost DEF Onward
      <3>. QED  BY <1>0, <1>s, <2>1, <3>1, <3>2, RowStays
    <2>. QED  BY <2>2, <2>3
  <1>5. CASE LaunchStart(w)
    <2>1. UNCHANGED <<rowVars, factVars, tracked, lost, call>> /\ ~Mine(w, "launch", "facts")
      BY <1>5 DEF LaunchStart, Mine
    <2>2. CASE w \notin box /\ row.worker = w
      <3>1. box' = box \cup {w} /\ To(w, "facts")
        BY <1>5, <2>2 DEF LaunchStart
      <3>2. /\ exec' \in [Worker -> ExecRecord] /\ exec'[w].pc = "facts" /\ exec'[w].act = "launch"
            /\ \A u \in Worker \ {w} : exec'[u] = exec[u]
        BY <1>0, <1>5, <1>p, <3>1, ToTypes DEF LaunchStart, Mine
      <3>3. HostsOK'
        BY <2>1, <3>1, <3>2 DEF HostsOK, TrackedContainer, Mine
      <3>. QED  BY <1>0, <2>1, <3>2, <3>3, RowStays, WorkTypes DEF factVars, rowVars
    <2>3. CASE ~(w \notin box /\ row.worker = w)
      <3>1. Onward(w, "fail")
        BY <1>5, <2>1, <2>3 DEF LaunchStart, Onward, hostVars
      <3>2. HostStep(w)
        BY <1>0, <1>p, <2>1, <3>1, ToHost
      <3>. QED  BY <1>0, <1>s, <2>1, <3>2, RowStays DEF rowVars
    <2>. QED  BY <2>2, <2>3
  <1>6. CASE LaunchRecord(w)
    <2>1. /\ UNCHANGED <<rowVars, obs, dropping, call>> /\ exposed' = TRUE
          /\ live' = live \cup {exec[w].seen}
      BY <1>6 DEF LaunchRecord, record_endpoint, record_runtime_resource
    <2>2. live' \in ResourceSet
      BY <1>0, <2>1 DEF ResourceSet
    <2>3. exec' \in [Worker -> ExecRecord] /\ HostsOK'
      <3>1. CASE row.worker = w
        <4>1. To(w, "health") /\ tracked' = tracked \cup {w} /\ UNCHANGED <<box, lost>>
          BY <1>6, <3>1 DEF LaunchRecord
        <4>2. /\ exec' \in [Worker -> ExecRecord] /\ exec'[w].pc # "facts"
              /\ \A u \in Worker \ {w} : exec'[u] = exec[u]
          BY <1>0, <1>p, <4>1, ToTypes
        <4>3. w \in box
          BY <1>6 DEF LaunchRecord, HostsOK
        <4>. QED  BY <4>1, <4>2, <4>3 DEF HostsOK, TrackedContainer, Mine
      <3>2. CASE row.worker # w
        BY <1>0, <1>6, <3>2, GiveUpHost, HostStepTracks DEF LaunchRecord, HostStep
      <3>. QED  BY <3>1, <3>2
    <2>. QED  BY <1>0, <2>1, <2>2, <2>3, RowStays, WorkTypes DEF rowVars
  <1>7. CASE LaunchHealth(w) \/ LaunchSick(w) \/ StopReport(w)
    <2>1. /\ ~Mine(w, "launch", "facts") /\ UNCHANGED <<rowVars, live, dropping, exposed, call>>
          /\ \/ ReportHealth(w, "healthy") \/ ReportHealth(w, "sick") \/ ReportHealth(w, "absent")
          /\ Authorized(w, "starting") \/ Authorized(w, "starting only") \/ Authorized(w, "stopping")
      BY <1>7 DEF LaunchHealth, LaunchSick, StopReport, LaunchReports, Mine
    <2>2. HostStep(w)
      BY <1>0, <1>p, <2>1, AuthorizedHost
    <2>3. obs' \in Observation
      BY <1>0, <1>h, <2>1 DEF ReportHealth, append_observation
    <2>4. HostsOK'
      BY <2>2, HostStepTracks
    <2>. QED  BY <1>0, <2>1, <2>2, <2>3, <2>4, RowStays, WorkTypes DEF rowVars, HostStep
  <1>8. CASE LaunchStarting(w) \/ LaunchHealthy(w) \/ StopStopping(w)
    <2>1. ~Mine(w, "launch", "facts")
      BY <1>8 DEF LaunchStarting, LaunchHealthy, StopStopping, Mine
    <2>2. RowStep /\ HostStep(w) /\ UNCHANGED <<hold, jobs, factVars, call>>
      BY <1>8, <1>p, <2>1, TransitionStep DEF LaunchStarting, LaunchHealthy, StopStopping
    <2>. QED  BY <1>0, <1>s, <2>2
  <1>9. CASE StopStopped(w)
    <2>1. ~Mine(w, "launch", "facts")
      BY <1>9 DEF StopStopped, Mine
    <2>2. PICK pc \in ExecPc \ {"facts"} : ApplyTransition(w, "stopped", Onward(w, pc))
      BY <1>9, <1>p DEF StopStopped
    <2>3. RowStep /\ HostStep(w) /\ UNCHANGED <<hold, jobs, factVars, call>>
      BY <2>1, <2>2, TransitionStep
    <2>. QED  BY <1>0, <1>s, <2>3
  <1>10. CASE StopRead(w)
    <2>1. ~Mine(w, "launch", "facts") /\ UNCHANGED <<rowVars, factVars, hostVars, call>>
      BY <1>10 DEF StopRead, Mine
    <2>2. /\ exec' \in [Worker -> ExecRecord] /\ exec'[w].pc # "facts"
          /\ \A u \in Worker \ {w} : exec'[u] = exec[u]
      BY <1>0, <1>10, <1>p DEF ExecRecord, StopRead
    <2>3. HostStep(w)
      BY <2>1, <2>2 DEF HostStep
    <2>. QED  BY <1>0, <1>s, <2>1, <2>3, RowStays DEF rowVars
  <1>11. CASE RemoveContainer(w)
    <2>1. Removed(w) /\ UNCHANGED <<rowVars, factVars, call>>
      BY <1>11 DEF RemoveContainer
    <2>2. PICK pc \in ExecPc \ {"facts"} : To(w, pc)
      BY <1>11, <1>p DEF RemoveContainer
    <2>3. HostStep(w)
      BY <1>0, <2>1, <2>2, ToTypes DEF HostStep
    <2>. QED  BY <1>0, <1>s, <2>1, <2>3, RowStays DEF rowVars
  <1>12. CASE StopRelease(w)
    <2>1. Onward(w, "complete") /\ ~Mine(w, "launch", "facts")
      BY <1>12 DEF StopRelease, Mine, Onward
    <2>2. HostStep(w)
      BY <1>0, <1>p, <2>1, ToHost
    <2>. QED  BY <1>0, <1>12, <1>s, <2>2, HoldTypes, RowStays DEF StopRelease
  <1>. QED  BY <1>1, <1>2, <1>3, <1>4, <1>5, <1>6, <1>7, <1>8, <1>9, <1>10, <1>11, <1>12 DEF ExecStep

\* What else happens to the workers and their jobs.
LEMMA WorkerInv ==
    ASSUME InstTypeOK, HostsOK, NEW w \in Worker,
           \/ WorkerStarts(w) \/ Crash(w) \/ LaunchRefused(w) \/ DoHealth(w) \/ FailForGood(w)
           \/ WorkerOut(w) \/ WorkerBlinks(w)
           \/ \E t \in OtherReports : OtherTransition(w, t)
           \/ \E g \in Gen, a \in Action : Claim(w, g, a)
    PROVE  InstTypeOK' /\ RowStep /\ HostsOK'
  <1>. USE DEF ControlOnly
  <1>0. /\ row \in InstanceRow /\ hold \in Hold /\ jobs \in [Gen -> [Action -> JobState]]
        /\ obs \in Observation /\ {live, dropping} \subseteq ResourceSet /\ exposed \in BOOLEAN
        /\ exec \in [Worker -> ExecRecord] /\ row.gen \in Gen
    BY DEF InstTypeOK, InstanceRow
  <1>1. CASE WorkerStarts(w)
    <2>1. HostStep(w)
      BY <1>0, <1>1, ExecTypes, RecordTypes DEF WorkerStarts, HostStep, NoExec
    <2>2. HostsOK' /\ UNCHANGED <<rowVars, factVars, call>>
      BY <1>1, <2>1, HostStepTracks DEF WorkerStarts
    <2>. QED  BY <1>0, <2>1, <2>2, RowStays, WorkTypes DEF HostStep, factVars, rowVars
  <1>2. CASE Crash(w)
    <2>1. exec' \in [Worker -> ExecRecord] /\ exec'[w] = Down /\ \A u \in Worker \ {w} : exec'[u] = exec[u]
      BY <1>0, <1>2, ExecTypes, RecordTypes DEF Crash
    <2>2. UNCHANGED <<rowVars, factVars, call, box, tracked>>
      BY <1>2 DEF Crash
    <2>3. lost \subseteq lost' /\ (w \in box => w \in tracked' \cup lost')
      BY <1>2, <2>2 DEF Crash
    <2>4. Down.pc # "facts"
      BY DEF Down, NoExec
    <2>5. HostsOK'
      BY <2>1, <2>2, <2>3, <2>4 DEF HostsOK, TrackedContainer, Mine
    <2>. QED  BY <1>0, <2>1, <2>2, <2>5, RowStays, WorkTypes DEF factVars, rowVars
  <1>3. CASE LaunchRefused(w)
    <2>1. /\ Onward(w, "fail") /\ ~Mine(w, "launch", "facts") /\ "fail" \in ExecPc
          /\ UNCHANGED <<rowVars, factVars, call>>
      BY <1>3 DEF LaunchRefused, Onward, Mine, ExecPc
    <2>2. HostStep(w)
      BY <1>0, <2>1, ToHost
    <2>3. HostsOK'
      BY <2>2, HostStepTracks
    <2>. QED  BY <1>0, <2>1, <2>2, <2>3, RowStays, WorkTypes DEF HostStep, factVars, rowVars
  <1>4. CASE DoHealth(w)
    <2>1. obs' \in Observation
      BY <1>0, <1>4 DEF DoHealth, append_observation, Observation
    <2>2. UNCHANGED <<rowVars, live, dropping, exposed, hostVars, exec, call>>
      BY <1>4 DEF DoHealth
    <2>. QED  BY <1>0, <2>1, <2>2, HostsSame, RowStays, WorkTypes DEF rowVars
  <1>5. CASE FailForGood(w)
    <2>1. ~Mine(w, "launch", "facts") /\ Report(w, "dead")
      BY <1>5 DEF FailForGood, Mine
    <2>2. HostStep(w)
      BY <1>0, <2>1, ExecTypes, RecordTypes DEF HostStep, NoExec, Report
    <2>3. jobs' \in [Gen -> [Action -> JobState]] /\ HostsOK' /\ UNCHANGED <<row, hold, factVars, call>>
      BY <1>0, <2>1, <2>2, JobTypes, HostStepTracks DEF Report, JobState
    <2>. QED  BY <1>0, <2>2, <2>3, RowStays, WorkTypes DEF HostStep, factVars
  <1>6. CASE WorkerOut(w) \/ WorkerBlinks(w)
    <2>1. UNCHANGED <<rowVars, factVars, hostVars, call, exec>>
      BY <1>6 DEF WorkerOut, WorkerBlinks
    <2>. QED  BY <1>0, <2>1, HostsSame, RowStays, WorkTypes DEF factVars, rowVars
  <1>7. ASSUME NEW t \in OtherReports, OtherTransition(w, t)
        PROVE  InstTypeOK' /\ RowStep /\ HostsOK'
    <2>1. RowStep /\ UNCHANGED <<hold, jobs, factVars, hostVars, exec, call>>
      BY <1>0, <1>7, RowMoves DEF OtherTransition
    <2>. QED  BY <1>0, <2>1, HostsSame, WorkTypes DEF factVars
  <1>8. ASSUME NEW g \in Gen, NEW a \in Action, Claim(w, g, a)
        PROVE  InstTypeOK' /\ RowStep /\ HostsOK'
    <2>. DEFINE pc == CASE a = "delete" -> "remove" [] a = "expire" -> "fail" [] OTHER -> "read"
                e == [NoExec EXCEPT !.act = a, !.gen = g, !.pc = pc]
    <2>1. pc \in ExecPc /\ pc # "facts"
      BY DEF ExecPc
    <2>. HIDE DEF pc
    <2>2. e \in ExecRecord /\ e.pc # "facts"
      <3>1. 1 \in Gen
        BY InstancesAssumption DEF Gen
      <3>2. e \in ExecRecord
        BY <2>1, <3>1 DEF ExecRecord, NoExec
      <3>3. e.pc = pc
        BY DEF NoExec
      <3>. QED  BY <2>1, <3>2, <3>3
    <2>3. /\ exec' = [exec EXCEPT ![w] = e] /\ UNCHANGED <<row, hold, factVars, hostVars, call>>
          /\ exec[w] = NoExec
      BY <1>8, Zenon DEF Claim, pc
    <2>j. jobs' \in [Gen -> [Action -> JobState]]
      BY <1>0, <1>8, JobTypes DEF Claim, JobState
    <2>. HIDE DEF e
    <2>4. HostStep(w)
      BY <1>0, <2>2, <2>3, ExecTypes DEF HostStep, Mine, NoExec
    <2>5. HostsOK'
      BY <2>4, HostStepTracks
    <2>. QED  BY <1>0, <2>3, <2>j, <2>4, <2>5, RowStays, WorkTypes DEF HostStep, factVars
  <1>. QED  BY <1>1, <1>2, <1>3, <1>4, <1>5, <1>6, <1>7, <1>8

\* Nobody in particular: the reaper and the sweep of expired holds.
LEMMA SweepInv ==
    ASSUME InstTypeOK, HostsOK,
           SweepHold \/ \E g \in Gen, a \in Action : Reap(g, a) \/ ReapForGood(g, a)
    PROVE  InstTypeOK' /\ RowStep /\ HostsOK'
  <1>1. UNCHANGED <<row, factVars, hostVars, call, exec>>
    BY DEF SweepHold, Elsewhere, Reap, ReapForGood, ReapTo, ControlOnly
  <1>2. hold' \in Hold
    BY HoldTypes DEF SweepHold, Elsewhere, Reap, ReapForGood, ReapTo, InstTypeOK
  <1>3. jobs' \in [Gen -> [Action -> JobState]]
    <2>1. CASE SweepHold
      BY <2>1 DEF SweepHold, InstTypeOK
    <2>2. ASSUME NEW g \in Gen, NEW a \in Action, Reap(g, a) \/ ReapForGood(g, a)
          PROVE  jobs' \in [Gen -> [Action -> JobState]]
      <3>1. PICK st \in {"queued", "dead"} : jobs' = [jobs EXCEPT ![g][a] = st]
        BY <2>2 DEF Reap, ReapForGood, ReapTo
      <3>. QED  BY <3>1, JobTypes DEF InstTypeOK, JobState
    <2>. QED  BY <2>1, <2>2
  <1>4. RowStep /\ HostsOK'
    BY <1>1, RowStays, HostsSame DEF InstTypeOK
  <1>. QED  BY <1>1, <1>2, <1>3, <1>4 DEF InstTypeOK, factVars, hostVars

-----------------------------------------------------------------------------
(* The passes. *)

PassOK == pass \in [Pass -> PassRecord]

LEMMA PassParts ==
    ASSUME PassOK, NEW p \in Pass
    PROVE  /\ pass[p].after \in PassPc /\ pass[p].marks \in ResourceSet
           /\ pass[p].seen \in {"absent", "sick", "healthy"}
           /\ Copy(p) \in InstanceRow
  BY DEF PassOK, PassRecord, Copy

LEMMA RecalledTypes ==
    ASSUME NEW r \in InstanceRow, NEW pc
    PROVE  Recalled(r, pc) \in InstanceRow
  <1>1. NewRow \in InstanceRow
    BY RecordTypes
  <1>. QED  BY <1>1 DEF Recalled, InstanceRow

LEMMA GoWithTypes ==
    ASSUME PassOK, NEW p \in Pass, NEW pc \in PassPc, NEW r \in InstanceRow, GoWith(p, pc, r)
    PROVE  PassOK'
  <1>1. CASE pc = "end"
    BY <1>1, RecordTypes DEF GoWith, PassOK
  <1>2. CASE pc # "end"
    <2>. DEFINE marks == IF pc \in {"delete exposed", "mark"} THEN pass[p].marks ELSE {}
                seen == IF pc \in {"worker", "stale", "delete stale", "drain", "clean"}
                        THEN pass[p].seen ELSE "absent"
                q == [pc |-> pc, after |-> "end", row |-> Recalled(r, pc), marks |-> marks, seen |-> seen]
    <2>1. pass' = [pass EXCEPT ![p] = q]
      BY <1>2 DEF GoWith, PassOK
    <2>2. marks \in ResourceSet /\ seen \in {"absent", "sick", "healthy"}
      BY PassParts DEF ResourceSet
    <2>3. "end" \in PassPc /\ Recalled(r, pc) \in InstanceRow
      BY RecalledTypes DEF PassPc
    <2>. HIDE DEF marks, seen
    <2>4. q \in PassRecord
      BY <2>2, <2>3 DEF PassRecord
    <2>. QED  BY <2>1, <2>4 DEF PassOK
  <1>. QED  BY <1>1, <1>2

LEMMA GoTypes ==
    ASSUME PassOK, NEW p \in Pass, NEW pc \in PassPc, Go(p, pc)
    PROVE  PassOK'
  BY GoWithTypes, PassParts DEF Go

LEMMA DoneTypes ==
    ASSUME PassOK, NEW p \in Pass, Done(p)
    PROVE  PassOK'
  BY GoTypes DEF Done, PassPc

LEMMA ReleaseThenTypes ==
    ASSUME PassOK, NEW p \in Pass, NEW pc \in PassPc, NEW r \in InstanceRow, ReleaseThen(p, pc, r)
    PROVE  PassOK'
  <1>1. [pc |-> "release", after |-> pc, row |-> Recalled(r, pc), seen |-> "absent", marks |-> {}] \in PassRecord
    BY RecalledTypes DEF PassRecord, PassPc, ResourceSet
  <1>. QED  BY <1>1 DEF ReleaseThen, PassOK

LEMMA GoMarkingTypes ==
    ASSUME PassOK, NEW p \in Pass, NEW pc \in PassPc, NEW after \in PassPc, NEW marks \in ResourceSet,
           GoMarking(p, pc, after, marks)
    PROVE  PassOK'
  <1>. DEFINE c == Recalled(Copy(p), pc)
  <1>1. c \in InstanceRow
    BY RecalledTypes, PassParts
  <1>2. pass' = [pass EXCEPT ![p].pc = pc, ![p].after = after, ![p].marks = marks, ![p].row = c]
    BY DEF GoMarking
  <1>. HIDE DEF c
  <1>3. [pass[p] EXCEPT !.pc = pc, !.after = after, !.marks = marks, !.row = c] \in PassRecord
    BY <1>1 DEF PassOK, PassRecord
  <1>4. pass' = [pass EXCEPT ![p] = [pass[p] EXCEPT !.pc = pc, !.after = after, !.marks = marks, !.row = c]]
    BY <1>2 DEF PassOK
  <1>. QED  BY <1>3, <1>4 DEF PassOK

\* What the steps of a pass leave alone, and what they keep.
LEMMA PassStepTypes ==
    ASSUME InstTypeOK, HostsOK, WorldOnly, RowStep, hold' \in Hold,
           jobs' \in [Gen -> [Action -> JobState]], UNCHANGED obs,
           {live', dropping'} \subseteq ResourceSet, exposed' \in BOOLEAN
    PROVE  InstTypeOK' /\ HostsOK'
  <1>1. HostsOK'
    BY HostsSame DEF WorldOnly
  <1>. QED  BY <1>1 DEF WorldOnly, InstTypeOK, HostsOK, RowStep

LEMMA DriveStep ==
    ASSUME InstTypeOK, HostsOK, PassOK, NEW p \in Pass, NEW t, NEW next \in PassPc, Drive(p, t, next)
    PROVE  InstTypeOK' /\ RowStep /\ HostsOK' /\ PassOK'
  <1>0. row \in InstanceRow
    BY DEF InstTypeOK
  <1>1. RowStep
    BY <1>0, RowStays, RowMoves DEF Drive
  <1>2. PassOK'
    <2>1. CASE MayMove(row, t)
      <3>1. row' = Moved(row, t) /\ row' \in InstanceRow
        BY <1>1, <2>1 DEF Drive, RowStep
      <3>. QED  BY <2>1, <3>1, GoWithTypes, ReleaseThenTypes DEF Drive
    <2>2. CASE ~MayMove(row, t)
      BY <2>2, DoneTypes DEF Drive
    <2>. QED  BY <2>1, <2>2
  <1>. QED  BY <1>1, <1>2, PassStepTypes DEF Drive, InstTypeOK, factVars

\* A corrective job is enqueued and the pass goes on or ends.
LEMMA CorrectStep ==
    ASSUME InstTypeOK, HostsOK, PassOK, NEW p \in Pass, NEW a, NEW pc \in PassPc,
           Correct(p, a, Go(p, pc)) \/ Correct(p, a, Done(p))
    PROVE  InstTypeOK' /\ RowStep /\ HostsOK' /\ PassOK'
  <1>1. /\ jobs' = Enqueued(Copy(p).gen, a) /\ UNCHANGED <<row, hold, factVars>> /\ WorldOnly
        /\ Go(p, pc) \/ Done(p)
    BY DEF Correct
  <1>2. PassOK'
    BY <1>1, GoTypes, DoneTypes
  <1>3. jobs' \in [Gen -> [Action -> JobState]] /\ RowStep
    BY <1>1, EnqueuedTypes, RowStays DEF InstTypeOK
  <1>. QED  BY <1>1, <1>2, <1>3, PassStepTypes DEF InstTypeOK, factVars

\* A pass that only reads.
LEMMA ReadStep ==
    ASSUME InstTypeOK, HostsOK, UNCHANGED instVars
    PROVE  InstTypeOK' /\ RowStep /\ HostsOK'
  <1>1. RowStep /\ HostsOK'
    BY RowStays, HostsSame DEF InstTypeOK, instVars, rowVars
  <1>. QED  BY <1>1 DEF InstTypeOK, instVars, rowVars, factVars, hostVars

LEMMA PassInv ==
    ASSUME InstTypeOK, HostsOK, PassOK, NEW p \in Pass, PassStep(p)
    PROVE  InstTypeOK' /\ RowStep /\ HostsOK' /\ PassOK'
  <1>. USE PassParts DEF PassPc
  <1>0. row \in InstanceRow
    BY DEF InstTypeOK
  <1>1. CASE Begin(p)
    <2>1. [NoPass EXCEPT !.pc = "observe", !.row = row] \in PassRecord
      BY <1>0 DEF NoPass, PassRecord, ResourceSet
    <2>2. PassOK'
      BY <1>1, <2>1 DEF Begin, PassOK
    <2>. QED  BY <1>1, <2>2, ReadStep DEF Begin
  <1>2. CASE Observe(p)
    <2>1. PICK pc \in {"worker", "drain", "clean"} :
             pass' = [pass EXCEPT ![p] = [pc |-> pc, after |-> "end", seen |-> Effective(Copy(p)),
                                          marks |-> {}, row |-> Recalled(Copy(p), pc)]]
      <3>. DEFINE next == CASE Copy(p).desired = "active"  -> "worker"
                            [] Copy(p).desired = "stopped" -> "drain"
                            [] OTHER                       -> "clean"
      <3>1. next \in {"worker", "drain", "clean"}
        OBVIOUS
      <3>2. pass' = [pass EXCEPT ![p] = [pc |-> next, after |-> "end", seen |-> Effective(Copy(p)),
                                         marks |-> {}, row |-> Recalled(Copy(p), next)]]
        BY <1>2, Zenon DEF Observe
      <3>. HIDE DEF next
      <3>. QED  BY <3>1, <3>2
    <2>2. Effective(Copy(p)) \in {"absent", "sick", "healthy"}
      BY DEF Effective, InstTypeOK, Observation
    <2>3. Recalled(Copy(p), pc) \in InstanceRow
      BY RecalledTypes
    <2>4. PassOK'
      BY <2>1, <2>2, <2>3 DEF PassOK, PassRecord, ResourceSet
    <2>. QED  BY <1>2, <2>4, ReadStep DEF Observe
  <1>3. CASE ReleaseHold(p)
    <2>1. PassOK' /\ RowStep
      BY <1>0, <1>3, GoTypes, RowStays DEF ReleaseHold
    <2>. QED  BY <1>3, <2>1, HoldTypes, PassStepTypes DEF ReleaseHold, InstTypeOK, factVars
  <1>4. CASE Evacuate(p)
    <2>1. CASE FenceWorker(p) /\ row.gen < MaxGen
      <3>1. row' = bump_generation(set_assignment(row, NoWorker)) /\ ReleaseThen(p, "relaunch", bump_generation(row))
        BY <1>4, <2>1 DEF Evacuate
      <3>2. RowStep
        BY <1>0, <2>1, <3>1, RowBumps DEF FenceWorker
      <3>3. bump_generation(row) \in InstanceRow
        BY <1>0, <2>1, BumpTypes
      <3>4. PassOK'
        BY <3>1, <3>3, ReleaseThenTypes
      <3>. QED  BY <1>4, <3>2, <3>4, PassStepTypes DEF Evacuate, InstTypeOK, factVars
    <2>2. CASE ~(FenceWorker(p) /\ row.gen < MaxGen)
      <3>1. Done(p) /\ UNCHANGED row
        BY <1>4, <2>2 DEF Evacuate
      <3>2. PassOK' /\ RowStep
        BY <1>0, <3>1, DoneTypes, RowStays
      <3>. QED  BY <1>4, <3>2, PassStepTypes DEF Evacuate, InstTypeOK, factVars
    <2>. QED  BY <2>1, <2>2
  <1>5. CASE KeepWorker(p)
    <2>1. CASE Stale(p) # {}
      <3>1. Stale(p) \in ResourceSet
        BY DEF Stale, InstTypeOK, ResourceSet
      <3>2. PassOK'
        BY <1>5, <2>1, <3>1, GoMarkingTypes DEF KeepWorker
      <3>. QED  BY <1>5, <3>2, ReadStep DEF KeepWorker
    <2>2. CASE Stale(p) = {}
      <3>1. PICK next \in Remaining(p) : Go(p, next)
        BY <1>5, <2>2 DEF KeepWorker
      <3>2. next \in PassPc
        BY <3>1 DEF Remaining
      <3>. QED  BY <1>5, <3>1, <3>2, GoTypes, ReadStep DEF KeepWorker
    <2>. QED  BY <2>1, <2>2
  <1>6. CASE MarkStale(p) \/ MarkExposed(p)
    <2>1. /\ set_resource_state(pass[p].marks) /\ UNCHANGED <<rowVars, obs, exposed>> /\ WorldOnly
          /\ Go(p, "delete stale") \/ Go(p, "drain") \/ Go(p, "end")
      BY <1>6 DEF MarkStale, MarkExposed
    <2>2. PassOK' /\ RowStep
      BY <1>0, <2>1, GoTypes, RowStays DEF rowVars
    <2>3. {live', dropping'} \subseteq ResourceSet
      BY <2>1 DEF set_resource_state, ResourceSet, InstTypeOK
    <2>. QED  BY <2>1, <2>2, <2>3, PassStepTypes DEF InstTypeOK, rowVars
  <1>7. CASE DeleteStale(p)
    <2>1. PICK next \in Remaining(p) : Correct(p, "delete", Go(p, next))
      BY <1>7 DEF DeleteStale
    <2>2. next \in PassPc
      BY <2>1 DEF Remaining
    <2>. QED  BY <2>1, <2>2, CorrectStep
  <1>8. CASE Advance(p) \/ Degrade(p) \/ Archive(p)
    BY <1>8, DriveStep DEF Advance, Degrade, Archive
  <1>9. CASE LookUpLaunch(p)
    <2>1. Go(p, "relaunch") \/ Go(p, "fence") \/ Go(p, "end")
      BY <1>9 DEF LookUpLaunch
    <2>. QED  BY <1>9, <2>1, GoTypes, ReadStep DEF LookUpLaunch
  <1>10. CASE FenceMissing(p)
    <2>1. CASE row.gen = Copy(p).gen /\ Writable(row) /\ row.gen < MaxGen
      <3>1. row' = bump_generation(row) /\ GoWith(p, "relaunch", row')
        BY <1>10, <2>1 DEF FenceMissing
      <3>2. RowStep
        BY <1>0, <2>1, <3>1, RowIsBumped
      <3>3. PassOK'
        BY <1>10, <2>1, <3>1, <3>2, GoWithTypes DEF FenceMissing, RowStep
      <3>. QED  BY <1>10, <3>2, <3>3, PassStepTypes DEF FenceMissing, InstTypeOK, factVars
    <2>2. CASE ~(row.gen = Copy(p).gen /\ Writable(row) /\ row.gen < MaxGen)
      <3>1. Done(p) /\ UNCHANGED row
        BY <1>10, <2>2 DEF FenceMissing
      <3>2. PassOK' /\ RowStep
        BY <1>0, <3>1, DoneTypes, RowStays
      <3>. QED  BY <1>10, <3>2, PassStepTypes DEF FenceMissing, InstTypeOK, factVars
    <2>. QED  BY <2>1, <2>2
  <1>11. CASE Relaunch(p) \/ StopUnexpected(p) \/ DeleteUnexpected(p) \/ DeleteExposed(p)
    BY <1>11, CorrectStep DEF Relaunch, StopUnexpected, DeleteUnexpected, DeleteExposed
  <1>12. CASE Drain(p)
    <2>1. CASE Drains(Copy(p).state)
      BY <1>12, <2>1, DriveStep DEF Drain
    <2>2. CASE ~Drains(Copy(p).state)
      BY <1>12, <2>2, GoTypes, ReadStep DEF Drain
    <2>. QED  BY <2>1, <2>2
  <1>13. CASE Settle(p)
    <2>1. AfterDrain(p) \in PassPc
      BY DEF AfterDrain
    <2>2. CASE Copy(p).state = "stopping"
      BY <1>13, <2>1, <2>2, DriveStep DEF Settle
    <2>3. CASE Copy(p).state # "stopping"
      BY <1>13, <2>1, <2>3, GoTypes, ReadStep DEF Settle
    <2>. QED  BY <2>2, <2>3
  <1>14. CASE CleanEndpoints(p)
    <2>1. live \in ResourceSet
      BY DEF InstTypeOK
    <2>2. PICK rest \in {"delete exposed", "drain", "end"} :
             \/ GoMarking(p, "endpoints", rest, live)
             \/ GoMarking(p, rest, "end", live)
             \/ Go(p, rest)
      BY <1>14 DEF CleanEndpoints
    <2>3. PassOK'
      BY <2>1, <2>2, GoMarkingTypes, GoTypes
    <2>. QED  BY <1>14, <2>3, ReadStep DEF CleanEndpoints
  <1>15. CASE DropEndpoints(p)
    <2>1. PassOK' /\ RowStep
      BY <1>0, <1>15, GoMarkingTypes, GoTypes, RowStays DEF DropEndpoints, rowVars
    <2>. QED  BY <1>15, <2>1, PassStepTypes DEF DropEndpoints, delete_endpoint, InstTypeOK, rowVars
  <1>16. CASE NotExposed(p) \/ ReadCleaned(p)
    <2>1. Done(p) \/ Go(p, "archive now")
      BY <1>16 DEF NotExposed, ReadCleaned
    <2>2. PassOK'
      BY <2>1, GoTypes, DoneTypes
    <2>. QED  BY <1>16, <2>2, ReadStep DEF NotExposed, ReadCleaned
  <1>. QED  BY <1>1, <1>2, <1>3, <1>4, <1>5, <1>6, <1>7, <1>8, <1>9, <1>10, <1>11, <1>12, <1>13, <1>14,
               <1>15, <1>16 DEF PassStep

LEMMA LeaksInv ==
    ASSUME InstTypeOK, HostsOK, PassOK, SweepLeaks \/ SweepOrphanEndpoints
    PROVE  InstTypeOK' /\ RowStep /\ HostsOK' /\ PassOK'
  <1>1. UNCHANGED <<row, hold, obs, pass>> /\ WorldOnly /\ RowStep
    BY RowStays DEF SweepLeaks, SweepOrphanEndpoints, rowVars, InstTypeOK
  <1>2. CASE SweepLeaks
    <2>1. jobs' \in [Gen -> [Action -> JobState]]
      BY <1>2, EnqueuedTypes DEF SweepLeaks, InstTypeOK
    <2>2. {live', dropping'} \subseteq ResourceSet /\ UNCHANGED exposed
      BY <1>2 DEF SweepLeaks, set_resource_state, list_leaked_resources, ResourceSet, InstTypeOK
    <2>. QED  BY <1>1, <2>1, <2>2, PassStepTypes DEF InstTypeOK, PassOK
  <1>3. CASE SweepOrphanEndpoints
    BY <1>1, <1>3, PassStepTypes DEF SweepOrphanEndpoints, delete_endpoint, InstTypeOK, PassOK, rowVars
  <1>. QED  BY <1>2, <1>3

-----------------------------------------------------------------------------
(* The theorems. *)

\* The inductive invariant: the types, the generation a row starts with, and
\* what the hosts and the records of containers have to do with each other.
RecInv == RecTypeOK /\ FirstGen /\ HostsOK

LEMMA RecInitInv == RecInit => RecInv
  <1>. SUFFICES ASSUME RecInit PROVE RecInv
    OBVIOUS
  <1>. USE RecordTypes DEF RecInit, InstInit
  <1>1. InstTypeOK
    BY DEF InstTypeOK, Hold, JobState, Observation, ResourceSet
  <1>2. pass \in [Pass -> PassRecord] /\ spent \in [calls : Nat, faults : Nat]
    OBVIOUS
  <1>3. FirstGen
    BY DEF FirstGen, NewRow
  <1>4. HostsOK
    BY DEF HostsOK, TrackedContainer, Mine, NoExec
  <1>. QED  BY <1>1, <1>2, <1>3, <1>4 DEF RecInv, RecTypeOK

LEMMA SpendTypes ==
    ASSUME spent \in [calls : Nat, faults : Nat],
           SpendCall \/ SpendFault \/ UNCHANGED spent
    PROVE  spent' \in [calls : Nat, faults : Nat]
  BY DEF SpendCall, SpendFault, Spend

LEMMA RecStep == RecInv /\ [RecNext]_recVars => RecInv' /\ RowStep
  <1>. SUFFICES ASSUME RecInv, [RecNext]_recVars PROVE RecInv' /\ RowStep
    OBVIOUS
  <1>0. InstTypeOK /\ HostsOK /\ FirstGen /\ PassOK
    BY DEF RecInv, RecTypeOK, PassOK
  <1>. USE <1>0
  <1>1. spent' \in [calls : Nat, faults : Nat]
    BY SpendTypes DEF RecInv, RecTypeOK, RecNext, recVars
  <1>2. InstTypeOK' /\ RowStep /\ HostsOK' /\ PassOK'
    <2>1. CASE (CallStep \/ RequestRefused \/ OperatorCall) /\ UNCHANGED pass
      <3>1. InstTypeOK' /\ RowStep
        BY <2>1, CallTypes
      <3>2. UNCHANGED <<hostVars, exec>>
        BY <2>1 DEF CallStep, OperatorCall, RequestInstance, RequestReserve, RequestPlace, CallEnqueue,
                    ResetRehold, ExpireRelease, RequestRefused, RequestStop, RequestReset, RequestDelete,
                    Expire, CallEnds, Elsewhere
      <3>3. HostsOK'
        BY <3>2, HostsSame
      <3>. QED  BY <2>1, <3>1, <3>3 DEF PassOK
    <2>2. CASE (WorkStep \/ Fault) /\ UNCHANGED pass
      <3>1. InstTypeOK' /\ RowStep /\ HostsOK'
        BY <2>2, ExecStepInv, WorkerInv, SweepInv DEF WorkStep, Fault
      <3>. QED  BY <2>2, <3>1 DEF PassOK
    <2>3. ASSUME NEW p \in Pass, PassStep(p)
          PROVE  InstTypeOK' /\ RowStep /\ HostsOK' /\ PassOK'
      BY <2>3, PassInv
    <2>4. ASSUME NEW p \in Pass, Die(p)
          PROVE  InstTypeOK' /\ RowStep /\ HostsOK' /\ PassOK'
      BY <2>4, DoneTypes, ReadStep DEF Die
    <2>5. CASE SweepLeaks \/ SweepOrphanEndpoints
      BY <2>5, LeaksInv
    <2>6. CASE UNCHANGED recVars
      BY <2>6, ReadStep DEF recVars, PassOK
    <2>. QED  BY <2>1, <2>2, <2>3, <2>4, <2>5, <2>6 DEF RecNext
  <1>3. FirstGen'
    BY <1>2, FirstGenStep
  <1>. QED  BY <1>1, <1>2, <1>3 DEF RecInv, RecTypeOK, PassOK

LEMMA RecInvariant == RecSpec => []RecInv
  BY RecInitInv, RecStep, PTL DEF RecSpec

\* The variables keep their types, and what is recorded as running does run
\* (InstanceReconciler beside the service and the workers).
THEOREM RecTypeCorrect == RecSpec => []RecTypeOK
  <1>1. RecInv => RecTypeOK
    BY DEF RecInv
  <1>. QED  BY <1>1, RecInvariant, PTL

\* A container of the instance is on record, or its launch is still on the way
\* to the report, or its worker crashed in between (_do_launch,
\* record_runtime_resource, recover_abandoned).
THEOREM TrackedContainerHolds == RecSpec => []TrackedContainer
  <1>1. RecInv => TrackedContainer
    BY DEF RecInv, HostsOK
  <1>. QED  BY <1>1, RecInvariant, PTL

\* Whatever moves the row, it moves along LEGAL_INSTANCE_TRANSITIONS, one move
\* or one generation at a time, and never again once it is archived.
THEOREM ImplementsMatrixHolds == RecSpec => ImplementsMatrix
  <1>1. RecInit => Matrix!MInit
    BY DEF RecInit, InstInit, NewRow, Matrix!MInit
  <1>2. RecInv /\ [RecNext]_recVars => [Matrix!MNext]_<<row.state, row.gen>>
    <2>. SUFFICES ASSUME RecInv, [RecNext]_recVars
                  PROVE  [Matrix!MNext]_<<row.state, row.gen>>
      OBVIOUS
    <2>1. RowStep
      BY RecStep
    <2>. QED  BY <2>1 DEF RowStep, Writable, Matrix!MNext
  <1>. QED  BY <1>1, <1>2, RecInvariant, PTL DEF RecSpec, ImplementsMatrix, Matrix!MSpec
=============================================================================
