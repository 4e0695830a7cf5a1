---------------------------- MODULE JobLifecycle ----------------------------
(***************************************************************************)
(* What the durable job queue promises about one job's status: the legal   *)
(* transition matrix of ctf_generator.domain.work.models, which the store  *)
(* must respect and which the job_transition_guard trigger of migration    *)
(* 0006_jobs repeats.  A job that has not been enqueued is "absent".       *)
(***************************************************************************)

CONSTANT Job    \* the jobs, one per idempotency key

VARIABLE status \* status[j]: the status of job j

JobStatus ==
    {"queued", "claimed", "running", "succeeded", "failed", "cancelled", "dead_letter"}

\* dead_letter ends the worker path; only the operator requeue leaves it.
TerminalStatus == {"succeeded", "failed", "cancelled", "dead_letter"}

LegalTransitions(from) ==
    CASE from = "absent"      -> {"queued"}
      [] from = "queued"      -> {"claimed", "cancelled"}
      [] from = "claimed"     -> {"running", "queued", "cancelled", "dead_letter"}
      [] from = "running"     -> {"succeeded", "failed", "queued", "cancelled", "dead_letter"}
      [] from = "dead_letter" -> {"queued"}
      [] OTHER                -> {}

LInit == status = [j \in Job |-> "absent"]

\* One transaction may move several jobs (a sweep of the lease reaper), each
\* along one legal edge.
LNext == /\ status' \in [Job -> JobStatus \cup {"absent"}]
         /\ \A j \in Job : \/ status'[j] = status[j]
                           \/ status'[j] \in LegalTransitions(status[j])

LSpec == LInit /\ [][LNext]_status
=============================================================================
