----------------------------- MODULE Evaluations -----------------------------
(***************************************************************************)
(* Agent evaluations: a request makes one run per version, profile and     *)
(* mode and then its job; a worker runs the job; a drain, of which several  *)
(* may run at once, folds the job's outcome onto the run.  No step of these *)
(* holds a lock: the unique key of the run, the key of the job and the      *)
(* CHECK constraints of the table are what keeps the pieces together.       *)
(***************************************************************************)
EXTENDS Integers, FiniteSets

CONSTANTS Asker,        \* requests in flight; each would use its own name as run id
          Drainer,      \* drains in flight
          NoAsker,
          MaxStamp,     \* bound on the clock
          EvAttempts    \* delivery attempts before the job is dead
ASSUME EvAssumption == EvAttempts \in Nat \ {0}

Null == "null"
TERMINAL_EVAL_RUN_STATUSES == {"succeeded", "failed"}
NoEvalRun == [status |-> "none", id |-> NoAsker]
Ended == {"succeeded", "failed", "dead_letter", "cancelled"}

VARIABLES published,    \* the version is published
          evrun,        \* the eval_runs row
          evjob,        \* the job with the run's key
          ask,          \* where each request is
          drain,        \* where each drain is
          stamp         \* clock

evVars == <<published, evrun, evjob, ask, drain, stamp>>

-----------------------------------------------------------------------------
(* request_eval. *)
publish_version ==
    /\ ~published
    /\ published' = TRUE
    /\ UNCHANGED <<evrun, evjob, ask, drain, stamp>>

\* Stored is what the request goes on with: the row's id and status.
Stored(a, id, status) == ask' = [ask EXCEPT ![a] = [st |-> "stored", id |-> id, status |-> status]]
FindRun(a) ==
    /\ ask[a].st = "idle"
    /\ published
    /\ IF evrun # NoEvalRun THEN Stored(a, evrun.id, evrun.status)
                        ELSE ask' = [ask EXCEPT ![a] = [st |-> "add"]]
    /\ UNCHANGED <<published, evrun, evjob, drain, stamp>>

\* The unique constraint refuses the second of two; it then reads the first.
AddRun(a) ==
    /\ ask[a].st = "add"
    /\ IF evrun = NoEvalRun
       THEN /\ evrun' = [id |-> a, status |-> "pending", error |-> Null, solved |-> Null, completed_at |-> 0]
            /\ Stored(a, a, "pending")
       ELSE /\ Stored(a, evrun.id, evrun.status)
            /\ UNCHANGED evrun
    /\ UNCHANGED <<published, evjob, drain, stamp>>

PayloadRunOwn(a) == a
PayloadRun(a) == ask[a].id
EnqueueEval(a) ==
    /\ ask[a].st = "stored"
    /\ evjob' = IF evjob.status = "absent" /\ ask[a].status \in {"pending", "running"}
                THEN [evjob EXCEPT !.status = "queued", !.run = PayloadRun(a)] ELSE evjob
    /\ ask' = [ask EXCEPT ![a] = [st |-> "idle"]]
    /\ UNCHANGED <<published, evrun, drain, stamp>>

\* The process dies; the request may come again.
AskerDies(a) ==
    /\ ask[a].st # "idle"
    /\ ask' = [ask EXCEPT ![a] = [st |-> "idle"]]
    /\ UNCHANGED <<published, evrun, evjob, drain, stamp>>

-----------------------------------------------------------------------------
(* The job.  A failed evaluation is a job that succeeded with an error; a    *)
(* job that cannot be dispatched is retried until it is dead.               *)
_do_agent_eval ==
    /\ evjob.status = "queued"
    /\ \E o \in {"solved", "unsolved", "error"} :
         evjob' = [evjob EXCEPT !.status = "succeeded", !.result = o]
    /\ UNCHANGED <<published, evrun, ask, drain, stamp>>
EvalFails ==
    /\ evjob.status = "queued"
    /\ evjob' = [evjob EXCEPT !.attempts = @ + 1,
                              !.status = IF evjob.attempts + 1 >= EvAttempts THEN "dead_letter" ELSE "queued"]
    /\ UNCHANGED <<published, evrun, ask, drain, stamp>>
EvalRefused ==
    /\ evjob.status = "queued"
    /\ \E s \in {"failed", "cancelled"} : evjob' = [evjob EXCEPT !.status = s]
    /\ UNCHANGED <<published, evrun, ask, drain, stamp>>
RetryEval ==
    /\ evjob.status = "dead_letter"
    /\ evjob' = [evjob EXCEPT !.status = "queued", !.attempts = 0]
    /\ UNCHANGED <<published, evrun, ask, drain, stamp>>

-----------------------------------------------------------------------------
(* The drain. *)
ListRuns(d) ==
    /\ drain[d].st = "idle"
    /\ evrun.status \in {"pending", "running"}
    /\ drain' = [drain EXCEPT ![d] = [st |-> "listed"]]
    /\ UNCHANGED <<published, evrun, evjob, ask, stamp>>

_result_input ==
    CASE evjob.status # "succeeded"  -> [error |-> evjob.status, solved |-> Null]
      [] evjob.result = "error"      -> [error |-> "error", solved |-> Null]
      [] OTHER                       -> [error |-> Null, solved |-> evjob.result]

ReadEvalJob(d) ==
    /\ drain[d].st = "listed"
    /\ drain' = [drain EXCEPT ![d] = IF evjob.status \in Ended THEN [st |-> "record", result |-> _result_input]
                                     ELSE [st |-> "idle"]]
    /\ UNCHANGED <<published, evrun, evjob, ask, stamp>>

\* record_result: a terminal run is a conflict.
CheckRun(d) ==
    /\ drain[d].st = "record"
    /\ drain' = [drain EXCEPT ![d] = IF evrun.status \in TERMINAL_EVAL_RUN_STATUSES THEN [st |-> "idle"]
                                     ELSE [drain[d] EXCEPT !.st = "write"]]
    /\ UNCHANGED <<published, evrun, evjob, ask, stamp>>

EvalChecks(r) ==
    /\ r.status \in TERMINAL_EVAL_RUN_STATUSES <=> r.completed_at # 0
    /\ r.status = "succeeded" \/ r.solved = Null
    /\ r.status = "failed" <=> r.error # Null

\* The flush writes the columns that differ from the pending row that was
\* read; a column another drain filled in between keeps its value.
FlushedRun(res) == [evrun EXCEPT !.status = IF res.error = Null THEN "succeeded" ELSE "failed",
                              !.completed_at = stamp,
                              !.error = IF res.error = Null THEN @ ELSE res.error,
                              !.solved = IF res.solved = Null THEN @ ELSE res.solved]
record_result(d) ==
    /\ drain[d].st = "write"
    /\ evrun' = IF EvalChecks(FlushedRun(drain[d].result)) THEN FlushedRun(drain[d].result) ELSE evrun
    /\ drain' = [drain EXCEPT ![d] = [st |-> "idle"]]
    /\ stamp' = IF stamp < MaxStamp THEN stamp + 1 ELSE stamp
    /\ UNCHANGED <<published, evjob, ask>>

DrainerDies(d) ==
    /\ drain[d].st # "idle"
    /\ drain' = [drain EXCEPT ![d] = [st |-> "idle"]]
    /\ UNCHANGED <<published, evrun, evjob, ask, stamp>>

-----------------------------------------------------------------------------
EvInit ==
    /\ published = FALSE
    /\ evrun = NoEvalRun
    /\ evjob = [status |-> "absent", run |-> NoAsker, result |-> Null, attempts |-> 0]
    /\ ask = [a \in Asker |-> [st |-> "idle"]]
    /\ drain = [d \in Drainer |-> [st |-> "idle"]]
    /\ stamp = 1

EvNext ==
    \/ publish_version \/ _do_agent_eval \/ EvalFails \/ EvalRefused \/ RetryEval
    \/ \E a \in Asker : FindRun(a) \/ AddRun(a) \/ EnqueueEval(a) \/ AskerDies(a)
    \/ \E d \in Drainer : ListRuns(d) \/ ReadEvalJob(d) \/ CheckRun(d) \/ record_result(d) \/ DrainerDies(d)
EvSpec == EvInit /\ [][EvNext]_evVars

-----------------------------------------------------------------------------
(* Properties. *)

\* The job names the run that is stored, whichever of two requests made the
\* row and whichever made the job (service.py request_eval).
PayloadNamesRun == evjob.status # "absent" => evjob.run = evrun.id

\* A run succeeded only if its job did, with a report and no error, and holds
\* that report; a run that failed has an error and no report (projector.py
\* _result_input).
OutcomeTrue ==
    evrun # NoEvalRun =>
      /\ evrun.status = "succeeded" => evjob.status = "succeeded" /\ evrun.solved = evjob.result
      /\ evrun.solved # "error"

\* A run, its job and its recorded outcome belong together.
EvaluationsSafe ==
    /\ PayloadNamesRun
    /\ OutcomeTrue
=============================================================================
