------------------------------ MODULE LocalEval ------------------------------
(***************************************************************************)
(* The commands that run a generated challenge on the local Docker host:    *)
(* run_agent_eval and run_adversarial_delta (agent_eval.py),                *)
(* validate_runtime (runtime_validator.py), cross_replay                    *)
(* (replay_validator.py) and validate_siblings (sibling_validator.py).      *)
(* Each is a session of legs, one after the other.  A leg builds a compose  *)
(* project, starts it, waits for health, solves, and tears it down in a     *)
(* finally.  The adversarial delta runs the scenario engine between its two *)
(* legs.  All legs publish the same host port.                              *)
(***************************************************************************)
EXTENDS Scenario

CONSTANTS
    Jobs,        \* the calls: [kind, keep, already, agent]
    SolvePlan,        \* the request paths _extract_plan finds
    Touches,     \* the targets the URL or headers of a path mention
    FlagPaths,   \* the paths whose answer holds the flag
    MaxSteps     \* the profile's max_steps
ASSUME StepsAssumption == MaxSteps \in Nat /\ SolvePlan \in Seq(DOMAIN Touches)
ASSUME JobsAssumption == \A j \in Jobs : j.kind \in {"delta", "validate", "siblings"}

VARIABLES
    job,         \* the call
    leg,         \* which of its legs runs
    run,         \* that leg
    reports,     \* the reports of the legs that ended
    up,          \* the compose projects that hold the port
    delivered,   \* the defended client's requests that reached the application
    session      \* "running", "returned" or "raised"
leVars == <<job, leg, run, reports, up, delivered, session>>

LegsOf(kind) ==
    CASE kind = "delta" -> <<"baseline", "scenario", "adversarial">>
      [] kind = "validate" -> <<"a">>
      [] kind = "siblings" -> <<"a", "b", "a-solver-vs-b", "b-solver-vs-a">>
Leg == LegsOf(job.kind)[leg]
\* Every leg has a project name of its own.
_project_name == Leg
IsEval == Leg \in {"baseline", "adversarial"}

NewRun == [at |-> "static", started |-> FALSE, solved |-> FALSE, steps |-> 0, notes |-> {},
           denied |-> 0, raising |-> FALSE, cleanup |-> "none"]

LeInit ==
    /\ SimInit
    /\ job \in Jobs
    /\ leg = 1 /\ run = NewRun /\ reports = <<>>
    /\ up = {} /\ delivered = {} /\ session = "running"

\* The leg is at step s of its own; the scenario's state is left alone.
LegAt(s) == session = "running" /\ Leg # "scenario" /\ run.at = s
Keep == UNCHANGED <<job, simVars>>
Only(r) == run' = r /\ UNCHANGED <<leg, reports, up, delivered, session>> /\ Keep

\* How an exception leaves the try: CalledProcessError and TimeoutError are
\* noted, subprocess.TimeoutExpired and any other pass through the finally.
Noted(what) == [run EXCEPT !.at = "finally", !.notes = @ \cup {what}]
TimedOut == Noted("timeout")
Hung == [run EXCEPT !.at = "finally", !.raising = TRUE]

\* The siblings are both checked, and compared with each other, up front.
validate_challenge ==
    /\ LegAt("static")
    /\ \/ /\ job.kind = "siblings" => leg = 1
          /\ Only([run EXCEPT !.at = "return", !.notes = {"static"}])
       \/ Only([run EXCEPT !.at = IF IsEval /\ job.already THEN "solve" ELSE "build"])

ComposeBuild ==
    /\ LegAt("build")
    /\ Only([run EXCEPT !.at = "up"]) \/ Only(Noted("command")) \/ Only(Hung)

\* A start that fails may leave containers behind, and started is not set.
ComposeUp ==
    /\ LegAt("up")
    /\ \/ /\ up = {}
          /\ up' = {_project_name}
          /\ run' = [run EXCEPT !.at = "health", !.started = TRUE]
       \/ /\ up' \in {up, IF up = {} THEN {_project_name} ELSE up}
          /\ run' \in {Noted("command"), Hung}
    /\ UNCHANGED <<leg, reports, delivered, session>> /\ Keep

_wait_for_health ==
    /\ LegAt("health")
    /\ \/ up # {} /\ Only([run EXCEPT !.at = "solve"])
       \/ Only(TimedOut)
       \/ Only(Hung)
-----------------------------------------------------------------------------
\* The solver agents.

Breaks(n) == RespAt(n).action \in ENV_ACTIONS \ {"inject_noise"}
BrokenOf(target) == {records[n].tick : n \in {k \in DOMAIN records : Breaks(k) /\ RespAt(k).target = target}}
\* The first tick at which the scenario broke a target.
BrokenAt(target) == CHOOSE t \in BrokenOf(target) : \A u \in BrokenOf(target) : t <= u
\* _ScenarioDefendedHTTPClient.request, on its tick-th request.
Denied(path) ==
    /\ Leg = "adversarial"
    /\ \E target \in Touches[path] : BrokenOf(target) # {} /\ run.steps >= BrokenAt(target)

\* What the agent asks for next; the language model may ask for anything.
NextPaths ==
    IF job.agent = "llm" THEN DOMAIN Touches
    ELSE IF run.steps < Len(SolvePlan) THEN {SolvePlan[run.steps + 1]} ELSE {}

SolveStep ==
    /\ LegAt("solve") /\ IsEval
    /\ run.steps < MaxSteps
    /\ \E path \in NextPaths :
          LET sent == [run EXCEPT !.steps = @ + 1]
          IN  IF Denied(path)
              THEN /\ run' = [sent EXCEPT !.denied = @ + 1]
                   /\ delivered' = delivered
              ELSE /\ run' = IF path \in FlagPaths THEN [sent EXCEPT !.solved = TRUE, !.at = "finally"] ELSE sent
                   /\ delivered' = IF Leg = "adversarial" THEN delivered \cup {<<path, run.steps>>} ELSE delivered
    /\ UNCHANGED <<leg, reports, up, session>> /\ Keep

\* The agent stops: out of steps, out of plan, the model calls no tool, or the
\* deadline, which it logs.
SolveEnds ==
    /\ LegAt("solve") /\ IsEval
    /\ \/ /\ run.steps = MaxSteps \/ NextPaths = {} \/ job.agent = "llm"
          /\ Only([run EXCEPT !.at = "finally"])
       \/ Only(Noted("deadline"))
\* A read of the answer times out, or the provider's client raises.
SolveRaises ==
    /\ LegAt("solve") /\ IsEval
    /\ Only(TimedOut) \/ (job.agent = "llm" /\ Only(Hung))

\* validate_runtime and cross_replay run the solver script instead.
SolverScript ==
    /\ LegAt("solve") /\ ~IsEval
    /\ Only([run EXCEPT !.at = "finally", !.solved = TRUE]) \/ Only(Noted("command")) \/ Only(Hung)
-----------------------------------------------------------------------------
MustTearDown == run.started /\ ~job.keep
\* Mutant: a tear-down that failed is not reported.
SilentCleanup == [run EXCEPT !.at = "return", !.cleanup = "failed"]
NotedCleanup == [run EXCEPT !.at = "return", !.cleanup = "failed", !.notes = @ \cup {"cleanup"}]

Finally ==
    /\ LegAt("finally")
    /\ \/ /\ ~MustTearDown
          /\ run' = [run EXCEPT !.at = "return"]
          /\ up' = up
       \/ /\ MustTearDown
          /\ run' = [run EXCEPT !.at = "return", !.cleanup = "down"]
          /\ up' = up \ {_project_name}
       \/ /\ MustTearDown
          /\ run' \in {NotedCleanup, [run EXCEPT !.at = "return", !.cleanup = "hung", !.raising = TRUE]}
          /\ up' = up
    /\ UNCHANGED <<leg, reports, delivered, session>> /\ Keep

\* The report is returned to the session, or the exception leaves it.  The
\* siblings are cross-replayed, both ways, when neither had an error.
MoreLegs ==
    /\ leg < Len(LegsOf(job.kind))
    /\ job.kind = "siblings" => "static" \notin run.notes
    /\ job.kind = "siblings" /\ leg = 2 => run.notes = {} /\ reports[1].notes = {}
LegEnds ==
    /\ LegAt("return")
    /\ reports' = Append(reports, run)
    /\ IF ~run.raising /\ MoreLegs
       THEN leg' = leg + 1 /\ run' = NewRun /\ session' = session
       ELSE leg' = leg /\ run' = run /\ session' = IF run.raising THEN "raised" ELSE "returned"
    /\ UNCHANGED <<up, delivered>> /\ Keep

ScenarioLeg ==
    /\ session = "running" /\ Leg = "scenario"
    /\ \/ SimNext /\ UNCHANGED leVars
       \/ /\ turn = "done"
          /\ leg' = leg + 1
          /\ reports' = Append(reports, NewRun)
          /\ UNCHANGED <<job, run, up, delivered, session, simVars>>
       \/ /\ turn = "raised"
          /\ session' = "raised"
          /\ UNCHANGED <<job, leg, run, reports, up, delivered, simVars>>

LeNext ==
    \/ validate_challenge \/ ComposeBuild \/ ComposeUp \/ _wait_for_health
    \/ SolveStep \/ SolveEnds \/ SolveRaises \/ SolverScript
    \/ Finally \/ LegEnds \/ ScenarioLeg
LeSpec == LeInit /\ [][LeNext]_<<leVars, simVars>>
-----------------------------------------------------------------------------
(***************************************************************************)
(* However a leg ends, by a report or by an exception, a stack it started   *)
(* is down afterwards, unless the caller wanted it kept or the tear-down    *)
(* itself failed.  (the finally of run_agent_eval, validate_runtime and     *)
(* cross_replay)                                                            *)
(***************************************************************************)
StackTornDown ==
    \A i \in DOMAIN reports :
        reports[i].started /\ ~job.keep /\ reports[i].cleanup \notin {"failed", "hung"}
            => LegsOf(job.kind)[i] \notin up

(***************************************************************************)
(* A session that reports no failure leaves nothing on the host: a start    *)
(* that failed half-way and a tear-down that failed are both in the report. *)
(* (the except clauses around the docker commands)                          *)
(***************************************************************************)
CleanVerdict ==
    session = "returned" /\ ~job.keep /\ (\A i \in DOMAIN reports : reports[i].notes \subseteq {"deadline"})
        => up = {}

(***************************************************************************)
(* With the scripted agent, a solve of the baseline that the adversarial    *)
(* leg loses was denied a request, or the leg's notes say what else went    *)
(* wrong.  (success_dropped of AdversarialDeltaReport)                      *)
(***************************************************************************)
DropExplained ==
    session = "returned" /\ job.kind = "delta" /\ job.agent = "scripted" /\ reports[1].solved /\ ~reports[3].solved
        => reports[3].denied > 0 \/ reports[3].notes # {}

(***************************************************************************)
(* From the tick a target was first broken on, no request that mentions it  *)
(* reaches the application.  (_broken_at of _ScenarioDefendedHTTPClient)    *)
(***************************************************************************)
DefenseHolds ==
    \A d \in delivered : \A n \in DOMAIN records :
        Breaks(n) /\ RespAt(n).target \in Touches[d[1]] => d[2] < records[n].tick

\* The verdict of a local evaluation rests on legs that began clean and ended.
LocalEvalSafe ==
    /\ StackTornDown
    /\ CleanVerdict
    /\ DropExplained
    /\ DefenseHolds
=============================================================================
