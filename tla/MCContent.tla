------------------------------ MODULE MCContent ------------------------------
(***************************************************************************)
(* Small instances of Catalog, Artifacts, Builds, Evaluations, Backup,      *)
(* Scenario, LocalEval, WriteBuild and CveCache, one after the other: focus *)
(* picks what a behaviour is about and leaves the rest at its start.        *)
(***************************************************************************)
EXTENDS Catalog, Artifacts, Builds, Evaluations, Backup, LocalEval, WriteBuild, CveCache
CONSTANT Focuses      \* the focuses this run looks at
VARIABLE focus

\* Compose files: a chain of two, with and without ports, one whose second
\* context is unusable, and all graphs of one and of three services.
Chain == [services |-> {1, 2}, deps |-> [s \in {1, 2} |-> IF s = 1 THEN {2} ELSE {}], ports |-> {}, usable |-> {1, 2}]
Small == {NoCompose, Chain, [Chain EXCEPT !.ports = {1, 2}], [Chain EXCEPT !.usable = {1}]}
Graph(S) == [services : {S}, deps : [S -> SUBSET SvcName], ports : SUBSET S, usable : {S}]
MCCompose == Small \cup Graph({1}) \cup Graph({1, 2, 3})

MCSymmetry == Permutations(Editor)
\* The commands are alike and each asks once: they ask in order.
AskInOrder == \A c \in CveCaller : cve'[c].pc # "idle" => \A d \in 1..(c - 1) : cve'[d].pc # "idle"

\* Scenarios: a defender of two triggers, one with two responses; the default
\* defender of a spec, live or not; a spec that cannot be paired; clauses that
\* cannot be read, before and after a false one.
Resp(i, a, g) == [id |-> i, action |-> a, target |-> g, sets |-> <<>>, checkpoint |-> "none", trigger |-> "none"]
Trig(i, c) == [id |-> i, cond |-> c]
TickIs(op, n) == [k |-> "time", op |-> op, num |-> n]
Malformed == [k |-> "malformed"]
CredGood == [k |-> "state", key |-> <<"cred", "db">>, op |-> "!=", value |-> "rotated"]
SawLogin == [k |-> "event", source |-> "any", kind |-> "login"]
SawNoise == [k |-> "count", kind |-> "inject_noise", op |-> ">=", num |-> 1]
AtDoor == [k |-> "state", key |-> <<"plain", "door">>, op |-> "=", value |-> "open"]
MCMoves ==
    << [tick |-> 0, resp |-> [Resp("recon", "probe", "app") EXCEPT !.sets = <<"plain", "door">> :> "open"], pre |-> <<>>],
       [tick |-> 1, resp |-> [Resp("login", "login", "db") EXCEPT !.checkpoint = "in"], pre |-> <<CredGood>>],
       [tick |-> 2, resp |-> Resp("dump", "read", "db"), pre |-> <<CredGood>>] >>
MCDefender ==
    << [trig |-> Trig("alarm", <<SawLogin, AtDoor>>),
        resps |-> <<Resp("rot", "rotate_credential", "db"), Resp("noise", "inject_noise", "db")>>],
       [trig |-> Trig("again", <<TickIs(">=", 2), SawNoise>>), resps |-> <<Resp("patch", "patch_route", "db")>>] >>
MCSpecTriggers == <<Trig("t1", <<[k |-> "checkpoint", name |-> "in"]>>), Trig("t2", <<TickIs("==", 2)>>)>>
MCSpecResponses == <<Resp("stop", "quarantine_host", "db"), Resp("rotate", "rotate_credential", "db")>>
Offline ==
    [live |-> FALSE, defender |-> MCDefender, moves |-> MCMoves,
     spec |-> [enabled |-> TRUE, triggers |-> MCSpecTriggers, responses |-> MCSpecResponses],
     script |-> [t \in 0..3 |-> IF t = 1 THEN <<SimEvent(7, "replay", "login", "app")>> ELSE <<>>]]
FromSpec == [Offline EXCEPT !.defender = <<>>]
Unpaired == [FromSpec EXCEPT !.spec.responses = <<>>]
Garbled ==
    [Offline EXCEPT !.moves = <<[tick |-> 1, resp |-> Resp("try", "probe", "app"), pre |-> <<TickIs("<", 1), Malformed>>]>>,
                    !.defender = <<[trig |-> Trig("odd", <<TickIs("+", 1), Malformed>>), resps |-> <<>>]>>]
MCScenarios == {Offline, Garbled, FromSpec, Unpaired, [FromSpec EXCEPT !.live = TRUE], [Offline EXCEPT !.live = TRUE]}
MCCheckpoint == {[name |-> "in", type |-> "text"], [name |-> "3", type |-> "number"], [name |-> "x", type |-> "list"]}

\* Local runs: the flag is behind the path the scenario defends.
MCTouches == [login |-> {"app"}, dump |-> {"db"}, home |-> {}]
MCPlan == <<"home", "login", "home", "dump">>
MCJobs == {j \in [kind : {"delta", "validate", "siblings"}, keep : BOOLEAN, already : BOOLEAN, agent : {"scripted", "llm"}] :
              /\ j.kind # "delta" => j.agent = "scripted" /\ ~j.already
              /\ j.kind = "siblings" => ~j.keep}
AnyJob == [kind |-> "validate", keep |-> FALSE, already |-> FALSE, agent |-> "scripted"]

\* CVE queries: two that differ in the score and in a word that looks the same
\* in a file name, and a single record, which NVD publishes late.
MCCveInfo ==
    << [category |-> "web", score |-> 7, day |-> 1, words |-> {"sql injection"}],
       [category |-> "web", score |-> 9, day |-> 2, words |-> {"sql_injection", "sql injection"}],
       [category |-> "cloud", score |-> 8, day |-> 2, words |-> {"sql injection"}] >>
MCSanitized == [w \in {"None", "sql injection", "sql_injection"} |-> IF w = "None" THEN w ELSE "sql_injection"]
Fetch(category, min, after, word) ==
    [what |-> "fetch", id |-> 0, category |-> category, min |-> min, after |-> after, word |-> word, limit |-> 1]
MCCveQuery ==
    {Fetch("web", 7, 1, "sql injection"), Fetch("web", 9, 1, "sql_injection"),
     [Fetch("None", 0, 0, "None") EXCEPT !.what = "get", !.id = 3]}

\* Three racing calls of write_build that find an empty directory are left
\* out: one of them fails early.  Only the first call is made without force
\* and with a renderer that errs in every way.
LocalInit ==
    /\ focus # "local" => job = AnyJob
    /\ focus \notin {"scenario", "local"} => scn = Offline
    /\ focus # "output" => final = Nothing /\ call = [c \in Render |-> [pc |-> "start", force |-> TRUE, input |-> "good"]]
    /\ LeInit /\ WbInit /\ CveInit
    /\ focus = "local" => ~scn.live /\ (job.kind # "delta" => scn = Offline)
    /\ final.kind = "empty" => \E c \in Render : call[c].input = "bad path"
    /\ \A c \in Render \ {1} : call[c].force /\ call[c].input \in {"good", "bad path"}

restVars == <<leVars, simVars, wbVars, cveVars>>
MCInit ==
    /\ focus \in Focuses
    /\ focus # "builds" => compose = NoCompose
    /\ CtInit /\ AfInit /\ BdInit /\ EvInit /\ BkInit /\ LocalInit
    /\ focus # "backup" => quiet
MCNext ==
    /\ UNCHANGED focus
    /\ \/ focus = "window" /\ WindowStep /\ UNCHANGED <<afVars, bdVars, evVars, bkVars, restVars>>
       \/ focus = "versions" /\ VersionStep /\ UNCHANGED <<afVars, bdVars, evVars, bkVars, restVars>>
       \/ focus = "artifacts" /\ AfNext /\ UNCHANGED <<ctVars, bdVars, evVars, bkVars, restVars>>
       \/ focus = "builds" /\ compose \in Small /\ BdNext /\ UNCHANGED <<ctVars, afVars, evVars, bkVars, restVars>>
       \/ focus = "evals" /\ EvNext /\ UNCHANGED <<ctVars, afVars, bdVars, bkVars, restVars>>
       \/ focus = "backup" /\ BkNext /\ UNCHANGED <<ctVars, afVars, bdVars, evVars, restVars>>
       \/ focus = "scenario" /\ SimNext /\ UNCHANGED <<ctVars, afVars, bdVars, evVars, bkVars, leVars, wbVars, cveVars>>
       \/ focus = "local" /\ LeNext /\ UNCHANGED <<ctVars, afVars, bdVars, evVars, bkVars, wbVars, cveVars>>
       \/ focus = "output" /\ WbNext /\ UNCHANGED <<ctVars, afVars, bdVars, evVars, bkVars, leVars, simVars, cveVars>>
       \/ focus = "cve" /\ CveNext /\ AskInOrder /\ UNCHANGED <<ctVars, afVars, bdVars, evVars, bkVars, leVars, simVars, wbVars>>
MCSpec == MCInit /\ [][MCNext]_<<focus, ctVars, afVars, bdVars, evVars, bkVars, restVars>>
=============================================================================
