------------------------------ MODULE Scenario -------------------------------
(***************************************************************************)
(* The attacker/defender scenario engine (scenario.py) and its live form   *)
(* (scenario_runtime.py).  Every tick polls the event source, lets the      *)
(* attacker decide and applies its responses one by one, then the defender. *)
(* A role decides on everything at once: what it applies is seen by the     *)
(* next role, not by its own later decisions of the tick.                   *)
(*                                                                          *)
(* An offline scenario replays a script and drives the recording            *)
(* environment, where nothing fails.  A live one polls the application over *)
(* HTTP and runs docker compose commands; a command that fails raises out   *)
(* of run_scenario and the report is lost.                                  *)
(***************************************************************************)
EXTENDS Naturals, Sequences, FiniteSets, SequencesExt, TLC

CONSTANTS
    Scenarios,      \* the scenarios run_scenario may be called with
    SimCheckpoint,  \* what the live application may report: [name, type]
    MaxTicks        \* max_ticks
ASSUME TicksAssumption == MaxTicks \in Nat

VARIABLES
    scn,            \* the arguments of the call
    tick,           \* state.tick
    turn,           \* where in the tick the loop is
    bus,            \* SimEventBus, and report.timeline, which gets the same events
    sim,            \* ScenarioState: checkpoints, flags, fired_triggers, noise_count
    pending,           \* the responses a role decided on and has not applied
    records,        \* report.responses_applied
    seen,           \* HttpEventSource._seen_checkpoints
    stopped         \* the containers the live environment has stopped
simVars == <<scn, tick, turn, bus, sim, pending, records, seen, stopped>>

SimEvent(t, s, k, g) == [tick |-> t, source |-> s, kind |-> k, target |-> g]
Turns == {"poll", "attacker", "attack", "defender", "defend", "done", "raised"}
-----------------------------------------------------------------------------
\* Conditions: a sequence of clauses joined by &&, read left to right.

Compare(op, a, b) ==
    CASE op \in {">=", "+"} -> a >= b
      [] op = "<=" -> a <= b
      [] op = "==" -> a = b
      [] op = "!=" -> a # b
      [] op = "<" -> a < b
      [] op = ">" -> a > b

Get(flags, key) == IF key \in DOMAIN flags THEN flags[key] ELSE "None"

_evaluate_time(c, t) == Compare(c.op, t, c.num)
_evaluate_event(c, evs) ==
    \E i \in DOMAIN evs : evs[i].kind = c.kind /\ c.source \in {"any", evs[i].source}
_evaluate_state(c, s) == (Get(s.flags, c.key) = c.value) <=> (c.op = "=")
_evaluate_count(c, evs) ==
    Compare(c.op, Cardinality({i \in DOMAIN evs : evs[i].kind = c.kind}), c.num)

_evaluate_clause(c, t, evs, s) ==
    CASE c.k = "time" -> _evaluate_time(c, t)
      [] c.k = "event" -> _evaluate_event(c, evs)
      [] c.k = "checkpoint" -> c.name \in s.checkpoints
      [] c.k = "state" -> _evaluate_state(c, s)
      [] c.k = "count" -> _evaluate_count(c, evs)

\* An unreadable clause raises ValueError, unless one before it was false.
Unreadable(cond, t, evs, s) ==
    \E i \in DOMAIN cond : /\ cond[i].k = "malformed"
                           /\ \A j \in 1..(i - 1) : cond[j].k # "malformed" /\ _evaluate_clause(cond[j], t, evs, s)
evaluate_condition(cond, t, evs, s) ==
    \A i \in DOMAIN cond : cond[i].k # "malformed" /\ _evaluate_clause(cond[i], t, evs, s)
-----------------------------------------------------------------------------
\* The scripted roles.

\* A move whose precondition fails becomes a "blocked" response.
Blocked(move) ==
    [move.resp EXCEPT !.action = "blocked", !.sets = <<>>, !.checkpoint = "none", !.trigger = "none"]
Proposed(m) == IF evaluate_condition(m.pre, tick, bus, sim) THEN m.resp ELSE Blocked(m)
AttackerRaises ==
    \E i \in DOMAIN scn.moves : scn.moves[i].tick = tick /\ Unreadable(scn.moves[i].pre, tick, bus, sim)
ScriptedAttacker ==
    FlattenSeq([i \in DOMAIN scn.moves |->
                  IF scn.moves[i].tick = tick THEN <<Proposed(scn.moves[i])>> ELSE <<>>])

\* Without a defender of its own, a call pairs the spec's triggers and
\* responses, and has none when they cannot be paired.
_default_defender_from_spec(spec) ==
    IF spec.enabled /\ Len(spec.triggers) = Len(spec.responses)
    THEN [i \in DOMAIN spec.triggers |-> [trig |-> spec.triggers[i], resps |-> <<spec.responses[i]>>]]
    ELSE <<>>
DefenderOf(s) == IF s.defender = <<>> THEN _default_defender_from_spec(s.spec) ELSE s.defender
Defender == DefenderOf(scn)

\* Mutant: a trigger that fired is looked at again.
NotFiredAny(d) == TRUE
NotFired(d) == d.trig.id \notin sim.fired
DefenderRaises ==
    \E i \in DOMAIN Defender : NotFired(Defender[i]) /\ Unreadable(Defender[i].trig.cond, tick, bus, sim)
Fires(d) == NotFired(d) /\ evaluate_condition(d.trig.cond, tick, bus, sim)
Tagged(d) == [j \in DOMAIN d.resps |-> [d.resps[j] EXCEPT !.trigger = d.trig.id]]
ScriptedDefender ==
    FlattenSeq([i \in DOMAIN Defender |-> IF Fires(Defender[i]) THEN Tagged(Defender[i]) ELSE <<>>])
-----------------------------------------------------------------------------
\* Scenarios as they are written.  Triggers are keyed by their ids, only the
\* defender stamps a trigger on a response, and two responses of one role are
\* told apart by their ids.

IsSeq(q) == q \in Seq({q[i] : i \in DOMAIN q})
IsEvent(e) == e = SimEvent(e.tick, e.source, e.kind, e.target)
IsResponse(r) == r = [id |-> r.id, action |-> r.action, target |-> r.target, sets |-> r.sets,
                      checkpoint |-> r.checkpoint, trigger |-> r.trigger]
IsScript(script) ==
    \A t \in 0..MaxTicks : t < MaxTicks => IsSeq(script[t]) /\ \A i \in DOMAIN script[t] : IsEvent(script[t][i])
IsPlan(moves) ==
    /\ IsSeq(moves)
    /\ \A i \in DOMAIN moves : IsSeq(moves[i].pre) /\ IsResponse(moves[i].resp) /\ moves[i].resp.trigger = "none"
    /\ \A i, j \in DOMAIN moves : moves[i].resp.id = moves[j].resp.id => i = j
IsDefender(D) ==
    /\ IsSeq(D)
    /\ \A i \in DOMAIN D : /\ D[i].trig.id # "none" /\ IsSeq(D[i].resps)
                           /\ \A j \in DOMAIN D[i].resps : IsResponse(D[i].resps[j])
                           /\ \A j, k \in DOMAIN D[i].resps : D[i].resps[j].id = D[i].resps[k].id => j = k
    /\ \A i, j \in DOMAIN D : D[i].trig.id = D[j].trig.id => i = j
ASSUME ScenariosAssumption ==
    \A s \in Scenarios : IsScript(s.script) /\ IsPlan(s.moves) /\ IsDefender(DefenderOf(s))
-----------------------------------------------------------------------------
SimInit ==
    /\ scn \in Scenarios
    /\ tick = 0 /\ turn = IF MaxTicks = 0 THEN "done" ELSE "poll"
    /\ bus = <<>> /\ pending = <<>> /\ records = <<>>
    /\ sim = [checkpoints |-> {}, flags |-> <<>>, fired |-> {}, noise |-> 0]
    /\ seen = {} /\ stopped = {}

\* The attacker's turn comes before the defender's.
FirstRole == "attacker"

\* The loop stamps what it publishes with the tick it is in: a replayed event
\* may carry another, and an environment's event carries 0.
Stamped(e) == [e EXCEPT !.tick = tick]

ReplayPoll ==
    /\ ~scn.live
    /\ bus' = bus \o [i \in DOMAIN scn.script[tick] |-> Stamped(scn.script[tick][i])]
    /\ seen' = seen
    /\ turn' = FirstRole

\* The fetch or its decoding fails: the tick sees one poll_error.
PollError ==
    /\ scn.live
    /\ bus' = Append(bus, SimEvent(tick, "http", "poll_error", "url"))
    /\ seen' = seen
    /\ turn' = FirstRole

\* The checkpoint is looked up as it came and remembered as a string, so one
\* that is not a string is never found again; an unhashable one raises.  The
\* reported events follow it, as they come on every poll.
NoCheckpoint == [name |-> "none", type |-> "none"]
Unseen(ck) == ck # NoCheckpoint /\ (ck.type = "text" => ck.name \notin seen)
Remembered(ck) == IF Unseen(ck) THEN seen \cup {ck.name} ELSE seen
HttpPoll(ck, items) ==
    /\ scn.live
    /\ IF ck.type = "list"
       THEN turn' = "raised" /\ UNCHANGED <<bus, seen>>
       ELSE /\ bus' = bus \o (IF Unseen(ck) THEN <<SimEvent(tick, "http", "checkpoint_reached", ck.name)>> ELSE <<>>)
                          \o [i \in DOMAIN items |-> SimEvent(tick, "http", items[i], "app")]
            /\ seen' = Remembered(ck)
            /\ turn' = FirstRole

PollTurn ==
    /\ turn = "poll"
    /\ ReplayPoll \/ PollError \/ (\E ck \in SimCheckpoint \cup {NoCheckpoint}, n \in 0..1 : HttpPoll(ck, [i \in 1..n |-> "observed"]))
    /\ UNCHANGED <<scn, tick, sim, pending, records, stopped>>

OtherRole(role) == CHOOSE other \in {"attacker", "defender"} : other # role
\* Who is next when a role has nothing left to apply.
NextTurn(role) ==
    IF role = FirstRole THEN turn' = OtherRole(role) /\ tick' = tick
    ELSE /\ tick' = IF tick + 1 < MaxTicks THEN tick + 1 ELSE tick
         /\ turn' = IF tick + 1 < MaxTicks THEN "poll" ELSE "done"

Decide(role, applying, raises, decided) ==
    /\ turn = role
    /\ IF raises
       THEN turn' = "raised" /\ UNCHANGED <<tick, pending>>
       ELSE /\ pending' = decided
            /\ IF decided = <<>> THEN NextTurn(role) ELSE turn' = applying /\ tick' = tick
    /\ UNCHANGED <<scn, bus, sim, records, seen, stopped>>
AttackerDecides == Decide("attacker", "attack", AttackerRaises, ScriptedAttacker)
DefenderDecides == Decide("defender", "defend", DefenderRaises, ScriptedDefender)
-----------------------------------------------------------------------------
\* Applying one response.

ENV_ACTIONS == {"rotate_credential", "patch_route", "quarantine_host", "inject_noise"}
ENV_FLAG_PREFIX == [rotate_credential |-> "cred", patch_route |-> "route",
                    quarantine_host |-> "host", inject_noise |-> "noise"]
ENV_FLAG_STATUS == [rotate_credential |-> "rotated", patch_route |-> "patched", quarantine_host |-> "quarantined"]

EnvFlag(r) ==
    IF r.action \notin ENV_ACTIONS THEN <<>>
    ELSE [key \in {<<ENV_FLAG_PREFIX[r.action], r.target>>} |->
            IF r.action = "inject_noise" THEN ToString(sim.noise + 1) ELSE ENV_FLAG_STATUS[r.action]]
SetFlags(flags, new) ==
    [key \in DOMAIN flags \cup DOMAIN new |-> IF key \in DOMAIN new THEN new[key] ELSE flags[key]]

\* docker compose exec fails in a stopped container, and any command may fail.
RunnerOutcomes(r) ==
    IF ~scn.live \/ r.action \notin ENV_ACTIONS THEN {"ok"}
    ELSE IF r.action # "quarantine_host" /\ r.target \in stopped THEN {"failed"}
    ELSE {"ok", "failed"}
\* The runner checks the exit status: a failed command raises.
Returns(outcome) == outcome = "ok"

ResponseEvent(role, r) ==
    IF r.action \in ENV_ACTIONS THEN Stamped(SimEvent(0, "environment", r.action, r.target))
    ELSE SimEvent(tick, role, r.action, r.target)

_apply_responses(role, applying) ==
    /\ turn = applying
    /\ LET r == Head(pending)
       IN  \E outcome \in RunnerOutcomes(r) :
              IF ~Returns(outcome)
              THEN /\ turn' = "raised"
                   /\ UNCHANGED <<scn, tick, bus, sim, pending, records, seen, stopped>>
              ELSE /\ bus' = Append(bus, ResponseEvent(role, r))
                   /\ records' = Append(records, [tick |-> tick, role |-> role, resp |-> r])
                   /\ sim' = [checkpoints |-> sim.checkpoints \cup ({r.checkpoint} \ {"none"}),
                              flags |-> SetFlags(SetFlags(sim.flags, EnvFlag(r)), r.sets),
                              fired |-> sim.fired \cup ({r.trigger} \ {"none"}),
                              noise |-> IF r.action = "inject_noise" THEN sim.noise + 1 ELSE sim.noise]
                   /\ stopped' = IF scn.live /\ r.action = "quarantine_host" /\ outcome = "ok"
                                 THEN stopped \cup {r.target} ELSE stopped
                   /\ pending' = Tail(pending)
                   /\ IF Len(pending) = 1 THEN NextTurn(role) ELSE UNCHANGED <<turn, tick>>
                   /\ UNCHANGED <<scn, seen>>
AttackerApplies == _apply_responses("attacker", "attack")
DefenderApplies == _apply_responses("defender", "defend")

SimNext == PollTurn \/ AttackerDecides \/ AttackerApplies \/ DefenderDecides \/ DefenderApplies
-----------------------------------------------------------------------------
RespAt(i) == records[i].resp

(***************************************************************************)
(* A trigger fires once, whole: however long its condition holds, and       *)
(* although a second response of the same decision finds it already fired,  *)
(* each of its responses is applied exactly once or the run has raised.     *)
(* (ScriptedDefender.decide, fired_triggers)                                *)
(***************************************************************************)
TriggersFireWhole ==
    \A i \in DOMAIN Defender :
        LET d == Defender[i]
            Times(j) == Cardinality({n \in DOMAIN records :
                            RespAt(n).trigger = d.trig.id /\ RespAt(n).id = d.resps[j].id})
        IN  \A j \in DOMAIN d.resps :
                /\ Times(j) <= 1
                /\ d.trig.id \in sim.fired /\ turn \notin {"defend", "raised"} => Times(j) = 1

(***************************************************************************)
(* A blocked move was stopped by something that happened in an earlier      *)
(* tick: the defender acts after the attacker, and a role's own decisions   *)
(* of a tick do not see each other.  (the order of run_scenario's loop)     *)
(***************************************************************************)
SetsFlag(r, key) == key \in DOMAIN r.sets \/ (r.action \in ENV_ACTIONS /\ key = <<ENV_FLAG_PREFIX[r.action], r.target>>)
FlagSetBefore(key, t) == \E e \in DOMAIN records : records[e].tick < t /\ SetsFlag(RespAt(e), key)
\* The moves that one flag with one value blocks.
WaitsOnFlag(m) ==
    /\ m.resp.action # "blocked" /\ Len(m.pre) = 1 /\ m.pre[1].k = "state"
    /\ m.pre[1].op = "!=" /\ m.pre[1].value # "None"
BlockExplained(r, t) ==
    \A i \in DOMAIN scn.moves :
        r.action = "blocked" /\ scn.moves[i].resp.id = r.id /\ WaitsOnFlag(scn.moves[i]) =>
            FlagSetBefore(scn.moves[i].pre[1].key, t)
BlockedEarlier ==
    \A n \in DOMAIN records : records[n].role = "attacker" => BlockExplained(RespAt(n), records[n].tick)

(***************************************************************************)
(* The timeline is in tick order, whatever tick a replayed or environment   *)
(* event was made with: at_tick and since_tick read it so.  (the stamping   *)
(* in run_scenario and _apply_responses)                                    *)
(***************************************************************************)
TimelineOrdered == \A i, j \in DOMAIN bus : i < j => bus[i].tick <= bus[j].tick /\ bus[j].tick <= tick

(***************************************************************************)
(* A checkpoint the application keeps reporting is published once, poll     *)
(* errors in between or not.  (HttpEventSource.poll; a checkpoint that is   *)
(* not a JSON string is published on every tick)                            *)
(***************************************************************************)
OnlyText(ck) == ck \in SimCheckpoint /\ ck.type = "text" /\ \A o \in SimCheckpoint : o.name = ck.name => o = ck
Publishes(e, ck) == e.source = "http" /\ e.kind = "checkpoint_reached" /\ e.target = ck.name
CheckpointOnce ==
    \A ck \in SimCheckpoint : scn.live /\ OnlyText(ck) => Cardinality({i \in DOMAIN bus : Publishes(bus[i], ck)}) <= 1

(***************************************************************************)
(* In a live run the flag of a quarantined host is only there when the      *)
(* host was stopped, or a response that was applied sets it itself: so a    *)
(* condition on it reads the truth.  (_run raises on a failed command,      *)
(* before _apply_responses sets the flag)                                   *)
(***************************************************************************)
FlagsTrue ==
    \A key \in DOMAIN sim.flags :
        scn.live /\ key[1] = "host" /\ sim.flags[key] = "quarantined" =>
            key[2] \in stopped \/ \E n \in DOMAIN records : key \in DOMAIN RespAt(n).sets

\* What the report of a scenario says is what happened, in the order in which
\* it happened.
ScenarioSafe ==
    /\ TriggersFireWhole
    /\ BlockedEarlier
    /\ TimelineOrdered
    /\ CheckpointOnce
    /\ FlagsTrue
=============================================================================
