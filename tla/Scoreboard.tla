----------------------------- MODULE Scoreboard -----------------------------
(***************************************************************************)
(* compute_scoreboard and the scoring engines: a log of competition events *)
(* folded into one score per team.  A challenge is worth the same to every *)
(* team that solved it, and its value is computed anew from the log        *)
(* (retroactive decay).  Values are fractions until they are rounded, half *)
(* to even.                                                                *)
(***************************************************************************)
EXTENDS Integers, Sequences, FiniteSets, FiniteSetsExt, SequencesExt

CONSTANTS ScTeam, ScChallenge,   \* numbers: their order breaks ties
          ScTime,                \* the moments of the competition
          ScConfig,              \* configurations to try
          MaxLog                 \* bound: events in the log

VARIABLES log,    \* the events in the order they were appended
          config  \* the CompetitionConfig with its default_scoring

scVars == <<log, config>>

\* ChallengeScoringConfig with its FirstBloodBonusConfig, and the clock of
\* CompetitionConfig (scoring_start_time, end_time, freeze_time).
CompetitionConfig ==
    [engine : {"static", "dynamic_decay", "time_decay"}, fn : {"static", "linear", "logarithmic"},
     initial : Int, minimum : Int, decay : Int, bonusOn : BOOLEAN, points : Int, percent : Int,
     start : Int, end : Int, freeze : Int]

ASSUME ScoresAssumption ==
    /\ ScTeam \subseteq Int /\ IsFiniteSet(ScTeam) /\ IsFiniteSet(ScChallenge)
    /\ ScTime \subseteq Nat \ {0} /\ ScConfig \subseteq CompetitionConfig

\* Event: its type, and the SolveEvent fields of one that is a solve.
Event == [type : {"solve"}, team : ScTeam, challenge : ScChallenge, at : ScTime, id : 1..2]
         \cup [type : {"attempt"}, team : ScTeam, challenge : ScChallenge]

\* validate_competition_config and _validate_challenge_scoring.
ValidConfig(c) ==
    /\ c.start < c.end /\ c.freeze \in c.start..c.end
    /\ 0 <= c.minimum /\ c.minimum <= c.initial /\ 0 <= c.decay
    /\ 0 <= c.points /\ c.percent \in 0..100

ScInit == log = <<>> /\ config \in {c \in ScConfig : ValidConfig(c)}

\* record_event
RecordEvent(e) == Len(log) < MaxLog /\ log' = Append(log, e) /\ UNCHANGED config

ScNext == \E e \in Event : RecordEvent(e)
ScSpec == ScInit /\ [][ScNext]_scVars

-----------------------------------------------------------------------------
(* The engines *)

Clamp(x, lo, hi) == IF x < lo THEN lo ELSE IF x > hi THEN hi ELSE x

\* Python's round, of n/d.
Rounded(n, d) ==
    LET q == n \div d
        r == 2 * (n % d)
    IN  IF r < d \/ (r = d /\ q % 2 = 0) THEN q ELSE q + 1

DynamicDecay(c, n) ==
    LET d == IF c.fn = "linear" THEN c.decay ELSE c.decay * c.decay
        k == IF c.fn = "linear" THEN n ELSE n * n
    IN  IF c.fn = "static" \/ c.decay <= 0 THEN c.initial
        ELSE Rounded(Clamp(c.initial * d - (c.initial - c.minimum) * k, c.minimum * d, c.initial * d), d)

TimeDecay(c, now) ==
    LET clock == IF now > c.freeze THEN c.freeze ELSE now
        window == c.end - c.start
        elapsed == clock - c.start
    IN  IF elapsed <= 0 THEN c.initial
        ELSE IF elapsed >= window THEN c.minimum
        ELSE Rounded(c.initial * window - (c.initial - c.minimum) * elapsed, window)

ChallengeValue(c, n, now) ==
    CASE c.engine = "static" -> c.initial
      [] c.engine = "dynamic_decay" -> DynamicDecay(c, n)
      [] c.engine = "time_decay" -> TimeDecay(c, now)

FirstBloodBonus(c, value) == IF c.bonusOn THEN Rounded(100 * c.points + value * c.percent, 100) ELSE 0

-----------------------------------------------------------------------------
(* The fold *)

\* _solve_sort_key
Earlier(a, b) ==
    \/ a.at < b.at
    \/ a.at = b.at /\ a.id < b.id
    \/ a.at = b.at /\ a.id = b.id /\ a.team < b.team

NoSolve == [type |-> "none"]

\* solve_event_from_event and _filter_solves: when = 0 stands for no as_of.
Included(e, when) == e.type = "solve" /\ (when = 0 \/ e.at <= when)

Keep(canonical, s) ==
    LET pair == <<s.team, s.challenge>> IN
    IF canonical[pair] = NoSolve \/ Earlier(s, canonical[pair])
    THEN [canonical EXCEPT ![pair] = s] ELSE canonical

\* _dedupe_solves of the solves of a log l.
Deduped(l, when) == FoldLeft(LAMBDA kept, e : IF Included(e, when) THEN Keep(kept, e) ELSE kept,
                             [pair \in ScTeam \X ScChallenge |-> NoSolve], l)

\* How many teams solved c, by the deduplicated solves d.
SolveCount(l, d, c) == Cardinality({t \in ScTeam : d[<<t, c>>] # NoSolve})

\* compute_challenge_values.  Without as_of the clock stands at the end.
ValueAt(l, d, when, c) == ChallengeValue(config, SolveCount(l, d, c), IF when = 0 THEN config.end ELSE when)

FirstBlood(d, t, c) == \A u \in {v \in ScTeam \ {t} : d[<<v, c>>] # NoSolve} : Earlier(d[<<t, c>>], d[<<u, c>>])

\* The points of one solve: the value of its challenge, and the bonus of the first.
Points(l, d, when, t, c) ==
    LET value == ValueAt(l, d, when, c) IN
    IF d[<<t, c>>] = NoSolve THEN 0
    ELSE IF FirstBlood(d, t, c) THEN value + FirstBloodBonus(config, value) ELSE value

\* compute_scoreboard: the entry of every team.
Board(l, when) ==
    LET d == Deduped(l, when) IN
    [t \in ScTeam |-> [score |-> FoldFunction(+, 0, [c \in ScChallenge |-> Points(l, d, when, t, c)]),
                       solves |-> Cardinality({c \in ScChallenge : d[<<t, c>>] # NoSolve})]]

\* Mutant: attempts count as solved.
ProgressOfAttempts(t) == {log[i].challenge : i \in {j \in 1..Len(log) : log[j].team = t}}

\* project_progress: the distinct challenges of a team's solve events.
Progress(t) == {log[i].challenge : i \in {j \in 1..Len(log) : log[j].type = "solve" /\ log[j].team = t}}

-----------------------------------------------------------------------------
(* Properties *)

\* The solves of a team's challenge, in no order.
SolvesOf(l, when, t, c) ==
    {l[i] : i \in {j \in 1..Len(l) : Included(l[j], when) /\ l[j].team = t /\ l[j].challenge = c}}

\* Whatever the order and the repetitions in the log, the fold keeps for each
\* team and challenge its earliest solve.
KeepsEarliest ==
    \A when \in ScTime \cup {0}, t \in ScTeam, c \in ScChallenge :
        LET kept == Deduped(log, when)[<<t, c>>]
            mine == SolvesOf(log, when, t, c)
        IN  IF mine = {} THEN kept = NoSolve
            ELSE kept \in mine /\ \A s \in mine : ~Earlier(s, kept)

\* An event never lowers the score of the team it is about and never raises
\* the score of another, although it changes the value of a challenge for all.
NobodyElseGains ==
    LET before == Board(Front(log), 0)
        after == Board(log, 0)
    IN  log # <<>> => \A t \in ScTeam :
            IF Last(log).team = t THEN before[t].score <= after[t].score
                                  ELSE after[t].score <= before[t].score

\* A value stays between the floor and the initial value, falls with every
\* solve and with time, and stands still from the freeze on.
ValueShape ==
    LET V(n, now) == ChallengeValue(config, n, now) IN
    \A n \in 0..MaxLog, now \in ScTime :
        /\ V(n, now) \in config.minimum..config.initial
        /\ V(n + 1, now) <= V(n, now)
        /\ V(n, now + 1) <= V(n, now)
        /\ now >= config.freeze => V(n, now + 1) = V(n, now)

\* The progress page and the scoreboard agree on what a team has solved.
PagesAgree == \A t \in ScTeam : Board(log, 0)[t].solves = Cardinality(Progress(t))

\* The fold of compute_scoreboard is fair to every team, whatever the order
\* and repetition of the events in the log.
FoldSafe ==
    /\ KeepsEarliest
    /\ NobodyElseGains
    /\ ValueShape
    /\ PagesAgree
=============================================================================
