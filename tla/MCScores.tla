------------------------------ MODULE MCScores -------------------------------
(***************************************************************************)
(* Small instances of Submissions, Scoreboard and Dashboard: focus picks    *)
(* what a behaviour is about and leaves the rest at its start, where no     *)
(* projector has anything to do.                                            *)
(***************************************************************************)
EXTENDS Submissions, Scoreboard, Dashboard
CONSTANTS s1, s2, i1, i2, v1, v2, q1, q2, t1, t2,
          Focuses    \* the focuses this run looks at
VARIABLE focus

MCSub == {s1, s2}
MCSlot == {i1, i2}
MCServer == {v1, v2}
MCProjector == {q1, q2}
MCThread == {t1, t2}

Cfg(e, f, i, m, d, on, pt, pct, fr) ==
    [engine |-> e, fn |-> f, initial |-> i, minimum |-> m, decay |-> d, bonusOn |-> on,
     points |-> pt, percent |-> pct, start |-> 1, end |-> 4, freeze |-> fr]
MCConfig == {
    Cfg("static", "static", 5, 5, 0, TRUE, 1, 50, 4),
    Cfg("dynamic_decay", "linear", 10, 3, 2, TRUE, 1, 25, 4),
    Cfg("dynamic_decay", "logarithmic", 10, 1, 2, TRUE, 0, 50, 4),
    Cfg("dynamic_decay", "linear", 10, 0, 0, FALSE, 3, 50, 4),
    Cfg("dynamic_decay", "linear", 3, 10, 2, FALSE, 3, 50, 4),
    Cfg("time_decay", "static", 10, 3, 0, TRUE, 1, 10, 3)}

mcVars == <<focus, subVars, scVars, dVars>>
MCInit ==
    /\ focus \in Focuses
    /\ SubInit /\ ScInit /\ DInit
    /\ focus # "scores" => config = CHOOSE c \in MCConfig : ValidConfig(c)
MCNext ==
    /\ UNCHANGED focus
    /\ \/ focus = "submissions" /\ SubNext /\ UNCHANGED <<scVars, dVars>>
       \/ focus = "scores" /\ ScNext /\ UNCHANGED <<subVars, dVars>>
       \/ focus = "dashboard" /\ DNext /\ UNCHANGED <<subVars, scVars>>
MCSpec == MCInit /\ [][MCNext]_mcVars /\ SubFair
=============================================================================
