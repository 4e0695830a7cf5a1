---------------------------- MODULE MCWorkerLoop ----------------------------
(* Small instances of WorkerLoop: two workers that compete for one job     *)
(* with two attempts, a build job in one run and any other in the rest.    *)
EXTENDS WorkerLoop, TLC

CONSTANTS j1, j2, w1, w2, t1, t2, t3

OneJob == {j1}
NoJobs == {}
BothWorkers == {w1, w2}
ThreeTokens == {t1, t2, t3}
MCRequired == [j \in Job |-> IF j = j1 THEN {} ELSE {"build"}]
MCCapabilities == (w1 :> {"build"}) @@ (w2 :> {})
MCMaxAttempts == [j \in Job |-> IF j = j1 THEN 2 ELSE 1]
=============================================================================
