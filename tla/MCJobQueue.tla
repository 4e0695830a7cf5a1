----------------------------- MODULE MCJobQueue -----------------------------
(* A small instance of JobQueue: two jobs, one of them only for the worker *)
(* with a capability, two workers, and one token more than two holders can *)
(* remember at once.                                                       *)
EXTENDS JobQueue, TLC

CONSTANTS j1, j2, w1, w2, t1, t2, t3

MCJob == {j1, j2}
MCWorker == {w1, w2}
MCToken == {t1, t2, t3}
MCRequired == (j1 :> {}) @@ (j2 :> {"build"})
MCCapabilities == (w1 :> {"build"}) @@ (w2 :> {})
MCMaxAttempts == (j1 :> 2) @@ (j2 :> 1)

TokenSymmetry == Permutations(MCToken)

=============================================================================
