------------------------------- MODULE MCHosts -------------------------------
(***************************************************************************)
(* What the platform stands on, one after the other: the Docker host of two *)
(* workers, two operators who migrate one database, and three transactions *)
(* at once over two reservations, two pools and two workers of one unit    *)
(* (both reservations fit the pools, but not one worker).                  *)
(***************************************************************************)
EXTENDS Docker, Migrations, QuotaLocks, TLC
CONSTANTS r1, r2, w1, w2, p1, p2, t1, t2, t3
VARIABLE focus

MCHost == {[missing |-> {"apparmor"}, seccomp |-> TRUE, firewall |-> TRUE],
           [missing |-> {}, seccomp |-> TRUE, firewall |-> FALSE],
           [missing |-> {"rootless"}, seccomp |-> TRUE, firewall |-> TRUE]}
MCRes == {r1, r2}
MCWorker == {w1, w2}
MCPool == {p1, p2}
MCOrder == (p1 :> 1) @@ (p2 :> 2) @@ (w1 :> 3) @@ (w2 :> 4)
ThreeTx == {t1, t2, t3}
NoRes == {}
MCPoolUnits == [r \in Res |-> [p \in Pool |-> 1]]
MCWorkerUnits == [r \in Res |-> 1]
MCPoolLimit == (p1 :> 2) @@ (p2 :> 2)
MCCapacity == [w \in Worker |-> 1]
MCSymmetry == Permutations(Tx) \cup Permutations(DkWorker) \cup Permutations(Migrator)

MCInit ==
    /\ focus \in {"docker", "migrations", "locks"}
    /\ DkInit /\ MgInit /\ LocksInit
    /\ focus # "docker" => host = CHOOSE h \in Host : TRUE
MCNext ==
    /\ UNCHANGED focus
    /\ \/ focus = "docker" /\ DkNext /\ UNCHANGED <<mgVars, lockVars>>
       \/ focus = "migrations" /\ MgNext /\ UNCHANGED <<dkVars, lockVars>>
       \/ focus = "locks" /\ LocksNext /\ UNCHANGED <<dkVars, mgVars>>
MCSpec == MCInit /\ [][MCNext]_<<focus, dkVars, mgVars, lockVars>>
=============================================================================
