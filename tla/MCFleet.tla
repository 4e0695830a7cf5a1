------------------------------ MODULE MCFleet ------------------------------
(***************************************************************************)
(* The worker fleet: where instances are placed and charged, and how a     *)
(* worker is trusted and gets at the queue.  They share no rows here, so a *)
(* behaviour is about one of them.  One pool has no row.                   *)
(***************************************************************************)
EXTENDS Placement, WorkerEnrollment, WorkerGate, TLC

CONSTANTS r1, r2, w1, w2, p1, p2, c1, c2,
          Focuses    \* the focuses this run looks at
VARIABLE focus

(* Two callers that race for two reservations of one and two units, a worker *)
(* of one unit and one of two, and a pool of two, so that workers and the    *)
(* pool are full at times.                                                   *)
TwoRes == {r1, r2}
BothWorkers == {w1, w2}
OnePool == {p1}
BothCallers == {c1, c2}
OneCaller == {c1}
NoRes == {}
MCPoolUnits == [r \in Res |-> [p \in Pool |-> IF r = r2 THEN 2 ELSE 1]]
MCWorkerUnits == [r \in Res |-> IF r = r2 THEN 2 ELSE 1]
MCPoolLimit == [p \in Pool |-> 2]
MCCapacity == (w1 :> 1) @@ (w2 :> 2)
BothPools == {p1, p2}
FleetPoolUnits == [r \in Res |-> [p \in Pool |-> IF p = p2 THEN 0 ELSE IF r = r2 THEN 2 ELSE 1]]
FleetPoolLimit == (p1 :> 2) @@ (p2 :> NoRow)

fleetVars == <<focus, placeVars, enrollVars, gateVars>>

MCInit ==
    /\ focus \in Focuses
    /\ PlacementInit /\ EnrollInit /\ GateInit
    /\ focus # "gate" => transport = "local" /\ scopes = AllScopes
MCNext ==
    /\ UNCHANGED focus
    /\ \/ focus = "placement" /\ PlacementNext /\ UNCHANGED <<enrollVars, gateVars>>
       \/ focus = "enrollment" /\ EnrollNext /\ UNCHANGED <<placeVars, gateVars>>
       \/ focus = "gate" /\ GateNext /\ UNCHANGED <<placeVars, enrollVars>>

\* In each focus the other component has nothing under way, so that its
\* fairness asks for nothing.
MCSpec == MCInit /\ [][MCNext]_fleetVars /\ PlacementFair /\ EnrollFair
============================================================================
