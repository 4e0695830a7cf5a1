--------------------------- MODULE InstanceMatrix ---------------------------
(***************************************************************************)
(* What the instance store promises: the state of an instance moves along  *)
(* the matrix of ctf_generator.domain.instances.models, which the trigger  *)
(* instance_transition_guard repeats; its generation only grows, one by    *)
(* one; and an archived instance is frozen.                                *)
(***************************************************************************)
EXTENDS Naturals

VARIABLES state,       \* the lifecycle state, "none" before creation
          generation   \* the fencing generation

InstanceState ==
    {"requested", "queued", "building", "ready", "starting", "healthy", "active",
     "degraded", "stopping", "stopped", "expired", "failed", "quarantined", "archived"}

\* LEGAL_INSTANCE_TRANSITIONS
LegalNext(s) ==
    LET halt == {"failed", "quarantined"}
        run  == halt \cup {"stopping", "expired"}
    IN  CASE s = "none"        -> {"requested"}
          [] s = "requested"   -> halt \cup {"queued", "stopping"}
          [] s = "queued"      -> halt \cup {"building", "starting", "stopping"}
          [] s = "building"    -> halt \cup {"ready", "stopping"}
          [] s = "ready"       -> halt \cup {"starting", "stopping"}
          [] s = "starting"    -> halt \cup {"healthy", "stopping"}
          [] s = "healthy"     -> run \cup {"active", "degraded"}
          [] s = "active"      -> run \cup {"degraded"}
          [] s = "degraded"    -> run \cup {"healthy", "active"}
          [] s = "stopping"    -> halt \cup {"stopped"}
          [] s \in {"stopped", "failed"}      -> {"starting", "archived", "quarantined"}
          [] s \in {"expired", "quarantined"} -> {"stopping", "archived"}
          [] OTHER             -> {}

MInit == state = "none" /\ generation = 1

\* One transaction moves the state or the generation of a live row, not both.
MNext == /\ state # "archived"
         /\ \/ state' \in LegalNext(state) /\ UNCHANGED generation
            \/ state # "none" /\ generation' = generation + 1 /\ UNCHANGED state

MSpec == MInit /\ [][MNext]_<<state, generation>>
=============================================================================
