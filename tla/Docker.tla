------------------------------- MODULE Docker -------------------------------
(***************************************************************************)
(* DockerRuntimeBackend on one host: the objects the daemon keeps for the  *)
(* instances of the host's workers (containers, one network per instance,  *)
(* firewall rules by subnet), and launch, launch_stack, remove and         *)
(* reap_managed as sequences of docker calls, any of which may fail.  A    *)
(* worker runs one of them at a time and may die between two calls.        *)
(***************************************************************************)
EXTENDS Naturals, FiniteSets

CONSTANTS DkWorker, DkInstance,
          Service,       \* the services of a stack, numbered in start order
          Subnet,        \* the subnets the daemon hands out
          Host,          \* what hosts provide: missing (gaps), seccomp, firewall
          Acknowledged,  \* the gaps the operator has acknowledged
          RequireRootless,
          MaxDkFaults    \* bound: failed calls, deaths, exits and stray removals

\* 0 and "none" stand for no subnet and no worker.
ASSUME DockerAssumption == 0 \notin Subnet /\ "none" \notin DkWorker

VARIABLES ctr,      \* containers: instance, worker label, service, running
          net,      \* net[i]: the network of instance i: its subnet and worker label
          rules,    \* subnets with a host-block rule
          dkOp,       \* dkOp[w]: the operation worker w is in
          dirty,    \* workers for which a removal failed
          users,    \* users[i]: the workers that have handled instance i
          stray,    \* a network was removed by hand, or a rule's removal failed
          host,     \* the host the workers share
          dkFaults

dkVars == <<ctr, net, rules, dkOp, dirty, users, stray, host, dkFaults>>

NoNet == [subnet |-> 0, wk |-> "none"]
Idle == [pc |-> "idle", inst |-> "none", want |-> {}, todo |-> {}, made |-> FALSE,
         mode |-> "isolated", reap |-> FALSE, nets |-> {}, seen |-> {}]

\* What a label filter finds: the containers of worker w for instance i.
Mine(w, i) == {c \in ctr : c.wk = w /\ c.inst = i}
Subnets == {net[i].subnet : i \in DkInstance} \ {0}
Attached(i) == \E c \in ctr : c.inst = i /\ c.up /\ c.net

\* DockerHostProbe.missing_gaps
MissingGaps(h) == h.missing

\* _gate: every gap acknowledged, and a rootful daemon only where it may be.
Gate(h) ==
    /\ ~(RequireRootless /\ "rootless" \in MissingGaps(h))
    /\ MissingGaps(h) \subseteq Acknowledged

\* policy_to_run_flags: what no acknowledgement replaces.
HardFloor(h) == h.seccomp

\* An isolated network needs a firewall that takes its rule.
LaunchFloor(h) == h.firewall

DkInit ==
    /\ ctr = {} /\ net = [i \in DkInstance |-> NoNet] /\ rules = {}
    /\ dkOp = [w \in DkWorker |-> Idle]
    /\ dirty = {} /\ users = [i \in DkInstance |-> {}] /\ stray = FALSE /\ host \in Host /\ dkFaults = 0

At(w, pc) == dkOp[w].pc = pc
Go(w, pc) == dkOp' = [dkOp EXCEPT ![w].pc = pc]
Done(w) == dkOp' = [dkOp EXCEPT ![w] = Idle]
Leave(w, pc) == IF pc = "idle" THEN Done(w) ELSE Go(w, pc)
DkFault == dkFaults < MaxDkFaults /\ dkFaults' = dkFaults + 1 /\ UNCHANGED host
DkFine == UNCHANGED <<host, dkFaults>>
Objects == <<ctr, net, rules>>

-----------------------------------------------------------------------------
(* launch and launch_stack *)

\* Nothing is created before every refusal; network mode "none" needs no network.
Launch(w, i, services, mode) ==
    /\ At(w, "idle") /\ Gate(host) /\ HardFloor(host) /\ (mode = "isolated" => LaunchFloor(host))
    /\ dkOp' = [dkOp EXCEPT ![w] = [Idle EXCEPT !.pc = IF mode = "none" THEN "run" ELSE "net", !.mode = mode,
                                            !.inst = i, !.want = services, !.todo = services]]
    /\ users' = [users EXCEPT ![i] = @ \cup {w}]
    /\ UNCHANGED <<Objects, dirty, stray>> /\ DkFine

\* _ensure_network: the one there is, or a new one on a free subnet.
EnsureNetwork(w) ==
    LET i == dkOp[w].inst IN
    /\ At(w, "net")
    /\ IF net[i] # NoNet THEN Go(w, "block") /\ UNCHANGED net
       ELSE \E s \in Subnet \ Subnets :
              /\ net' = [net EXCEPT ![i] = [subnet |-> s, wk |-> w]]
              /\ dkOp' = [dkOp EXCEPT ![w].pc = "block", ![w].made = TRUE]
    /\ UNCHANGED <<ctr, rules, dirty, users, stray>> /\ DkFine

\* _install_host_block.  When it fails, a network that was just made goes too.
InstallHostBlock(w) ==
    /\ At(w, "block")
    /\ \/ /\ net[dkOp[w].inst] # NoNet /\ Go(w, "run") /\ DkFine
          /\ rules' = rules \cup {net[dkOp[w].inst].subnet}
       \/ /\ DkFault /\ UNCHANGED rules
          /\ IF dkOp[w].made THEN Go(w, "unblock") ELSE Done(w)
       \/ net[dkOp[w].inst] = NoNet /\ Done(w) /\ UNCHANGED rules /\ DkFine
    /\ UNCHANGED <<ctr, net, dirty, users, stray>>

NextService(w) == CHOOSE s \in dkOp[w].todo : \A r \in dkOp[w].todo : s <= r
Stack(w) == dkOp[w].want # {0}   \* service 0: the container of a single image

\* A single container that does not start takes its network with it, a stack
\* is removed as a whole.
AfterFailedRun(w) ==
    IF Stack(w) THEN "remove" ELSE IF dkOp[w].mode = "none" THEN "idle" ELSE "unblock"

\* A call that timed out is no DockerCommandError: a single launch leaves its
\* network, and its container if the daemon went on with it.
AfterTimeout(w) == IF Stack(w) THEN "remove" ELSE "idle"

\* docker run: the name of a container is unique on the host.
RunService(w) ==
    LET i == dkOp[w].inst
        s == NextService(w)
        after == IF dkOp[w].todo # {s} THEN "run" ELSE IF Stack(w) THEN "settle" ELSE "launched"
        refused == (\E c \in ctr : c.inst = i /\ c.svc = s) \/ (dkOp[w].mode # "none" /\ net[i] = NoNet)
        started == ctr \cup {[inst |-> i, wk |-> w, svc |-> s, up |-> TRUE, net |-> dkOp[w].mode # "none"]}
    IN
    /\ At(w, "run")
    /\ \/ /\ ~refused /\ ctr' = started /\ DkFine
          /\ dkOp' = [dkOp EXCEPT ![w].todo = @ \ {s}, ![w].pc = after]
       \/ /\ IF refused THEN DkFine ELSE DkFault
          /\ UNCHANGED ctr /\ Leave(w, AfterFailedRun(w))
       \/ /\ ~refused /\ DkFault /\ ctr' \in {ctr, started} /\ Leave(w, AfterTimeout(w))
    /\ UNCHANGED <<net, rules, dirty, users, stray>>

\* Every container of the stack is observed again after it has settled.
Settle(w) ==
    /\ At(w, "settle")
    /\ Go(w, IF \A c \in Mine(w, dkOp[w].inst) : c.up THEN "launched" ELSE "remove")
    /\ UNCHANGED <<Objects, dirty, users, stray>> /\ DkFine

\* The worker reports what was launched, or removes it when that fails.
DkReport(w) ==
    /\ At(w, "launched")
    /\ Done(w) \/ Go(w, "remove")
    /\ UNCHANGED <<Objects, dirty, users, stray>> /\ DkFine

-----------------------------------------------------------------------------
(* remove *)

Remove(w, i) ==
    /\ At(w, "idle") /\ dkOp' = [dkOp EXCEPT ![w] = [Idle EXCEPT !.pc = "remove", !.inst = i]]
    /\ users' = [users EXCEPT ![i] = @ \cup {w}]
    /\ UNCHANGED <<Objects, dirty, stray>> /\ DkFine

\* Mutant: the instance label alone selects the services of a stack.
LabelledService(w, i) == Mine(w, i) \cup {c \in ctr : c.inst = i /\ c.svc # 0}

\* _remove_by_label
Labelled(w, i) == Mine(w, i)

RemoveContainers(w) ==
    /\ At(w, "remove") /\ Go(w, "unblock")
    /\ \/ ctr' = ctr \ Labelled(w, dkOp[w].inst) /\ UNCHANGED dirty /\ DkFine
       \/ Labelled(w, dkOp[w].inst) # {} /\ UNCHANGED ctr /\ dirty' = dirty \cup {w} /\ DkFault
    /\ UNCHANGED <<net, rules, users, stray>>

\* Mutant: the network goes first, and its subnet with it.
UnblockAfterNetwork(w) ==
    /\ At(w, "unblock") /\ Go(w, "rmnet")
    /\ net' = IF Attached(dkOp[w].inst) THEN net ELSE [net EXCEPT ![dkOp[w].inst] = NoNet]
    /\ UNCHANGED <<ctr, rules, dirty, users, stray>> /\ DkFine

\* _remove_network: its rule first, while its subnet can still be read ...
RemoveHostBlock(w) ==
    /\ At(w, "unblock") /\ Go(w, "rmnet")
    /\ \/ rules' = rules \ {net[dkOp[w].inst].subnet} /\ UNCHANGED stray /\ DkFine
       \/ UNCHANGED rules /\ stray' = TRUE /\ DkFault
    /\ UNCHANGED <<ctr, net, dirty, users>>

\* ... then the network, which the daemon keeps while a container is attached.
RemoveNetwork(w) ==
    /\ At(w, "rmnet")
    /\ net' = IF Attached(dkOp[w].inst) THEN net ELSE [net EXCEPT ![dkOp[w].inst] = NoNet]
    /\ IF dkOp[w].reap THEN Go(w, "reapnet") ELSE Done(w)
    /\ UNCHANGED <<ctr, rules, dirty, users, stray>> /\ DkFine

-----------------------------------------------------------------------------
(* reap_managed, at the start of a worker *)

OwnNets(w) == {i \in DkInstance : net[i].wk = w}

ReapManaged(w) ==
    /\ At(w, "restart")
    /\ dkOp' = [dkOp EXCEPT ![w] = [Idle EXCEPT !.pc = "reapnet", !.reap = TRUE, !.nets = OwnNets(w)]]
    /\ \/ ctr' = {c \in ctr : c.wk # w} /\ UNCHANGED dirty /\ DkFine
       \/ (\E c \in ctr : c.wk = w) /\ UNCHANGED ctr /\ dirty' = dirty \cup {w} /\ DkFault
    /\ UNCHANGED <<net, rules, users, stray>>

\* The networks that were listed, one after the other.
ReapNetwork(w) ==
    /\ At(w, "reapnet")
    /\ \/ \E i \in dkOp[w].nets :
            dkOp' = [dkOp EXCEPT ![w].pc = "unblock", ![w].inst = i, ![w].nets = @ \ {i}]
       \/ dkOp[w].nets = {} /\ dkOp' = [dkOp EXCEPT ![w].pc = "sweep", ![w].seen = Subnets]
    /\ UNCHANGED <<Objects, dirty, users, stray>> /\ DkFine

\* _sweep_orphan_host_blocks, with the networks as they were listed before.
Orphans(w) == rules \ dkOp[w].seen

Sweep(w) ==
    /\ At(w, "sweep") /\ rules' = rules \ Orphans(w) /\ Go(w, "reaped")
    /\ UNCHANGED <<ctr, net, dirty, users, stray>> /\ DkFine

Reaped(w) == At(w, "reaped") /\ Done(w) /\ UNCHANGED <<Objects, dirty, users, stray>> /\ DkFine

-----------------------------------------------------------------------------
(* Faults *)

\* The worker process dies between two calls.
DkDies(w) == dkOp[w].pc \notin {"idle", "restart"} /\ DkFault /\ dkOp' = [dkOp EXCEPT ![w] = [Idle EXCEPT !.pc = "restart"]] /\ UNCHANGED <<Objects, dirty, users, stray>>

\* A container exits by itself.
ContainerExits(c) ==
    /\ c.up /\ DkFault /\ ctr' = (ctr \ {c}) \cup {[c EXCEPT !.up = FALSE]}
    /\ UNCHANGED <<net, rules, dkOp, dirty, users, stray>>

\* A network without containers is removed by hand.
RemovedByHand(i) ==
    /\ net[i] # NoNet /\ ~Attached(i) /\ DkFault /\ net' = [net EXCEPT ![i] = NoNet] /\ stray' = TRUE
    /\ UNCHANGED <<ctr, rules, dkOp, dirty, users>>

DkNext ==
    \/ \E w \in DkWorker :
         \/ \E i \in DkInstance : Launch(w, i, Service, "isolated") \/ Launch(w, i, {0}, "isolated")
                                   \/ Launch(w, i, {0}, "none") \/ Remove(w, i)
         \/ EnsureNetwork(w) \/ InstallHostBlock(w) \/ RunService(w) \/ Settle(w) \/ DkReport(w)
         \/ RemoveContainers(w) \/ RemoveHostBlock(w) \/ RemoveNetwork(w)
         \/ ReapManaged(w) \/ ReapNetwork(w) \/ Sweep(w) \/ Reaped(w) \/ DkDies(w)
    \/ \E c \in ctr : ContainerExits(c)
    \/ \E i \in DkInstance : RemovedByHand(i)

DkSpec == DkInit /\ [][DkNext]_dkVars

-----------------------------------------------------------------------------
(* Properties *)

\* Workers that share a host, and an instance that moved between them, leave
\* each other's containers alone.
PeersUntouched == [][\A w \in DkWorker :
    dkOp'[w] # dkOp[w] => \A c \in ctr \ ctr' : c.wk = w]_dkVars

\* A stack is there as a whole or not at all: a launch that succeeded has all
\* its services, and one that failed after some of them ran has left none,
\* unless the daemon refused to remove them.
AllOrNothing == \A w \in DkWorker :
    /\ dkOp[w].pc = "launched" => dkOp[w].want \subseteq {c.svc : c \in Mine(w, dkOp[w].inst)}
    /\ dkOp[w].pc = "rmnet" /\ Stack(w) /\ dkOp[w].todo # dkOp[w].want /\ w \notin dirty
         => Mine(w, dkOp[w].inst) = {}

\* Through failed launches, deaths and restarts, a rule is left behind without
\* its network only where two workers of the host handled one instance, the
\* network was removed by hand, or the firewall refused to drop the rule; the
\* sweep is there for those.
NoRuleLeaks ==
    ~stray /\ (\A i \in DkInstance : Cardinality(users[i]) <= 1) => rules \subseteq Subnets

\* What a launch or a cleanup leaves on a host, failures and deaths included.
DockerSafe ==
    /\ AllOrNothing
    /\ NoRuleLeaks
=============================================================================
