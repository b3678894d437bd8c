---------------------------- MODULE MCReconciler ----------------------------
(***************************************************************************)
(* Instances of Reconciler for TLC.                                        *)
(***************************************************************************)
EXTENDS Reconciler, TLC

Reading(v) == [valid |-> TRUE, fresh |-> TRUE, value |-> v]

Dependency(max) ==
    [deployment |-> "inventory", dependsOn |-> NoComponent, scalable |-> TRUE,
     min |-> 1, max |-> max, latencyThreshold |-> 1, utilizationThreshold |-> 1]

\* The target alone, one to three replicas, one at a time, a second apart.
TargetOnly ==
    [deployment |-> "demo-api", min |-> 1, max |-> 3, up |-> 1, cooldown |-> TicksPerSecond,
     prediction |-> TRUE, slo |-> 1, safe |-> 3, limit |-> 4, addressParses |-> TRUE,
     deps |-> [n \in {} |-> Dependency(1)]]

\* The user lowers the maximum, drops the cooldown and widens the step.
Loosened == [TargetOnly EXCEPT !.max = 2, !.up = 2, !.cooldown = 0]

WithInventory == [TargetOnly EXCEPT !.deps = [n \in {"inventory"} |-> Dependency(2)]]

\* Two dependencies that are one Deployment, with different bounds.
Shared ==
    [WithInventory EXCEPT !.up = 2, !.deps =
        [n \in {"inventory", "mirror"} |-> Dependency(IF n = "mirror" THEN 3 ELSE 2)]]

\* A step that overflows, bounds that are none, an address that is no URL.
Wrapping == [TargetOnly EXCEPT !.up = MaxInt]
Broken == [TargetOnly EXCEPT !.max = 0]
NoAddress == [TargetOnly EXCEPT !.addressParses = FALSE]

Striding == [TargetOnly EXCEPT !.max = 4, !.up = 2]

StridingSpec == {Striding}
OneSpec == {TargetOnly}
TwoSpecs == {TargetOnly, Loosened}
DependencySpecs == {WithInventory, Shared}
AllSpecs == {WithInventory, Shared, Wrapping, Broken, NoAddress}

\* What a reconcile may see of a target with one replica, Ready and serving:
\* its p95 and hottest occupancy, and the dependency that runs hot, if any.
Seen(p95, hottest, hot) ==
    [p95 |-> Reading(p95), hottest |-> Reading(hottest), serving |-> Reading(Unit),
     aggregate |-> Reading(1), ready |-> 1, pods |-> 1,
     deps |-> [n \in DependencyNames |->
                 [latency |-> Reading(1), utilization |-> Reading(IF n = hot THEN 2 ELSE 1)]]]

TargetHot == Seen(2, 3, NoComponent)
Calm == Seen(1, 2, NoComponent)

AnyTelemetry == {TargetHot, Calm} \union {Seen(2, 2, n) : n \in DependencyNames}
TargetTelemetry == {TargetHot, Calm}
HotTarget == {TargetHot}

Trusted ==
    [telemetry |-> TRUE, demand |-> TRUE, errors |-> TRUE, rejected |-> FALSE,
     quality |-> "HIGH", horizon |-> 1, rate |-> 3, capacity |-> 2, slope |-> 1]

TrustedOnly == {Trusted}

OneReplica == [d \in Deployments |-> 1]

\* Time passes only while a cooldown runs, so that MaxClock is never what ends
\* the waiting.
LiveNext == Next /\ (clock' # clock => CoolingDown)

LiveSpec == Init /\ [][LiveNext]_vars /\ Fairness

Processes == Permutations(Controllers)

=============================================================================
