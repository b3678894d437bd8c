----------------------------- MODULE MCDecision -----------------------------
(***************************************************************************)
(* The decision pipeline over bounded inputs.                              *)
(*                                                                         *)
(* Two families of inputs: a target and one dependency, every combination  *)
(* of readings below and every replica count from outside the bounds to    *)
(* outside the bounds; and a slow target with several dependencies, every  *)
(* topology below and every dependency hot or cool, for the attribution.   *)
(***************************************************************************)
EXTENDS OneDecision

CONSTANTS
    UpSteps,        \* values of maxScaleUpStep
    ServingCounts,  \* readings of the serving-replica count, in 1/Unit
    Ages,           \* values of lastScale: Never or a time
    Topologies      \* functions from dependencies to what each depends on

Reading(v) == [valid |-> TRUE, fresh |-> TRUE, value |-> v]
Stale(v) == [valid |-> TRUE, fresh |-> FALSE, value |-> v]

Trusted ==
    [telemetry |-> TRUE, demand |-> TRUE, errors |-> TRUE, rejected |-> FALSE,
     quality |-> "HIGH", horizon |-> 1, rate |-> 3, capacity |-> 2, slope |-> 1]

TrustedOrNot == {Trusted, [Trusted EXCEPT !.rejected = TRUE], [Trusted EXCEPT !.rate = 2]}
OnlyTrusted == {Trusted}

Cooldown == 2

Names == {"inventory", "postgres", "cache"}
Workloads == Names \union {"demo-api"}

\* Never, exactly a cooldown before Now, and within the cooldown.
AnyAge == {Never, 1, 2}
NeverScaled == {Never}

\* Dependencies with thresholds of 1: t says what each depends on, scalable which
\* may be scaled.
SpecWith(up, t, scalable) ==
    [deployment |-> "demo-api", min |-> 1, max |-> 3, up |-> up, cooldown |-> Cooldown,
     prediction |-> TRUE, slo |-> 1, safe |-> 3, limit |-> 4, addressParses |-> TRUE,
     deps |-> [n \in DOMAIN t |->
                 [deployment |-> n, dependsOn |-> t[n], scalable |-> scalable[n],
                  min |-> 1, max |-> 2, latencyThreshold |-> 1, utilizationThreshold |-> 1]]]

CallsNothing == [n \in {"inventory"} |-> NoComponent]

Specs == {s \in {SpecWith(up, CallsNothing, scalable) :
                    up \in UpSteps, scalable \in [{"inventory"} -> BOOLEAN]} : validateSpec(s)}

\* Hottest occupancy: missing, stale, cool, hot.  Aggregate: missing, idle, held.
Telemetry ==
    [p95       : {Reading(1), Reading(2)},
     hottest   : {InvalidMetric, Stale(0), Reading(2), Reading(3)},
     serving   : {InvalidMetric} \union {Reading(v) : v \in ServingCounts},
     aggregate : {InvalidMetric, Reading(0), Reading(2)},
     ready     : 0..2,
     pods      : {1, 2},
     deps      : {[n \in {"inventory"} |-> [latency |-> Reading(1), utilization |-> u]] :
                     u \in {Reading(1), Reading(2), Stale(1)}}]

Reads ==
    {[c \in {"target", "inventory"} |-> IF c = "target" THEN t ELSE d] :
        t \in 0..4, d \in {Unread, 1, 2}}

Combinations == [spec : Specs, telemetry : Telemetry, read : Reads,
                 forecast : Forecasts, lastScale : Ages]

\* Every topology of three dependencies, with and without cycles.
AllTopologies ==
    {t \in [Names -> Names \union {NoComponent}] : \A n \in Names : t[n] # n}

NoTopologies == {}

\* The target above its SLO, saturated itself or not, and one replica of everything.
SlowTarget(hottest, hot) ==
    [p95 |-> Reading(2), hottest |-> Reading(hottest), serving |-> Reading(Unit),
     aggregate |-> Reading(2), ready |-> 1, pods |-> 1,
     deps |-> [n \in DOMAIN hot |-> [latency     |-> Reading(IF hot[n][1] THEN 2 ELSE 0),
                                     utilization |-> Reading(IF hot[n][2] THEN 2 ELSE 0)]]]

AttributionInput(up, t, scalable, hottest, hot) ==
    [spec      |-> SpecWith(up, t, scalable),
     telemetry |-> SlowTarget(hottest, hot),
     read      |-> [c \in {"target"} \union DOMAIN t |-> 1],
     forecast  |-> Trusted,
     lastScale |-> Never]

\* Both families.
AllInputs ==
    Combinations \union
        {AttributionInput(1, t, scalable, hottest, hot) :
            t \in Topologies, scalable \in [Names -> BOOLEAN], hottest \in {2, 3},
            hot \in [Names -> BOOLEAN \X BOOLEAN]}

=============================================================================
