---------------------------- MODULE MCPrediction ----------------------------
(***************************************************************************)
(* Instance of Prediction: a target of one to three replicas with one      *)
(* dependency, whose demand may double from one reconcile to the next.     *)
(***************************************************************************)
EXTENDS Prediction

OnTime == {0}

\* Four slots a replica, 70% of them safe: with an efficiency of one, 2.8 requests per
\* second are safe on a replica.
TargetSpec ==
    [deployment |-> "demo-api", min |-> 1, max |-> 3, up |-> 1, cooldown |-> 1,
     prediction |-> TRUE, slo |-> 1, safe |-> 3, limit |-> 4, addressParses |-> TRUE,
     window |-> 1, margin |-> 70, maxError |-> 50,
     deps |-> [n \in {"inventory"} |->
                 [deployment |-> n, dependsOn |-> NoComponent, scalable |-> TRUE, min |-> 1,
                  max |-> 2, latencyThreshold |-> 1, utilizationThreshold |-> 1]]]

Fresh(v) == [valid |-> TRUE, fresh |-> TRUE, value |-> v]

\* Target telemetry: p95, hottest and aggregate occupancy, Ready and serving replicas.
Target(p95, hottest, aggregate, ready, serving) ==
    [p95 |-> Fresh(p95), hottest |-> Fresh(hottest), aggregate |-> Fresh(aggregate),
     ready |-> ready, pods |-> ready, serving |-> Fresh(Unit * serving), 
     deps |-> [n \in {"inventory"} |-> [latency |-> Fresh(1), utilization |-> Fresh(1)]]]

Reading(t, e, d) ==
    [telemetry |-> t, requests |-> Fresh(4), errors |-> Fresh(e), demand |-> d, lead |-> 0,
     replicas |-> [n \in {"inventory"} |-> 1]]

\* Little demand and too many errors; then healthy and loaded, with one or two replicas
\* that serve and a new one ready at once or a tick later; or a replica that does not
\* serve yet; a saturated target, with neither demand nor lead time; or a saturated
\* dependency.
TargetReadings ==
    {Reading(Target(1, 2, 2, 1, 1), 3, Fresh(2)),
     Reading(Target(1, 2, 4, 1, 1), 0, Fresh(4)),
     [Reading(Target(1, 2, 4, 1, 1), 0, Fresh(4)) EXCEPT !.lead = 1],
     Reading(Target(1, 2, 4, 2, 2), 0, Fresh(4)),
     Reading(Target(1, 2, 4, 2, 1), 0, Fresh(4)),
     [Reading(Target(2, 4, 4, 2, 2), 0, InvalidMetric) EXCEPT !.lead = NoLead],
     [Reading(Target(2, 2, 4, 2, 2), 0, Fresh(4))
         EXCEPT !.telemetry.deps["inventory"].utilization = Fresh(2)]}

=============================================================================
