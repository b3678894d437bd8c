-------------------------- MODULE CapacityDecision --------------------------
(***************************************************************************)
(* What one reconcile computes from what it read: the pipeline of          *)
(* reconcileCapacity between its last query and its first write            *)
(* (internal/controller).  It has no state; Reconciler runs it.            *)
(*                                                                         *)
(* A spec is a record                                                      *)
(*   deployment, min, max, deps        the target and its dependencies     *)
(*   up, cooldown                      the policy                          *)
(*   prediction                        whether prediction is enabled       *)
(*   slo, safe, limit                  the SLO, safe and physical slots    *)
(*   addressParses                     whether prometheus.address is a URL *)
(* with deps a function from names to records [deployment, dependsOn,      *)
(* scalable, min, max, latencyThreshold, utilizationThreshold].            *)
(* maxScaleDownStep and the scalar thresholds never reach a decision of    *)
(* this pipeline beyond "at least 1"; they and the query texts are left    *)
(* out of validateSpec.                                                    *)
(*                                                                         *)
(* telemetry: [p95, hottest, serving, aggregate, ready, pods, deps], deps  *)
(* a function from names to [latency, utilization]; ready: Ready replicas  *)
(* by the status of the target's Deployment, pods: by its Pods, read later *)
(* and for the predictor only.  read: the replicas of every component's    *)
(* Scale, Unread where the GET failed.  forecast: the predictor's evidence *)
(* (Policy.EvaluatePrescale).                                              *)
(***************************************************************************)
EXTENDS Capacity, Policy

Unread == -1

Components(spec) == {"target"} \union DOMAIN spec.deps

\* The Deployment whose Scale a component's decision is written to.
DeploymentOf(spec, component) ==
    IF component = "target" THEN spec.deployment ELSE spec.deps[component].deployment

DependencySpec(names, deployments) ==
    [deployment : deployments, dependsOn : names \union {NoComponent},
     scalable : BOOLEAN, min : Int32, max : Int32,
     latencyThreshold : Int, utilizationThreshold : Int]

\* The specs that declare these dependencies, among names; they need not be valid.
SpecOver(declared, names, deployments) ==
    [deployment : deployments, min : Int32, max : Int32, up : Int32, cooldown : Nat,
     prediction : BOOLEAN, addressParses : BOOLEAN, slo : Int, safe : Int, limit : Int,
     deps : [declared -> DependencySpec(names, deployments)]]

validateSpec(spec) ==
    /\ spec.min >= 1 /\ spec.max >= spec.min
    /\ spec.up >= 1 /\ spec.slo >= 0 /\ spec.limit >= Unit
    /\ "target" \notin DOMAIN spec.deps
    /\ \A n \in DOMAIN spec.deps :
          /\ spec.deps[n].min >= 1 /\ spec.deps[n].max >= spec.deps[n].min
          /\ spec.deps[n].deployment # spec.deployment
          /\ spec.deps[n].latencyThreshold >= 0 /\ spec.deps[n].utilizationThreshold >= 0
          /\ spec.deps[n].dependsOn \in (DOMAIN spec.deps \ {n}) \union {NoComponent}

\* Mutant: every missing occupancy of an idle target is zero.
MutHottestZero(t) ==
    IF ~t.hottest.valid THEN [valid |-> TRUE, fresh |-> TRUE, value |-> 0] ELSE t.hottest

\* With no serving replica and no held slot an empty max() is zero, not missing.
HottestReplicaOccupancy(t) ==
    IF /\ t.serving.valid /\ t.serving.value = 0
       /\ usable(t.aggregate) /\ t.aggregate.value = 0
       /\ ~t.hottest.valid
    THEN [t.aggregate EXCEPT !.value = 0]
    ELSE t.hottest

\* A dependency whose Scale could not be read has no usable telemetry either.
DependencyObservation(spec, t, read, n) ==
    [dependsOn            |-> spec.deps[n].dependsOn,
     scalable             |-> spec.deps[n].scalable,
     latency              |-> IF read[n] = Unread THEN InvalidMetric ELSE t.deps[n].latency,
     utilization          |-> IF read[n] = Unread THEN InvalidMetric ELSE t.deps[n].utilization,
     latencyThreshold     |-> spec.deps[n].latencyThreshold,
     utilizationThreshold |-> spec.deps[n].utilizationThreshold]

Snapshot(spec, t, read) ==
    [slo     |-> spec.slo,   safe    |-> spec.safe,   limit |-> spec.limit,
     p95     |-> t.p95,      serving |-> t.serving,   ready |-> t.ready,
     hottest |-> HottestReplicaOccupancy(t),
     deps    |-> [n \in DOMAIN spec.deps |-> DependencyObservation(spec, t, read, n)]]

TargetInput(spec, current) ==
    [name |-> "target", current |-> current, min |-> spec.min, max |-> spec.max, scalable |-> TRUE]

\* A failed GET leaves the zero Scale.
DependencyInput(spec, read, n) ==
    [name |-> n, current |-> IF read[n] = Unread THEN 0 ELSE read[n],
     min |-> spec.deps[n].min, max |-> spec.deps[n].max, scalable |-> spec.deps[n].scalable]

\* A down step of 1 stands for any the API accepts.
ReactiveDecision(spec, analysis, read, lastScale, now) ==
    EvaluateCapacity(
        [analysis  |-> analysis,
         target    |-> TargetInput(spec, read["target"]),
         deps      |-> [n \in DOMAIN spec.deps |-> DependencyInput(spec, read, n)],
         up        |-> spec.up,
         down      |-> 1,
         cooldown  |-> spec.cooldown,
         lastScale |-> lastScale,
         now       |-> now])

dependenciesHealthy(deps) ==
    \A n \in DOMAIN deps :
        usable(deps[n].latency) /\ usable(deps[n].utilization) /\ ~Saturated(deps[n])

\* Mutant: Ready replicas are compared with the serving ones only.
MutCapacityRealized(s, pods, current) ==
    /\ EffectiveReplicaCountOK(s.serving, pods)
    /\ EffectiveReplicaCount(s.serving) > 0
    /\ EffectiveReplicaCount(s.serving) = pods

\* Every requested replica is Ready, by its Pod and by the Deployment, and carries
\* traffic.
CapacityRealized(s, pods, current) ==
    /\ EffectiveReplicaCountOK(s.serving, pods)
    /\ EffectiveReplicaCount(s.serving) > 0
    /\ EffectiveReplicaCount(s.serving) = pods
    /\ pods = s.ready /\ pods = current

PredictedDecision(spec, s, pods, analysis, decision, forecast, current, lastScale, now) ==
    IF ~spec.prediction THEN decision
    ELSE EvaluatePrescale(
        [decision    |-> decision,
         class       |-> analysis.class,
         forecast    |-> forecast,
         healthy     |-> dependenciesHealthy(s.deps),
         unsaturated |-> usable(s.hottest) /\ s.hottest.value < s.safe,
         realized    |-> CapacityRealized(s, pods, current),
         target      |-> TargetInput(spec, decision.current),
         up          |-> spec.up,
         cooldown    |-> spec.cooldown,
         lastScale   |-> lastScale,
         now         |-> now])

\* Ready replicas that do not carry traffic yet.
targetCapacityRealizationPending(s) ==
    /\ EffectiveReplicaCountOK(s.serving, s.ready)
    /\ s.ready > EffectiveReplicaCount(s.serving)

holdTargetScaleForUnrealizedCapacity(decision, s, current) ==
    IF /\ targetCapacityRealizationPending(s)
       /\ decision.component = "target"
       /\ decision.action \in {"SCALE_TARGET", "PRESCALE_TARGET"}
    THEN [decision EXCEPT !.action = "HOLD", !.current = current, !.desired = current]
    ELSE decision

\* The decision one reconcile takes.
Decide(spec, t, read, forecast, lastScale, now) ==
    LET s        == Snapshot(spec, t, read)
        analysis == Analyze(s)
        reactive == ReactiveDecision(spec, analysis, read, lastScale, now)
        final    == PredictedDecision(spec, s, t.pods, analysis, reactive, forecast,
                                      read["target"], lastScale, now)
    IN  holdTargetScaleForUnrealizedCapacity(final, s, read["target"])

\* Only a scale action that changes the count is written.
Writes(decision) ==
    decision.action \in ScaleActions /\ decision.current # decision.desired

=============================================================================
