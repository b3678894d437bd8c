------------------------------ MODULE Capacity ------------------------------
(***************************************************************************)
(* Bottleneck attribution: capacity.Analyze (internal/capacity).           *)
(*                                                                         *)
(* A snapshot is a record                                                  *)
(*   slo            the p95 the target must stay within                    *)
(*   p95, hottest, serving                                                 *)
(*                  readings of the target (hottest: slots held by its     *)
(*                  busiest serving replica; serving: replicas that carry  *)
(*                  traffic)                                               *)
(*   ready          Ready replicas of the target                           *)
(*   safe, limit    safe and physical slots of one replica                 *)
(*   deps           a function from dependency names to records            *)
(*                  [dependsOn, scalable, latency, utilization,            *)
(*                   latencyThreshold, utilizationThreshold]               *)
(* Dependency names are unique (validateSpec rejects duplicates), so a     *)
(* function stands for the code's slice.  The order of the slice decides   *)
(* only which dependency the text of an UNCERTAIN analysis mentions;       *)
(* evidence, confidence and that text are left out.                        *)
(***************************************************************************)
EXTENDS Observation, FiniteSets

\* No dependency: the empty dependsOn of the code.
NoComponent == "none"

Classifications == {"HEALTHY", "TARGET_SATURATED", "DEPENDENCY_SATURATED",
                    "CAPACITY_BLOCKED", "UNCERTAIN"}

Analysis(class, component) == [class |-> class, component |-> component]

uncertain == Analysis("UNCERTAIN", NoComponent)

\* A dependency whose latency or utilization is above its threshold.
Saturated(d) ==
    \/ d.latency.value > d.latencyThreshold
    \/ d.utilization.value > d.utilizationThreshold

SaturatedDependencies(deps) == {n \in DOMAIN deps : Saturated(deps[n])}

\* Mutant: saturation upstream, not downstream, excuses a dependency.
MutExplainedByUpstream(deps, n) ==
    /\ \E m \in SaturatedDependencies(deps) : deps[m].dependsOn = n
    /\ deps[n].utilization.value <= deps[n].utilizationThreshold

\* Its latency may be inherited from the saturated dependency it calls: only
\* its own utilization would make it a bottleneck in its own right.
ExplainedByDownstream(deps, n) ==
    /\ deps[n].dependsOn \in SaturatedDependencies(deps)
    /\ deps[n].utilization.value <= deps[n].utilizationThreshold

\* Mutant: only a dependency's own utilization makes it a candidate.
MutRootCandidates(deps) ==
    {n \in SaturatedDependencies(deps) : deps[n].utilization.value > deps[n].utilizationThreshold}

RootCandidates(deps) ==
    {n \in SaturatedDependencies(deps) : ~ExplainedByDownstream(deps, n)}

\* Everything Analyze checks of the target before it looks at a dependency.
TargetMeasured(s) ==
    /\ finiteNonnegative(s.slo)
    /\ usable(s.p95) /\ usable(s.hottest) /\ usable(s.serving)
    /\ EffectiveReplicaCountOK(s.serving, s.ready)
    /\ s.ready > 0
    /\ s.safe > 0 /\ s.limit >= s.safe

DependencyMeasured(d) ==
    /\ usable(d.latency) /\ usable(d.utilization)
    /\ finiteNonnegative(d.latencyThreshold)
    /\ finiteNonnegative(d.utilizationThreshold)

TargetLocallySaturated(s) == s.hottest.value >= s.safe

\* The root that a lone candidate names, by what may be done about it.
Attribution(deps, n) ==
    Analysis(IF deps[n].scalable THEN "DEPENDENCY_SATURATED" ELSE "CAPACITY_BLOCKED", n)

Analyze(s) ==
    LET roots == RootCandidates(s.deps)
    IN  IF \/ ~TargetMeasured(s)
           \/ \E n \in DOMAIN s.deps : ~DependencyMeasured(s.deps[n])
          THEN uncertain
        ELSE IF s.p95.value <= s.slo
          THEN Analysis("HEALTHY", "target")
        ELSE IF TargetLocallySaturated(s)
          THEN Analysis("TARGET_SATURATED", "target")
        ELSE IF Cardinality(roots) = 1
          THEN Attribution(s.deps, CHOOSE n \in roots : TRUE)
        ELSE uncertain

=============================================================================
