----------------------------- MODULE MCReadiness -----------------------------
(***************************************************************************)
(* Instances of Readiness for TLC.                                         *)
(***************************************************************************)
EXTENDS Readiness, TLC

Symmetry == Permutations(PodNames) \union Permutations(Revisions)

CONSTANTS
    FleetClock      \* bound: the last tick with two Pods

\* Bound: rollouts and the later ticks are for one Pod at a time, two Pods at a time
\* for the first revision and the first ticks.
FewPodsOrFewRollouts ==
    \/ Cardinality({p \in PodNames : pods[p] # NoPod}) < 2
    \/ rollouts = 0 /\ clock <= FleetClock

=============================================================================
