---------------------------- MODULE Observation ----------------------------
(***************************************************************************)
(* The typed view of one Prometheus result (internal/observation) and the  *)
(* test that lets it into a decision.                                      *)
(*                                                                         *)
(* A reading is a record.  valid: the query answered.  fresh: its          *)
(* timestamp is neither older than two minutes nor more than thirty        *)
(* seconds ahead of the time the reconcile captured.  value: the number,   *)
(* an integer in units of 1/Unit, so that a count can fail to be whole.    *)
(* A negative value stands for every number the code calls not finite or   *)
(* negative.  The error text and the timestamp are left out: a timestamp   *)
(* is missing exactly when the query failed.                               *)
(***************************************************************************)
EXTENDS Integers

\* Readings count in halves: one whole replica or slot is Unit.
Unit == 2

\* Every reading over a set of values, with the two ways a reading is degraded.
Metric(Values) == [valid : {TRUE}, fresh : BOOLEAN, value : Values]
                    \union [valid : {FALSE}, fresh : {FALSE}, value : {0}]

\* What a failed query leaves: the zero Metric.
InvalidMetric == [valid |-> FALSE, fresh |-> FALSE, value |-> 0]

finiteNonnegative(v) == v >= 0

\* Valid, fresh, and a number a decision may compare.
usable(m) == m.valid /\ m.fresh /\ finiteNonnegative(m.value)

\* EffectiveReplicaCount returns an error unless the serving count is a usable
\* whole number no larger than the Ready replicas Kubernetes reports.
EffectiveReplicaCountOK(m, ready) ==
    usable(m) /\ m.value % Unit = 0 /\ m.value \div Unit <= ready

\* The count itself, where EffectiveReplicaCount returns no error.
EffectiveReplicaCount(m) == m.value \div Unit

\* validateRate and rateUsable: what a rate is worth to a derivation.
validateRate(m) == IF usable(m) THEN m ELSE InvalidMetric

Derived(v) == [valid |-> TRUE, fresh |-> TRUE, value |-> v]

\* Successful throughput and the share of errors, of two counters' rates read one
\* after the other.  The share is errors.value of requests.value; there is none
\* without traffic, and neither where the errors exceed the total.
DeriveRequestRates(total, errors) ==
    LET rate == validateRate(total)
        bad  == validateRate(errors)
        pair == usable(rate) /\ usable(bad) /\ bad.value <= rate.value
    IN  [requests   |-> rate,
         successful |-> IF pair THEN Derived(rate.value - bad.value) ELSE InvalidMetric,
         errors     |-> IF pair /\ rate.value > 0 THEN Derived(bad.value) ELSE InvalidMetric]

=============================================================================
