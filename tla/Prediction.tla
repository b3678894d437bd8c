----------------------------- MODULE Prediction -----------------------------
(***************************************************************************)
(* Predictive pre-scaling of one target (evaluatePrediction in             *)
(* internal/controller/prediction.go), from one reconcile to the next: the *)
(* decision pipeline (CapacityDecision) fed from the predictor's memory    *)
(* (PredictionHistory), which the same reconcile extends.                  *)
(*                                                                         *)
(* A reading is everything a reconcile observes: the telemetry of          *)
(* CapacityDecision, the rates of requests and of errors, the predictive   *)
(* demand, the lead time resolveReadinessLead offers (Readiness models     *)
(* where it comes from) and the replicas of the dependencies.  Readings    *)
(* are free: what the Pods and Prometheus do between two reconciles is not *)
(* assumed.  The resource can be edited to another query or target and the *)
(* process restarted at any time.                                          *)
(***************************************************************************)
EXTENDS CapacityDecision, PredictionHistory

CONSTANTS
    spec,           \* the resource: CapacityDecision's fields and
                    \*   window    predictiveDemandWindowSeconds, in ticks
                    \*   margin    safeCapacityMargin, in percent
                    \*   maxError  maxErrorRate, in percent
    Readings,       \* what a reconcile may observe: records [telemetry, requests,
                    \* errors, demand, lead, replicas]
    Interval,       \* reconcileInterval (15 s)
    MaxDisturbances \* bound: edits and restarts of one behavior

\* No Pod's lead time is known.
NoLead == -1

VARIABLES
    replicas,       \* spec.replicas of the target
    lastScale,      \* status.lastScaleTime
    decision,       \* of the last reconcile
    edited,         \* history: when the query or the target was last changed
    disturbances,   \* edits and restarts so far
    unserved,       \* history: replicas added by prescales since every requested
                    \* replica was last seen serving
    planned         \* history: the horizon the last decision was planned over; 0
                    \* where it had none

predictionVars ==
    <<vars, replicas, lastScale, decision, edited, disturbances, unserved, planned>>

NoDecision == [action |-> "HOLD", component |-> "target", current |-> 0, desired |-> 0]

PredictionInit ==
    /\ Init
    /\ replicas = spec.min
    /\ lastScale = Never
    /\ decision = NoDecision
    /\ edited = clock /\ disturbances = 0
    /\ unserved = 0 /\ planned = 0

-----------------------------------------------------------------------------
\* What evaluatePrediction computes.

\* The horizon covers the lead time, the wait for the next reconcile and the age
\* of a rate over the demand window; zero where there is no lead time.
PlanningHorizon(lead) ==
    IF lead = NoLead THEN 0 ELSE lead + Interval + spec.window \div 2

\* One second, for a trend that is only reported.
FallbackHorizon == 1

\* Complete rates, and few enough errors.
RatesComplete(rates) == usable(rates.requests) /\ usable(rates.successful) /\ usable(rates.errors)

ErrorRateHealthy(rates) ==
    /\ usable(rates.errors)
    /\ 100 * rates.errors.value <= spec.maxError * rates.requests.value

\* capacitySampleEligibility: a healthy target whose requested replicas all serve,
\* loaded to at least 30% of the safe occupancy on average and nowhere beyond it.
CapacitySampleEligible(s, pods, analysis, rates, aggregate, current) ==
    /\ analysis.class = "HEALTHY"
    /\ dependenciesHealthy(s.deps)
    /\ usable(s.hottest) /\ s.safe > 0
    /\ usable(aggregate) /\ aggregate.value > 0
    /\ s.hottest.value < s.safe
    /\ RatesComplete(rates) /\ ErrorRateHealthy(rates)
    /\ CapacityRealized(s, pods, current)
    /\ 10 * aggregate.value >= 3 * s.safe * EffectiveReplicaCount(s.serving)

\* Successful requests per second and held slot.
Efficiency(rates, aggregate) == (rates.successful.value * Unit) \div aggregate.value

\* Mutant: the capacity of the target is that of one replica.
MutRealizedCapacity(history, serving) == SafePerReplicaCapacity(history, spec.limit, spec.margin)

\* Safe capacity of the serving replicas, in 1/(100 * Unit) requests per second.
RealizedCapacity(history, serving) ==
    SafePerReplicaCapacity(history, spec.limit, spec.margin) * serving

\* The evidence the policy weighs (Policy.EvaluatePrescale): rate and capacity are
\* brought to the denominator of the trend's rate.
Evidence(s, pods, rates, demand, eligible, horizon, forecast, history) ==
    LET known == CapacityKnown(history, spec.limit, spec.margin)
    IN  [telemetry |-> RatesComplete(rates),
         demand    |-> usable(demand),
         errors    |-> ErrorRateHealthy(rates),
         rejected  |-> \/ ~eligible \/ ~known \/ ~usable(demand) \/ horizon = 0
                       \/ pods < 1
                       \/ forecast.quality # "HIGH" \/ ~forecast.hasRate \/ ~forecast.hasTrend,
         quality   |-> forecast.quality,
         horizon   |-> horizon,
         rate      |-> 100 * Unit * forecast.rate,
         capacity  |-> IF known /\ EffectiveReplicaCountOK(s.serving, pods)
                       THEN RealizedCapacity(history, EffectiveReplicaCount(s.serving)) * forecast.per
                       ELSE 0,
         slope     |-> forecast.slope]

SampleIf(measured, at, v) == IF measured THEN [at |-> at, value |-> v] ELSE NoSample

\* Types, and the constants of PredictionHistory cover what reconciles bring.
\* Efficiencies are whole numbers.
ASSUME PredictionAssumption ==
    /\ Keys = {1}
    /\ validateSpec(spec) /\ spec.prediction
    /\ spec.min \in Nat /\ spec.max \in Nat /\ spec.up \in Nat
    /\ spec.window \in Nat \ {0} /\ spec.margin \in 1..100 /\ spec.maxError \in 0..100
    /\ Interval \in Nat /\ MaxDisturbances \in Nat
    /\ FallbackHorizon \in Horizons
    /\ \A reading \in Readings :
          LET rates     == DeriveRequestRates(reading.requests, reading.errors)
              aggregate == reading.telemetry.aggregate
          IN  /\ reading.telemetry.serving.value \in Int
              /\ reading.lead \in Nat \union {NoLead}
              /\ reading.lead # NoLead => PlanningHorizon(reading.lead) \in Horizons
              /\ usable(reading.demand) => reading.demand.value \in DemandRates
              /\ usable(rates.successful) /\ usable(aggregate) /\ aggregate.value > 0 =>
                    /\ (rates.successful.value * Unit) % aggregate.value = 0
                    /\ Efficiency(rates, aggregate) \in Efficiencies \union {0}

-----------------------------------------------------------------------------
\* One reconcile with a reading: the memory is extended, then the decision taken
\* and carried out (Reconciler models the writes and how they fail).  Both samples
\* carry the times their own metrics were observed at.
Reconcile(reading, demandLag, capacityLag) ==
    LET read     == [c \in Components(spec) |->
                        IF c = "target" THEN replicas ELSE reading.replicas[c]]
        pods     == reading.telemetry.pods
        s        == Snapshot(spec, reading.telemetry, read)
        analysis == Analyze(s)
        rates    == DeriveRequestRates(reading.requests, reading.errors)
        demand   == reading.demand
        eligible == CapacitySampleEligible(s, pods, analysis, rates, reading.telemetry.aggregate,
                                           replicas)
        horizon  == PlanningHorizon(reading.lead)
    IN  /\ Update(1, SampleIf(usable(demand), clock + demandLag, demand.value),
                  SampleIf(eligible, clock + capacityLag,
                           Efficiency(rates, reading.telemetry.aggregate)),
                  IF horizon > 0 THEN horizon ELSE FallbackHorizon)
        /\ decision' = Decide(spec, reading.telemetry, read,
                              Evidence(s, pods, rates, demand, eligible, horizon, trend',
                                       histories'[1].capacity),
                              lastScale, clock)
        /\ replicas' = IF Writes(decision') /\ decision'.component = "target"
                       THEN decision'.desired ELSE replicas
        /\ lastScale' = IF Writes(decision') THEN clock ELSE lastScale
        /\ unserved' = (IF usable(s.serving) /\ s.serving.value >= Unit * replicas
                        THEN 0 ELSE unserved)
                       + (IF decision'.action = "PRESCALE_TARGET"
                          THEN decision'.desired - replicas ELSE 0)
        /\ planned' = horizon
        /\ UNCHANGED <<edited, disturbances>>

Disturb ==
    /\ disturbances < MaxDisturbances
    /\ disturbances' = disturbances + 1
    /\ decision' = NoDecision /\ planned' = 0

\* The resource names another query or another target: its key, and with it its
\* history, stays.
Edit ==
    /\ Disturb
    /\ edited' = clock
    /\ UNCHANGED <<vars, replicas, lastScale, unserved>>

ProcessRestart ==
    /\ Disturb
    /\ Restart
    /\ UNCHANGED <<replicas, lastScale, edited, unserved>>

TimePasses ==
    /\ Tick
    /\ decision' = NoDecision /\ planned' = 0
    /\ UNCHANGED <<replicas, lastScale, edited, disturbances, unserved>>

PredictionNext ==
    \/ \E reading \in Readings, demandLag \in Lags, capacityLag \in Lags :
          Reconcile(reading, demandLag, capacityLag)
    \/ Edit
    \/ ProcessRestart
    \/ TimePasses

PredictionSpec == PredictionInit /\ [][PredictionNext]_predictionVars

-----------------------------------------------------------------------------
Prescales == decision.action = "PRESCALE_TARGET"

\* Forecasts never run ahead of the Pods: until every requested replica has been
\* seen serving, prescales have added at most one step of maxScaleUpStep, however
\* the forecasts grow meanwhile (capacityEvidenceValid, prediction.go:208).
OneStepAhead == unserved <= spec.up

\* Who looks ahead has looked back as far: before a prescale, this process has been
\* running for as long as the horizon it plans over - the lead time of the new replica,
\* the wait for the next reconcile and half the demand window - but for the lags of
\* the two observations.  A restarted process trusts no slope it has not seen itself,
\* however long a replica takes to become ready.
WatchedAsLongAsForecast ==
    Prescales =>
        /\ planned > 0
        /\ \E early, late \in Lags : clock + late - (started + early) >= planned

\* The forecast that prescales the target exceeds what all its requested replicas can
\* safely carry by the evidence held, not only those that happened to serve.
PrescaleIsNeeded ==
    Prescales =>
        100 * Unit * trend.rate
            > SafePerReplicaCapacity(histories[1].capacity, spec.limit, spec.margin)
                  * decision.current * trend.per

\* The history survives an edit of the query or of the target (its key is the
\* resource's name, prediction.go:160), so a forecast may join samples of two
\* queries; but not for longer than the fit window and the age its latest sample may
\* have, and a capacity estimate not for longer than the history window.
EvidenceIsCurrent ==
    Prescales =>
        LET fit == FitSamples(histories[1].demand)
        IN  /\ clock > edited + TrendFitWindow + MaximumSampleAge =>
                  \A i \in DOMAIN fit : fit[i].at > edited
            /\ clock > edited + HistoryWindow =>
                  \A i \in DOMAIN histories[1].capacity : histories[1].capacity[i].at > edited

=============================================================================
