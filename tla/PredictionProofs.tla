-------------------------- MODULE PredictionProofs --------------------------
(***************************************************************************)
(* Theorems about predictive pre-scaling, for every resource, every set of *)
(* readings, window, span, lag and horizon, and their proofs: what a       *)
(* prescale rests on, and that the predictor's memory as the reconciles    *)
(* drive it is the memory PredictionHistoryProofs is about.                *)
(***************************************************************************)
EXTENDS Prediction, PredictionHistoryProofs

-----------------------------------------------------------------------------
\* Decisions.

\* Every decision of the reactive policy is a record that is no prescale, and with
\* a healthy target it keeps the target as it is.
LEMMA ReactiveFacts ==
    ASSUME NEW in
    PROVE  /\ DOMAIN EvaluateCapacity(in) = {"action", "component", "current", "desired"}
           /\ EvaluateCapacity(in).action # "PRESCALE_TARGET"
           /\ in.analysis.class = "HEALTHY" => EvaluateCapacity(in).current = in.target.current
<1> DEFINE F(r) == /\ DOMAIN r = {"action", "component", "current", "desired"}
                   /\ r.action # "PRESCALE_TARGET"
<1>1. ASSUME NEW a, NEW c, NEW d, a # "PRESCALE_TARGET"
      PROVE  F(Decision(a, c, d)) /\ Decision(a, c, d).current = c.current
  BY <1>1 DEF Decision
<1> HIDE DEF F
<1>2. ASSUME NEW a, NEW c, a # "PRESCALE_TARGET"
      PROVE  F(Keep(a, c)) /\ Keep(a, c).current = c.current
  <2>1. Keep(a, c) = Decision(a, c, c.current)
    BY Zenon DEF Keep
  <2>2. F(Decision(a, c, c.current)) /\ Decision(a, c, c.current).current = c.current
    BY <1>1, <1>2
  <2> QED
    BY <2>1, <2>2
<1>3. /\ \A c : /\ F(Keep("HOLD", c)) /\ Keep("HOLD", c).current = c.current
                /\ F(Keep("PROTECTED_MODE", c)) /\ Keep("PROTECTED_MODE", c).current = c.current
      /\ \A c, d : F(Decision("SCALE_TARGET", c, d)) /\ F(Decision("SCALE_DEPENDENCY", c, d))
  <2>1. /\ "HOLD" # "PRESCALE_TARGET" /\ "PROTECTED_MODE" # "PRESCALE_TARGET"
        /\ "SCALE_TARGET" # "PRESCALE_TARGET" /\ "SCALE_DEPENDENCY" # "PRESCALE_TARGET"
    OBVIOUS
  <2> QED
    BY <1>1, <1>2, <2>1
<1>4. F(EvaluateCapacity(in))
  BY <1>3, Zenon DEF EvaluateCapacity
<1>5. in.analysis.class = "HEALTHY" => EvaluateCapacity(in).current = in.target.current
  <2>1. SUFFICES ASSUME in.analysis.class = "HEALTHY"
                 PROVE  EvaluateCapacity(in).current = in.target.current
    OBVIOUS
  <2>2. in.analysis.class # "UNCERTAIN" /\ in.analysis.class # "CAPACITY_BLOCKED"
    BY <2>1
  <2>3. \/ EvaluateCapacity(in) = Keep("PROTECTED_MODE", in.target)
        \/ EvaluateCapacity(in) = Keep("HOLD", in.target)
    BY <2>1, <2>2, Zenon DEF EvaluateCapacity
  <2> QED
    BY <1>3, <2>3
<1> QED
  BY <1>4, <1>5 DEF F

\* EvaluatePrescale prescales a healthy target only, on evidence it has seen pass
\* every test, by one step.
LEMMA PrescaleFacts ==
    ASSUME NEW in, DOMAIN in.decision = {"action", "component", "current", "desired"},
           in.decision.action # "PRESCALE_TARGET",
           EvaluatePrescale(in).action = "PRESCALE_TARGET"
    PROVE  /\ in.class = "HEALTHY"
           /\ ForecastTrusted(in)
           /\ in.forecast.rate > in.forecast.capacity
           /\ EvaluatePrescale(in).current = in.target.current
           /\ EvaluatePrescale(in).desired = StepUp(in.target, in.up)
<1> DEFINE reject == [in.decision EXCEPT !.desired = in.decision.current]
           P == /\ ForecastTrusted(in)
                /\ ~CooldownActive(in)
                /\ in.forecast.rate > in.forecast.capacity
                /\ validateComponent(in.target, in.up, 1)
                /\ StepUp(in.target, in.up) # in.target.current
           step == Decision("PRESCALE_TARGET", in.target, StepUp(in.target, in.up))
<1>1. reject.action = in.decision.action
  OBVIOUS
<1>2. EvaluatePrescale(in) = IF in.decision.action # "HOLD" \/ in.class # "HEALTHY"
                               THEN in.decision ELSE IF P THEN step ELSE reject
  BY Zenon DEF EvaluatePrescale
<1>3. step.current = in.target.current /\ step.desired = StepUp(in.target, in.up)
  BY DEF Decision
<1> HIDE DEF reject, step, P
<1>4. in.class = "HEALTHY" /\ P /\ EvaluatePrescale(in) = step
  BY <1>1, <1>2
<1> QED
  BY <1>3, <1>4 DEF P

\* A reconcile prescales only where every requested replica serves and the forecast
\* is trusted and exceeds the capacity; it orders one step.
LEMMA DecideFacts ==
    ASSUME NEW sp, NEW t, NEW read, NEW f, NEW last, NEW now,
           Decide(sp, t, read, f, last, now).action = "PRESCALE_TARGET"
    PROVE  /\ CapacityRealized(Snapshot(sp, t, read), t.pods, read["target"])
           /\ f.quality = "HIGH" /\ f.horizon > 0
           /\ f.capacity > 0 /\ f.rate > f.capacity
           /\ Decide(sp, t, read, f, last, now).current = read["target"]
           /\ Decide(sp, t, read, f, last, now).desired
                = StepUp(TargetInput(sp, read["target"]), sp.up)
<1> DEFINE s        == Snapshot(sp, t, read)
           analysis == Analyze(s)
           in       == [analysis  |-> analysis,
                        target    |-> TargetInput(sp, read["target"]),
                        deps      |-> [n \in DOMAIN sp.deps |-> DependencyInput(sp, read, n)],
                        up        |-> sp.up,
                        down      |-> 1,
                        cooldown  |-> sp.cooldown,
                        lastScale |-> last,
                        now       |-> now]
           reactive == EvaluateCapacity(in)
           pre      == [decision    |-> reactive,
                        class       |-> analysis.class,
                        forecast    |-> f,
                        healthy     |-> dependenciesHealthy(s.deps),
                        unsaturated |-> usable(s.hottest) /\ s.hottest.value < s.safe,
                        realized    |-> CapacityRealized(s, t.pods, read["target"]),
                        target      |-> TargetInput(sp, reactive.current),
                        up          |-> sp.up,
                        cooldown    |-> sp.cooldown,
                        lastScale   |-> last,
                        now         |-> now]
           final    == IF ~sp.prediction THEN reactive ELSE EvaluatePrescale(pre)
<1>1. Decide(sp, t, read, f, last, now) = holdTargetScaleForUnrealizedCapacity(final, s, read["target"])
  BY Zenon DEF Decide, ReactiveDecision, PredictedDecision
<1>2. /\ in.analysis = analysis
      /\ in.target = TargetInput(sp, read["target"])
  OBVIOUS
<1>3. /\ DOMAIN reactive = {"action", "component", "current", "desired"}
      /\ reactive.action # "PRESCALE_TARGET"
      /\ analysis.class = "HEALTHY" => reactive.current = in.target.current
  <2> HIDE DEF in
  <2> QED
    BY <1>2, ReactiveFacts
<1>4. in.target.current = read["target"]
  BY <1>2 DEF TargetInput
<1> HIDE DEF in, analysis, s
<1>5. /\ pre.decision = reactive /\ pre.class = analysis.class /\ pre.forecast = f
      /\ pre.realized = CapacityRealized(s, t.pods, read["target"])
      /\ pre.target = TargetInput(sp, reactive.current) /\ pre.up = sp.up
  OBVIOUS
<1> HIDE DEF reactive, pre
<1>6. /\ Decide(sp, t, read, f, last, now) = final
      /\ final.action = "PRESCALE_TARGET"
  <2> HIDE DEF final
  <2>1. CASE /\ targetCapacityRealizationPending(s)
             /\ final.component = "target"
             /\ final.action \in {"SCALE_TARGET", "PRESCALE_TARGET"}
    <3> DEFINE held == [final EXCEPT !.action = "HOLD", !.current = read["target"],
                                     !.desired = read["target"]]
    <3>1. Decide(sp, t, read, f, last, now) = held
      BY <1>1, <2>1 DEF holdTargetScaleForUnrealizedCapacity
    <3>2. held.action # "PRESCALE_TARGET"
      OBVIOUS
    <3> QED
      BY <3>1, <3>2
  <2>2. CASE ~(/\ targetCapacityRealizationPending(s)
               /\ final.component = "target"
               /\ final.action \in {"SCALE_TARGET", "PRESCALE_TARGET"})
    BY <1>1, <2>2 DEF holdTargetScaleForUnrealizedCapacity
  <2> QED
    BY <2>1, <2>2
<1>7. final = EvaluatePrescale(pre)
  BY <1>3, <1>6
<1>8. /\ pre.class = "HEALTHY"
      /\ ForecastTrusted(pre)
      /\ pre.forecast.rate > pre.forecast.capacity
      /\ final.current = pre.target.current
      /\ final.desired = StepUp(pre.target, pre.up)
  BY <1>3, <1>5, <1>6, <1>7, PrescaleFacts
<1>9. reactive.current = read["target"]
  BY <1>3, <1>4, <1>5, <1>8
<1>10. pre.target.current = read["target"]
  BY <1>5, <1>9 DEF TargetInput
<1>11. pre.realized /\ pre.forecast.quality = "HIGH" /\ pre.forecast.horizon > 0
       /\ pre.forecast.capacity > 0
  BY <1>8 DEF ForecastTrusted
<1> QED
  BY <1>5, <1>6, <1>8, <1>9, <1>10, <1>11 DEF s

\* A step up adds no more than up, also where the sum wraps.
LEMMA StepFacts ==
    ASSUME NEW c, NEW up \in Int, c.current \in Int, c.max \in Int
    PROVE  StepUp(c, up) \in Int /\ StepUp(c, up) - c.current <= up
<1>1. Add32(c.current, up) \in Int /\ Add32(c.current, up) <= c.current + up
  BY MaxIntAssumption DEF Add32
<1> QED
  BY <1>1 DEF StepUp

-----------------------------------------------------------------------------
\* Reconciles.

\* A sample of value zero is no capacity sample: it leaves the history as none does.
LEMMA ZeroIsNoSample ==
    ASSUME NEW h, NEW at, NEW now
    PROVE  AppendSample(h, [at |-> at, value |-> 0], now, CapacityFloor)
             = AppendSample(h, NoSample, now, CapacityFloor)
<1>1. ~Acceptable([at |-> at, value |-> 0], now, CapacityFloor)
  <2>1. [at |-> at, value |-> 0].value = 0 /\ ~(0 >= 1)
    OBVIOUS
  <2> QED
    BY <2>1 DEF Acceptable, CapacityFloor
<1>2. ~Acceptable(NoSample, now, CapacityFloor)
  BY DEF Acceptable
<1> QED
  BY <1>1, <1>2, Zenon DEF AppendSample

\* The demand sample and the horizon a reading brings, and its snapshot.
DemandSample(reading, lag) == SampleIf(usable(reading.demand), clock + lag, reading.demand.value)

PlannedHorizon(reading) ==
    IF PlanningHorizon(reading.lead) > 0 THEN PlanningHorizon(reading.lead) ELSE FallbackHorizon

ReadReplicas(reading) ==
    [c \in Components(spec) |-> IF c = "target" THEN replicas ELSE reading.replicas[c]]

SnapshotOf(reading) == Snapshot(spec, reading.telemetry, ReadReplicas(reading))

\* A reconcile is an update of the memory with samples of the constants of
\* PredictionHistory.
LEMMA ReconcileUpdates ==
    ASSUME NEW reading \in Readings, NEW lag \in Lags, NEW capacityLag \in Lags,
           Reconcile(reading, lag, capacityLag)
    PROVE  /\ DemandSample(reading, lag) \in Samples(DemandRates)
           /\ PlannedHorizon(reading) \in Horizons
           /\ \E capacity \in Samples(Efficiencies) :
                 Update(1, DemandSample(reading, lag), capacity, PlannedHorizon(reading))
<1> DEFINE rates     == DeriveRequestRates(reading.requests, reading.errors)
           aggregate == reading.telemetry.aggregate
           pods      == reading.telemetry.pods
           analysis  == Analyze(SnapshotOf(reading))
           eligible  == CapacitySampleEligible(SnapshotOf(reading), pods, analysis, rates,
                                               aggregate, replicas)
           sample    == SampleIf(eligible, clock + capacityLag, Efficiency(rates, aggregate))
<1>1. Update(1, DemandSample(reading, lag), sample, PlannedHorizon(reading))
  BY DEF Reconcile, DemandSample, PlannedHorizon, SnapshotOf, ReadReplicas
<1>2. /\ reading.lead # NoLead => PlanningHorizon(reading.lead) \in Horizons
      /\ FallbackHorizon \in Horizons
      /\ usable(reading.demand) => reading.demand.value \in DemandRates
      /\ usable(rates.successful) /\ usable(aggregate) /\ aggregate.value > 0 =>
            Efficiency(rates, aggregate) \in Efficiencies \union {0}
  BY PredictionAssumption
<1>3. PlannedHorizon(reading) \in Horizons
  <2>1. CASE reading.lead = NoLead
    <3>1. ~(PlanningHorizon(reading.lead) > 0)
      BY <2>1 DEF PlanningHorizon
    <3> QED
      BY <1>2, <3>1 DEF PlannedHorizon
  <2>2. CASE reading.lead # NoLead
    BY <1>2, <2>2 DEF PlannedHorizon
  <2> QED
    BY <2>1, <2>2
<1>4. DemandSample(reading, lag) \in Samples(DemandRates)
  BY <1>2 DEF DemandSample, SampleIf, Samples
<1>5. eligible => usable(rates.successful) /\ usable(aggregate) /\ aggregate.value > 0
  BY DEF CapacitySampleEligible, RatesComplete
<1> HIDE DEF eligible, rates, aggregate
<1>6. CASE eligible /\ Efficiency(rates, aggregate) \in Efficiencies
  <2>1. sample \in Samples(Efficiencies)
    BY <1>6 DEF SampleIf, Samples
  <2> QED
    BY <1>1, <1>3, <1>4, <2>1
<1>7. CASE ~eligible
  <2>1. sample = NoSample /\ NoSample \in Samples(Efficiencies)
    BY <1>7 DEF SampleIf, Samples
  <2> QED
    BY <1>1, <1>3, <1>4, <2>1
<1>8. CASE eligible /\ Efficiency(rates, aggregate) = 0
  <2>1. sample = [at |-> clock + capacityLag, value |-> 0]
    BY <1>8 DEF SampleIf
  <2>2. \A h : AppendSample(h, sample, clock, CapacityFloor)
                 = AppendSample(h, NoSample, clock, CapacityFloor)
    BY <2>1, ZeroIsNoSample
  <2> HIDE DEF sample
  <2>3. Update(1, DemandSample(reading, lag), NoSample, PlannedHorizon(reading))
    BY <1>1, <2>2, Zenon DEF Update
  <2>4. NoSample \in Samples(Efficiencies)
    BY DEF Samples
  <2> QED
    BY <1>3, <1>4, <2>3, <2>4
<1> QED
  BY <1>2, <1>5, <1>6, <1>7, <1>8

\* What a prescale rests on, in terms of the memory the reconcile leaves.
LEMMA PrescaleRests ==
    ASSUME NEW reading \in Readings, NEW lag \in Lags, NEW capacityLag \in Lags,
           Reconcile(reading, lag, capacityLag),
           decision'.action = "PRESCALE_TARGET"
    PROVE  /\ trend'.quality = "HIGH"
           /\ PlannedHorizon(reading) = PlanningHorizon(reading.lead)
           /\ PlanningHorizon(reading.lead) > 0
           /\ reading.telemetry.serving.value = Unit * replicas
           /\ usable(reading.telemetry.serving)
           /\ replicas \in Int
           /\ decision'.current = replicas
           /\ decision'.desired = StepUp(TargetInput(spec, replicas), spec.up)
           /\ 100 * Unit * trend'.rate
                > (SafePerReplicaCapacity(histories'[1].capacity, spec.limit, spec.margin)
                     * replicas) * trend'.per
<1> DEFINE rates     == DeriveRequestRates(reading.requests, reading.errors)
           aggregate == reading.telemetry.aggregate
           pods      == reading.telemetry.pods
           s         == SnapshotOf(reading)
           eligible  == CapacitySampleEligible(s, pods, Analyze(s), rates, aggregate, replicas)
           horizon   == PlanningHorizon(reading.lead)
           known     == CapacityKnown(histories'[1].capacity, spec.limit, spec.margin)
           f         == Evidence(s, pods, rates, reading.demand, eligible, horizon, trend',
                                 histories'[1].capacity)
<1>1. decision' = Decide(spec, reading.telemetry, ReadReplicas(reading), f, lastScale, clock)
  BY DEF Reconcile, SnapshotOf, ReadReplicas
<1>2. ReadReplicas(reading)["target"] = replicas
  BY DEF ReadReplicas, Components
<1>3. /\ f.quality = trend'.quality
      /\ f.horizon = horizon
      /\ f.rate = 100 * Unit * trend'.rate
      /\ f.capacity = IF known /\ EffectiveReplicaCountOK(s.serving, pods)
                      THEN RealizedCapacity(histories'[1].capacity, EffectiveReplicaCount(s.serving))
                             * trend'.per
                      ELSE 0
  BY DEF Evidence
<1>4. s.serving = reading.telemetry.serving
  BY DEF SnapshotOf, Snapshot
<1>5. s = Snapshot(spec, reading.telemetry, ReadReplicas(reading))
  BY DEF SnapshotOf
<1> HIDE DEF f, s, known
<1>6. /\ CapacityRealized(s, pods, replicas)
      /\ f.quality = "HIGH" /\ f.horizon > 0
      /\ f.capacity > 0 /\ f.rate > f.capacity
      /\ decision'.current = replicas
      /\ decision'.desired = StepUp(TargetInput(spec, replicas), spec.up)
  BY <1>1, <1>2, <1>5, DecideFacts
<1>7. /\ EffectiveReplicaCountOK(s.serving, pods)
      /\ EffectiveReplicaCount(s.serving) = replicas
  BY <1>6 DEF CapacityRealized
<1>8. /\ usable(reading.telemetry.serving)
      /\ reading.telemetry.serving.value % Unit = 0
      /\ reading.telemetry.serving.value \div Unit = replicas
      /\ reading.telemetry.serving.value \in Int
  BY <1>4, <1>7, PredictionAssumption DEF EffectiveReplicaCountOK, EffectiveReplicaCount
<1>9. reading.telemetry.serving.value = Unit * replicas /\ replicas \in Int
  BY <1>8 DEF Unit
<1>10. f.capacity = RealizedCapacity(histories'[1].capacity, replicas) * trend'.per
  <2>1. known
    <3>1. SUFFICES ASSUME ~known PROVE FALSE
      OBVIOUS
    <3>2. f.capacity = 0 /\ ~(0 > 0)
      BY <1>3, <3>1
    <3> QED
      BY <1>6, <3>2
  <2> QED
    BY <1>3, <1>7, <2>1
<1>11. f.capacity = (SafePerReplicaCapacity(histories'[1].capacity, spec.limit, spec.margin)
                       * replicas) * trend'.per
  BY <1>10 DEF RealizedCapacity
<1>12. horizon > 0 /\ PlannedHorizon(reading) = horizon
  BY <1>3, <1>6 DEF PlannedHorizon
<1> QED
  BY <1>3, <1>6, <1>8, <1>9, <1>11, <1>12

-----------------------------------------------------------------------------
\* The inductive invariant: the memory's own, and what prescales rest on.
PInv ==
    /\ IInv
    /\ edited \in Int /\ unserved \in Int
    /\ OneStepAhead /\ WatchedAsLongAsForecast /\ PrescaleIsNeeded /\ EvidenceIsCurrent

\* A step that does not reconcile leaves no prescale behind.
LEMMA NoPrescale ==
    ASSUME NEW d, d = NoDecision
    PROVE  d.action # "PRESCALE_TARGET"
<1> QED
  BY DEF NoDecision

\* The fitted samples are as recent as the window and the age of the latest allow.
LEMMA FitIsRecent ==
    ASSUME NEW h \in Seq(SampleType), InOrder(h), NEW now \in Int, NEW horizon,
           Fittable(FitSamples(h), now, horizon)
    PROVE  \A i \in DOMAIN FitSamples(h) :
              FitSamples(h)[i].at >= now - MaximumSampleAge - TrendFitWindow
<1> DEFINE fit == FitSamples(h)
           P == {i \in DOMAIN h : h[i].at >= h[Len(h)].at - TrendFitWindow}
<1>1. fit = Subsequence(h, P) /\ P \subseteq DOMAIN h
  BY DEF FitSamples
<1>2. \A i \in P : h[i].at >= h[Len(h)].at - TrendFitWindow
  OBVIOUS
<1> HIDE DEF P
<1>3. /\ Cardinality(P) \in Nat /\ fit \in Seq(SampleType) /\ Len(fit) = Cardinality(P)
      /\ \A j \in 1..Cardinality(P) : Nth(P, j) \in P /\ fit[j] = h[Nth(P, j)]
  BY <1>1, SubsequenceFacts
<1>4. now - fit[Len(fit)].at <= MaximumSampleAge /\ Len(fit) >= MinimumSamples
  BY DEF Fittable
<1> HIDE DEF fit
<1>5. /\ MinimumSamples \in Nat /\ MinimumSamples > 1
      /\ MaximumSampleAge \in Nat /\ TrendFitWindow \in Nat
  BY ForecastAssumption
<1>6. Len(fit) \in 1..Cardinality(P)
  BY <1>3, <1>4, <1>5
<1>7. PICK p \in P : fit[Len(fit)] = h[p]
  BY <1>3, <1>6
<1>8. p \in 1..Len(h) /\ Len(h) \in Nat
  BY <1>1
<1>9. h[p] \in SampleType /\ h[Len(h)] \in SampleType
  BY <1>8
<1>10. h[p].at \in Int /\ h[Len(h)].at \in Int
  BY <1>9 DEF SampleType
<1>11. h[p].at <= h[Len(h)].at
  <2>1. CASE p = Len(h)
    BY <1>10, <2>1
  <2>2. CASE p < Len(h)
    <3>1. p \in DOMAIN h /\ Len(h) \in DOMAIN h
      BY <1>8
    <3> QED
      BY <1>10, <2>2, <3>1 DEF InOrder
  <2> QED
    BY <1>8, <2>1, <2>2
<1>12. ASSUME NEW i \in DOMAIN fit
       PROVE  fit[i].at >= now - MaximumSampleAge - TrendFitWindow
  <2>1. i \in 1..Cardinality(P)
    BY <1>3
  <2>2. PICK k \in P : fit[i] = h[k]
    BY <1>3, <2>1
  <2>3. h[k] \in SampleType
    BY <1>1
  <2>4. h[k].at \in Int
    BY <2>3 DEF SampleType
  <2> DEFINE last == h[Len(h)].at
  <2> DEFINE at == h[p].at
             own == h[k].at
  <2>5. own >= last - TrendFitWindow /\ now - at <= MaximumSampleAge /\ at <= last
    <3>1. k \in P /\ fit[Len(fit)] = h[p]
      BY <1>7, <2>2
    <3>2. own >= last - TrendFitWindow
      BY <1>2, <3>1
    <3>3. now - at <= MaximumSampleAge
      BY <1>4, <3>1
    <3> QED
      BY <1>11, <3>2, <3>3
  <2>6. now \in Int /\ last \in Int /\ at \in Int /\ own \in Int
    BY <1>10, <2>4
  <2>7. fit[i].at = own
    BY <2>2
  <2> HIDE DEF last, at, own
  <2>8. own >= now - MaximumSampleAge - TrendFitWindow
    BY <1>5, <2>5, <2>6
  <2> QED
    BY <2>7, <2>8
<1> QED
  BY <1>12 DEF fit

\* A reconcile preserves the invariant.
LEMMA ReconcileInv ==
    ASSUME PInv, NEW reading \in Readings, NEW lag \in Lags, NEW capacityLag \in Lags,
           Reconcile(reading, lag, capacityLag)
    PROVE  PInv'
<1> DEFINE demand  == DemandSample(reading, lag)
           horizon == PlannedHorizon(reading)
<1>1. demand \in Samples(DemandRates) /\ horizon \in Horizons /\ 1 \in Keys
  BY ReconcileUpdates, PredictionAssumption
<1>2. PICK capacity \in Samples(Efficiencies) : Update(1, demand, capacity, horizon)
  BY ReconcileUpdates
<1> HIDE DEF demand, horizon
<1>3. IInv /\ IInv'
  BY <1>1, <1>2, UpdateInv DEF PInv
<1>4. /\ clock' = clock /\ started' = started
      /\ histories'[1].demand = NewDemand(1, demand)
      /\ histories'[1].capacity = NewCapacity(1, capacity)
      /\ trend' = LinearForecast(NewDemand(1, demand), clock, horizon)
  <2>1. Updated(1, demand, capacity, horizon)
    BY <1>2, UpdateFacts
  <2> QED
    BY <2>1 DEF Updated
<1>5. /\ edited' = edited
      /\ unserved' = (IF /\ usable(reading.telemetry.serving)
                         /\ reading.telemetry.serving.value >= Unit * replicas
                      THEN 0 ELSE unserved)
                     + (IF decision'.action = "PRESCALE_TARGET"
                        THEN decision'.desired - replicas ELSE 0)
  <2>1. SnapshotOf(reading).serving = reading.telemetry.serving
    BY DEF SnapshotOf, Snapshot
  <2> QED
    BY <2>1 DEF Reconcile, SnapshotOf, ReadReplicas
<1>6. edited' \in Int
  BY <1>5 DEF PInv
<1>7. spec.up \in Nat /\ spec.max \in Int
  BY PredictionAssumption
<1>8. CASE decision'.action # "PRESCALE_TARGET"
  <2>1. unserved' = 0 \/ unserved' = unserved
    BY <1>5, <1>8 DEF PInv
  <2>2. unserved' \in Int /\ unserved' <= spec.up
    BY <1>7, <2>1 DEF PInv, OneStepAhead
  <2>3. WatchedAsLongAsForecast' /\ PrescaleIsNeeded' /\ EvidenceIsCurrent'
    BY <1>8, Zenon DEF WatchedAsLongAsForecast, PrescaleIsNeeded, EvidenceIsCurrent, Prescales
  <2> QED
    BY <1>3, <1>6, <2>2, <2>3 DEF PInv, OneStepAhead
<1>9. CASE decision'.action = "PRESCALE_TARGET"
  <2>1. /\ trend'.quality = "HIGH"
        /\ horizon = PlanningHorizon(reading.lead) /\ horizon > 0
        /\ usable(reading.telemetry.serving)
        /\ reading.telemetry.serving.value = Unit * replicas /\ replicas \in Int
        /\ decision'.current = replicas
        /\ decision'.desired = StepUp(TargetInput(spec, replicas), spec.up)
    BY <1>9, PrescaleRests DEF horizon
  <2>2. unserved' \in Int /\ unserved' <= spec.up
    <3>1. reading.telemetry.serving.value >= Unit * replicas
      BY <2>1 DEF Unit
    <3>2. unserved' = 0 + (decision'.desired - replicas)
      BY <1>5, <1>9, <2>1, <3>1
    <3>3. /\ TargetInput(spec, replicas).current = replicas
          /\ TargetInput(spec, replicas).max = spec.max
      BY DEF TargetInput
    <3>4. decision'.desired \in Int /\ decision'.desired - replicas <= spec.up
      BY <1>7, <2>1, <3>3, StepFacts
    <3> QED
      BY <2>1, <3>2, <3>4
  <2>3. WatchedAsLongAsForecast'
    <3>1. PICK early \in Lags, late \in Lags : clock + late - (started + early) >= horizon
      BY <1>1, <1>3, <1>4, <2>1, HighIsWatched
    <3>2. planned' = PlanningHorizon(reading.lead)
      BY Zenon DEF Reconcile
    <3>3. planned' = horizon /\ planned' > 0
      BY <2>1, <3>2
    <3> QED
      BY <1>4, <3>1, <3>3 DEF WatchedAsLongAsForecast
  <2>4. PrescaleIsNeeded'
    <3>1. 100 * Unit * trend'.rate
            > (SafePerReplicaCapacity(histories'[1].capacity, spec.limit, spec.margin)
                 * decision'.current) * trend'.per
      BY <1>9, <2>1, PrescaleRests
    <3> QED
      BY <3>1, Zenon DEF PrescaleIsNeeded
  <2>5. EvidenceIsCurrent'
    <3> DEFINE d == NewDemand(1, demand)
               c == NewCapacity(1, capacity)
    <3>1. d \in Seq(SampleType) /\ InOrder(d)
      BY <1>1, <1>3, NewDemandFacts DEF Histories
    <3>2. c \in Seq(SampleType) /\ \A j \in DOMAIN c : Timely(c[j], clock)
      BY <1>1, <1>3, NewCapacityFacts DEF Histories
    <3>3. clock \in Int /\ edited \in Int
      BY <1>3 DEF PInv, IInv, TypeOK
    <3>4. Fittable(FitSamples(d), clock, horizon)
      BY <1>4, <2>1, HighIsFitted
    <3>5. FitSamples(d) \in Seq(SampleType)
      <4>1. {i \in DOMAIN d : d[i].at >= d[Len(d)].at - TrendFitWindow} \subseteq DOMAIN d
        OBVIOUS
      <4> HIDE DEF d
      <4> QED
        BY <3>1, <4>1, SubsequenceFacts DEF FitSamples
    <3> HIDE DEF d, c
    <3>6. HistoryWindow \in Nat /\ MaximumSampleAge \in Nat /\ TrendFitWindow \in Nat
      BY ForecastAssumption
    <3>7. ASSUME clock > edited + TrendFitWindow + MaximumSampleAge,
                 NEW i \in DOMAIN FitSamples(d)
          PROVE  FitSamples(d)[i].at > edited
      <4>1. FitSamples(d)[i].at >= clock - MaximumSampleAge - TrendFitWindow
        BY <3>1, <3>3, <3>4, FitIsRecent
      <4>2. FitSamples(d)[i] \in SampleType
        BY <3>5
      <4>3. FitSamples(d)[i].at \in Int
        BY <4>2 DEF SampleType
      <4> QED
        BY <3>3, <3>6, <3>7, <4>1, <4>3
    <3>8. ASSUME clock > edited + HistoryWindow, NEW i \in DOMAIN c
          PROVE  c[i].at > edited
      <4>1. c[i].at >= clock - HistoryWindow
        BY <3>2 DEF Timely
      <4>2. c[i] \in SampleType
        BY <3>2
      <4>3. c[i].at \in Int
        BY <4>2 DEF SampleType
      <4> QED
        BY <3>3, <3>6, <3>8, <4>1, <4>3
    <3>9. histories'[1].demand = d /\ histories'[1].capacity = c
      BY <1>4 DEF d, c
    <3> QED
      BY <1>4, <1>5, <3>7, <3>8, <3>9 DEF EvidenceIsCurrent
  <2> QED
    BY <1>3, <1>6, <2>2, <2>3, <2>4, <2>5 DEF PInv, OneStepAhead
<1> QED
  BY <1>8, <1>9

\* The first state satisfies the invariant.
LEMMA PredictionInitInv == PredictionInit => PInv
<1> SUFFICES ASSUME PredictionInit PROVE PInv
  OBVIOUS
<1>1. IInv
  BY InitInv DEF PredictionInit
<1>2. edited \in Int /\ unserved \in Int /\ unserved <= spec.up
  BY <1>1, PredictionAssumption DEF PredictionInit, IInv, TypeOK
<1>3. ~Prescales
  BY NoPrescale DEF PredictionInit, Prescales
<1> QED
  BY <1>1, <1>2, <1>3 DEF PInv, OneStepAhead, WatchedAsLongAsForecast, PrescaleIsNeeded,
                          EvidenceIsCurrent

\* A step without a reconcile preserves the invariant where it keeps the memory's.
LEMMA QuietInv ==
    ASSUME PInv, IInv', decision' = NoDecision, unserved' = unserved, edited' \in Int
    PROVE  PInv'
<1>1. ~Prescales'
  <2>1. decision'.action # "PRESCALE_TARGET"
    BY NoPrescale
  <2> QED
    BY <2>1 DEF Prescales
<1>2. WatchedAsLongAsForecast' /\ PrescaleIsNeeded' /\ EvidenceIsCurrent'
  BY <1>1, Zenon DEF WatchedAsLongAsForecast, PrescaleIsNeeded, EvidenceIsCurrent
<1> QED
  BY <1>2 DEF PInv, OneStepAhead

\* Every step is a step of the memory, or leaves it as it is.
LEMMA StepOfMemory ==
    ASSUME [PredictionNext]_predictionVars
    PROVE  [Next]_vars
<1>1. CASE \E reading \in Readings, lag \in Lags, capacityLag \in Lags :
               Reconcile(reading, lag, capacityLag)
  <2>1. PICK reading \in Readings, lag \in Lags, capacityLag \in Lags :
               Reconcile(reading, lag, capacityLag)
    BY <1>1
  <2>2. 1 \in Keys
    BY PredictionAssumption
  <2> QED
    BY <2>1, <2>2, ReconcileUpdates DEF Next
<1>2. CASE Edit
  BY <1>2 DEF Edit
<1>3. CASE ProcessRestart
  BY <1>3 DEF ProcessRestart, Next
<1>4. CASE TimePasses
  BY <1>4 DEF TimePasses, Next
<1>5. CASE UNCHANGED predictionVars
  BY <1>5 DEF predictionVars
<1> QED
  BY <1>1, <1>2, <1>3, <1>4, <1>5 DEF PredictionNext

\* Every step preserves the invariant.
LEMMA PredictionNextInv == PInv /\ [PredictionNext]_predictionVars => PInv'
<1> SUFFICES ASSUME PInv, [PredictionNext]_predictionVars PROVE PInv'
  OBVIOUS
<1>1. CASE \E reading \in Readings, lag \in Lags, capacityLag \in Lags :
               Reconcile(reading, lag, capacityLag)
  BY <1>1, ReconcileInv
<1>2. IInv'
  BY StepOfMemory, NextInv DEF PInv
<1>3. CASE Edit
  <2>1. edited' \in Int
    BY <1>3 DEF Edit, PInv, IInv, TypeOK
  <2> QED
    BY <1>2, <1>3, <2>1, QuietInv DEF Edit, Disturb
<1>4. CASE ProcessRestart
  BY <1>2, <1>4, QuietInv DEF ProcessRestart, Disturb, PInv
<1>5. CASE TimePasses
  BY <1>2, <1>5, QuietInv DEF TimePasses, PInv
<1>6. CASE UNCHANGED predictionVars
  BY <1>6, <1>2 DEF predictionVars, vars, PInv, OneStepAhead, WatchedAsLongAsForecast,
                    PrescaleIsNeeded, EvidenceIsCurrent, Prescales
<1> QED
  BY <1>1, <1>3, <1>4, <1>5, <1>6 DEF PredictionNext

\* The invariant holds in every state.
LEMMA PredictionInvariance == PredictionSpec => []PInv
<1> QED
  BY PredictionInitInv, PredictionNextInv, PTL DEF PredictionSpec

-----------------------------------------------------------------------------
\* The theorems.

\* Reconciles drive the memory as PredictionHistory lets any updates drive it, so
\* that every theorem about the memory holds of the predictor (evaluatePrediction
\* and updatePredictionHistory).
THEOREM MemoryImplemented == PredictionSpec => Spec
<1>1. PredictionInit => Init
  BY DEF PredictionInit
<1>2. [PredictionNext]_predictionVars => [Next]_vars
  BY StepOfMemory
<1> QED
  BY <1>1, <1>2, PTL DEF PredictionSpec, Spec

\* Prescales never order more than one step beyond the replicas that were last seen
\* to all serve, for every step limit and also where the sum of replicas and step
\* wraps (capacityEvidenceValid, nextReplicaStep).
THEOREM NeverTwoStepsAhead == PredictionSpec => []OneStepAhead
<1>1. PInv => OneStepAhead
  BY DEF PInv
<1> QED
  BY <1>1, PredictionInvariance, PTL

\* Who looks ahead has watched as long: by the lead time, the reconcile interval and
\* half the demand window together, whatever they are (LinearForecast,
\* evaluatePrediction).
THEOREM WatchedBeforePrescale == PredictionSpec => []WatchedAsLongAsForecast
<1>1. PInv => WatchedAsLongAsForecast
  BY DEF PInv
<1> QED
  BY <1>1, PredictionInvariance, PTL

\* A prescale is for a demand beyond all requested replicas
\* (RealizedCapacity, EvaluatePrescale).
THEOREM OnlyNeededPrescales == PredictionSpec => []PrescaleIsNeeded
<1>1. PInv => PrescaleIsNeeded
  BY DEF PInv
<1> QED
  BY <1>1, PredictionInvariance, PTL

\* Evidence of an earlier query or target wears off
\* (updatePredictionHistory, LinearForecast).
THEOREM EvidenceWearsOff == PredictionSpec => []EvidenceIsCurrent
<1>1. PInv => EvidenceIsCurrent
  BY DEF PInv
<1> QED
  BY <1>1, PredictionInvariance, PTL

=============================================================================
