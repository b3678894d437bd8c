--------------------------- MODULE DecisionProofs ---------------------------
(***************************************************************************)
(* Theorems about the decision pipeline, for every valid spec with any     *)
(* dependencies, every telemetry, every replica count and every age of the *)
(* last scale operation, and their proofs.                                 *)
(***************************************************************************)
EXTENDS OneDecision, FiniteSetTheorems, WellFoundedInduction, TLAPS

-----------------------------------------------------------------------------
\* The policy, by its outcomes.

\* d is what EvaluateCapacity may make of an analysis: target and dependency are the
\* component inputs, cooling says whether the cooldown is active.
ReactiveOutcome(analysis, target, dependencies, up, cooling, d) ==
    LET named == analysis.component \in DOMAIN dependencies
        dependency == dependencies[analysis.component]
    IN  \/ d = Keep("PROTECTED_MODE", target)
        \/ /\ analysis.class \notin {"UNCERTAIN", "CAPACITY_BLOCKED"}
           /\ d = Keep("HOLD", target)
        \/ /\ analysis.class \in {"CAPACITY_BLOCKED", "DEPENDENCY_SATURATED"}
           /\ named
           /\ \E action \in {"HOLD", "PROTECTED_MODE"} : d = Keep(action, dependency)
        \/ /\ analysis.class = "DEPENDENCY_SATURATED"
           /\ named /\ ~cooling /\ validateComponent(dependency, up, 1)
           /\ d = Decision("SCALE_DEPENDENCY", dependency, StepUp(dependency, up))
        \/ /\ analysis.class = "TARGET_SATURATED"
           /\ ~cooling /\ validateComponent(target, up, 1)
           /\ d = Decision("SCALE_TARGET", target, StepUp(target, up))

\* The components EvaluateCapacity is given.
DependencyInputs(spec, read) ==
    [n \in DOMAIN spec.deps |-> DependencyInput(spec, read, n)]

\* The cooldown of spec, last started at lastScale, as both policies see it.
Cooling(spec, lastScale, time) ==
    lastScale # Never /\ spec.cooldown > 0 /\ time < lastScale + spec.cooldown

\* Every return of EvaluateCapacity is one of the outcomes.
LEMMA ReactiveOutcomes ==
    ASSUME NEW spec, NEW analysis, NEW read, NEW lastScale, NEW time
    PROVE  ReactiveOutcome(analysis, TargetInput(spec, read["target"]),
               DependencyInputs(spec, read), spec.up, Cooling(spec, lastScale, time),
               ReactiveDecision(spec, analysis, read, lastScale, time))
<1> DEFINE target == TargetInput(spec, read["target"])
           deps == DependencyInputs(spec, read)
           in0 == [analysis |-> analysis, target |-> target, deps |-> deps,
                   up |-> spec.up, down |-> 1, cooldown |-> spec.cooldown,
                   lastScale |-> lastScale, now |-> time]
           cooling == Cooling(spec, lastScale, time)
           dependency == deps[analysis.component]
           named == analysis.component \in DOMAIN deps
           class == analysis.class
           Step(action, c) == IF StepUp(c, spec.up) = c.current THEN Keep("HOLD", c)
                              ELSE Decision(action, c, StepUp(c, spec.up))
           d == ReactiveDecision(spec, analysis, read, lastScale, time)
<1>1. CooldownActive(in0) = cooling
  BY DEF CooldownActive, Cooling
<1>2. d = EvaluateCapacity(in0)
  BY DEF ReactiveDecision, DependencyInputs
<1>3. d = IF class = "UNCERTAIN" \/ ~validateComponent(target, spec.up, 1)
            THEN Keep("PROTECTED_MODE", target)
          ELSE IF class = "CAPACITY_BLOCKED"
            THEN IF named /\ ~dependency.scalable /\ validateComponent(dependency, spec.up, 1)
                 THEN Keep("HOLD", dependency)
                 ELSE Keep("PROTECTED_MODE", target)
          ELSE IF cooling \/ class = "HEALTHY"
            THEN Keep("HOLD", target)
          ELSE IF class = "DEPENDENCY_SATURATED"
            THEN IF ~named
                   THEN Keep("PROTECTED_MODE", target)
                 ELSE IF dependency.scalable /\ validateComponent(dependency, spec.up, 1)
                   THEN Step("SCALE_DEPENDENCY", dependency)
                 ELSE Keep("PROTECTED_MODE", dependency)
          ELSE IF class = "TARGET_SATURATED"
            THEN Step("SCALE_TARGET", target)
          ELSE Keep("PROTECTED_MODE", target)
  BY <1>1, <1>2 DEF EvaluateCapacity
<1> HIDE DEF target, deps, cooling, d, in0
<1>4. CASE class \notin {"UNCERTAIN", "CAPACITY_BLOCKED"}
             /\ d = Keep("HOLD", target)
  BY <1>4 DEF ReactiveOutcome, d, target, deps, cooling
<1>5. CASE /\ class \in {"CAPACITY_BLOCKED", "DEPENDENCY_SATURATED"} /\ named
           /\ d \in {Keep("HOLD", dependency), Keep("PROTECTED_MODE", dependency)}
  BY <1>5 DEF ReactiveOutcome, d, target, deps, cooling
<1>6. CASE /\ class = "DEPENDENCY_SATURATED" /\ named /\ ~cooling
           /\ validateComponent(dependency, spec.up, 1)
           /\ d = Decision("SCALE_DEPENDENCY", dependency, StepUp(dependency, spec.up))
  BY <1>6 DEF ReactiveOutcome, d, target, deps, cooling
<1>7. CASE /\ class = "TARGET_SATURATED" /\ ~cooling
           /\ validateComponent(target, spec.up, 1)
           /\ d = Decision("SCALE_TARGET", target, StepUp(target, spec.up))
  BY <1>7 DEF ReactiveOutcome, d, target, deps, cooling
<1>8. CASE d = Keep("PROTECTED_MODE", target)
  BY <1>8 DEF ReactiveOutcome, d, target
<1> QED
  BY <1>3, <1>4, <1>5, <1>6, <1>7, <1>8

\* The outcome, and that telemetry which is uncertain has only one.
LEMMA UncertainProtects ==
    ASSUME NEW spec, NEW analysis, analysis.class = "UNCERTAIN",
           NEW read, NEW lastScale, NEW time
    PROVE  ReactiveDecision(spec, analysis, read, lastScale, time)
               = Keep("PROTECTED_MODE", TargetInput(spec, read["target"]))
<1> DEFINE d == ReactiveDecision(spec, analysis, read, lastScale, time)
<1>1. ReactiveOutcome(analysis, TargetInput(spec, read["target"]),
          DependencyInputs(spec, read), spec.up, Cooling(spec, lastScale, time), d)
  BY ReactiveOutcomes
<1> HIDE DEF d
<1> QED
  BY <1>1 DEF ReactiveOutcome, d

\* A reactive decision is a record of the four fields.
LEMMA ReactiveForm ==
    ASSUME NEW spec, NEW analysis, NEW read, NEW lastScale, NEW time
    PROVE  \E action, c, desired :
              ReactiveDecision(spec, analysis, read, lastScale, time)
                  = Decision(action, c, desired)
<1> DEFINE d == ReactiveDecision(spec, analysis, read, lastScale, time)
<1>1. ReactiveOutcome(analysis, TargetInput(spec, read["target"]),
          DependencyInputs(spec, read), spec.up, Cooling(spec, lastScale, time), d)
  BY ReactiveOutcomes
<1> HIDE DEF d
<1>2. \E action, c, desired : d = Decision(action, c, desired)
  BY <1>1 DEF ReactiveOutcome, Keep
<1> QED
  BY <1>2 DEF d

\* A decision the reconcile may take: the reactive one, a hold of the target in its
\* place, or a prescale.
Prescaled(spec, s, pods, read, lastScale, time, d) ==
    LET target == TargetInput(spec, read["target"])
    IN  /\ spec.prediction
        /\ Analyze(s).class = "HEALTHY"
        /\ dependenciesHealthy(s.deps)
        /\ CapacityRealized(s, pods, read["target"])
        /\ ~Cooling(spec, lastScale, time)
        /\ validateComponent(target, spec.up, 1)
        /\ d = Decision("PRESCALE_TARGET", target, StepUp(target, spec.up))

Outcome(spec, t, read, lastScale, time, d) ==
    LET s == Snapshot(spec, t, read)
        reactive == ReactiveDecision(spec, Analyze(s), read, lastScale, time)
    IN  \/ d = reactive
        \/ reactive.component = "target" /\ d.action = "HOLD" /\ d.component = "target"
        \/ /\ reactive = Keep("HOLD", TargetInput(spec, read["target"]))
           /\ Prescaled(spec, s, t.pods, read, lastScale, time, d)

\* A reactive hold of a healthy target is already the one a rejection makes.
LEMMA HealthyHold ==
    ASSUME NEW spec, NEW analysis, analysis.class = "HEALTHY",
           NEW read, NEW lastScale, NEW time
    PROVE  LET d == ReactiveDecision(spec, analysis, read, lastScale, time)
           IN  d.action = "HOLD" => d = Keep("HOLD", TargetInput(spec, read["target"]))
<1> DEFINE d == ReactiveDecision(spec, analysis, read, lastScale, time)
<1>1. ReactiveOutcome(analysis, TargetInput(spec, read["target"]),
          DependencyInputs(spec, read), spec.up, Cooling(spec, lastScale, time), d)
  BY ReactiveOutcomes
<1> HIDE DEF d
<1>2. d.action = "HOLD" => d = Keep("HOLD", TargetInput(spec, read["target"]))
  BY <1>1 DEF ReactiveOutcome, Keep, Decision
<1> QED
  BY <1>2 DEF d

\* What Decide returns: the reactive decision, a hold of the target in place of one
\* about the target, or a prescale where the reactive decision holds.
LEMMA DecideOutcomes ==
    ASSUME NEW spec, NEW t, NEW read, NEW forecast, NEW lastScale, NEW time
    PROVE  Outcome(spec, t, read, lastScale, time,
                   Decide(spec, t, read, forecast, lastScale, time))
<1> DEFINE s == Snapshot(spec, t, read)
           analysis == Analyze(s)
           target == TargetInput(spec, read["target"])
           reactive == ReactiveDecision(spec, analysis, read, lastScale, time)
           final == PredictedDecision(spec, s, t.pods, analysis, reactive, forecast,
                                      read["target"], lastScale, time)
           hold == Keep("HOLD", target)
<1>1. Decide(spec, t, read, forecast, lastScale, time)
        = holdTargetScaleForUnrealizedCapacity(final, s, read["target"])
  BY DEF Decide
<1>2. analysis.class = "HEALTHY" /\ reactive.action = "HOLD" => reactive = hold
  BY HealthyHold
<1>3. hold.current = read["target"] /\ [hold EXCEPT !.desired = hold.current] = hold
  BY DEF Keep, Decision, TargetInput
<1> HIDE DEF analysis, reactive, s
<1>4. \/ final = reactive
      \/ reactive = hold /\ Prescaled(spec, s, t.pods, read, lastScale, time, final)
  <2> DEFINE in1 == [decision    |-> reactive,
                     class       |-> analysis.class,
                     forecast    |-> forecast,
                     healthy     |-> dependenciesHealthy(s.deps),
                     unsaturated |-> usable(s.hottest) /\ s.hottest.value < s.safe,
                     realized    |-> CapacityRealized(s, t.pods, read["target"]),
                     target      |-> TargetInput(spec, reactive.current),
                     up          |-> spec.up,
                     cooldown    |-> spec.cooldown,
                     lastScale   |-> lastScale,
                     now         |-> time]
  <2>1. CASE ~spec.prediction \/ reactive.action # "HOLD" \/ analysis.class # "HEALTHY"
    <3>1. final = IF ~spec.prediction THEN reactive ELSE EvaluatePrescale(in1)
      BY DEF PredictedDecision
    <3>2. in1.decision = reactive /\ in1.class = analysis.class
      OBVIOUS
    <3> HIDE DEF in1, final
    <3> QED
      BY <2>1, <3>1, <3>2 DEF EvaluatePrescale
  <2>2. CASE spec.prediction /\ reactive.action = "HOLD" /\ analysis.class = "HEALTHY"
    <3>1. reactive = hold /\ TargetInput(spec, reactive.current) = target
      BY <2>2, <1>2, <1>3
    <3>2. final = EvaluatePrescale(in1)
      BY <2>2 DEF PredictedDecision
    <3>3. CooldownActive(in1) = Cooling(spec, lastScale, time)
      BY DEF CooldownActive, Cooling
    <3>4. ForecastTrusted(in1) => /\ dependenciesHealthy(s.deps)
                                  /\ CapacityRealized(s, t.pods, read["target"])
      BY DEF ForecastTrusted
    <3>5. /\ in1.decision = hold /\ in1.target = target /\ in1.up = spec.up
          /\ in1.class = "HEALTHY"
      BY <3>1, <2>2
    <3> HIDE DEF in1, hold, target
    <3>6. \/ final = hold
          \/ /\ ForecastTrusted(in1) /\ ~CooldownActive(in1)
             /\ validateComponent(target, spec.up, 1)
             /\ final = Decision("PRESCALE_TARGET", target, StepUp(target, spec.up))
      BY <3>2, <3>5, <1>3 DEF EvaluatePrescale
    <3> QED
      BY <3>1, <3>3, <3>4, <3>6, <2>2 DEF Prescaled, analysis, target
  <2> QED
    BY <2>1, <2>2
<1> HIDE DEF final
<1>5. ASSUME NEW d, d.component = "target",
             d = reactive \/ Prescaled(spec, s, t.pods, read, lastScale, time, d)
      PROVE  LET e == [d EXCEPT !.action = "HOLD", !.current = read["target"],
                                !.desired = read["target"]]
             IN  e.action = "HOLD" /\ e.component = "target"
  <2>1. PICK action, c, desired : d = Decision(action, c, desired)
    BY <1>5, ReactiveForm DEF Prescaled, reactive
  <2>2. DOMAIN d = {"action", "component", "current", "desired"}
    BY <2>1 DEF Decision
  <2> QED
    BY <2>2, <1>5
<1> DEFINE result == Decide(spec, t, read, forecast, lastScale, time)
<1>6. \/ result = final
      \/ /\ final.action \in ScaleActions /\ final.component = "target"
         /\ result = [final EXCEPT !.action = "HOLD", !.current = read["target"],
                              !.desired = read["target"]]
  BY <1>1 DEF holdTargetScaleForUnrealizedCapacity, ScaleActions
<1> HIDE DEF result
<1>7. \/ result = final
      \/ final.component = "target" /\ result.action = "HOLD" /\ result.component = "target"
  BY <1>4, <1>5, <1>6
<1>8. hold.component = "target"
  BY DEF Keep, Decision, TargetInput
<1> HIDE DEF hold
<1> QED
  BY <1>4, <1>7, <1>8 DEF Outcome, reactive, analysis, s, hold, target, result

-----------------------------------------------------------------------------
\* What every input has.

\* The types of what a valid spec says of the target.
LEMMA SpecFacts ==
    ASSUME NEW i \in Inputs
    PROVE  /\ i.spec.min \in Int32 /\ i.spec.max \in Int32 /\ i.spec.up \in Int32
           /\ i.spec.cooldown \in Nat
           /\ "target" \notin DOMAIN i.spec.deps /\ NoComponent \notin DOMAIN i.spec.deps
           /\ IsFiniteSet(DOMAIN i.spec.deps)
<1> DEFINE declared == DOMAIN i.spec.deps
<1>1. /\ declared \subseteq DependencyNames /\ IsFiniteSet(declared)
      /\ i \in InputOver(declared) /\ validateSpec(i.spec)
      /\ NoComponent \notin DependencyNames
  BY InputAssumption
<1>2. "target" \notin declared
  BY <1>1 DEF validateSpec
<1> HIDE DEF declared
<1>3. i.spec \in SpecOver(declared, DependencyNames, Deployments)
  BY <1>1 DEF InputOver
<1>4. /\ i.spec.min \in Int32 /\ i.spec.max \in Int32 /\ i.spec.up \in Int32
      /\ i.spec.cooldown \in Nat
  BY <1>3 DEF SpecOver
<1> QED
  BY <1>1, <1>2, <1>4 DEF declared

\* The types of what a valid spec says of a dependency.
LEMMA DependencySpecFacts ==
    ASSUME NEW i \in Inputs, NEW n \in DOMAIN i.spec.deps
    PROVE  /\ i.spec.deps[n].min \in Int32 /\ i.spec.deps[n].max \in Int32
           /\ i.spec.deps[n].latencyThreshold \in Nat
           /\ i.spec.deps[n].utilizationThreshold \in Nat
<1> DEFINE declared == DOMAIN i.spec.deps
<1>1. i \in InputOver(declared) /\ validateSpec(i.spec)
  BY InputAssumption
<1>2. /\ i.spec.deps[n].latencyThreshold >= 0
      /\ i.spec.deps[n].utilizationThreshold >= 0
  BY <1>1 DEF validateSpec
<1>3. n \in declared
  OBVIOUS
<1> HIDE DEF declared
<1>4. i.spec.deps \in [declared -> DependencySpec(DependencyNames, Deployments)]
  BY <1>1 DEF InputOver, SpecOver
<1>5. i.spec.deps[n] \in DependencySpec(DependencyNames, Deployments)
  BY <1>3, <1>4
<1>6. /\ i.spec.deps[n].min \in Int32 /\ i.spec.deps[n].max \in Int32
      /\ i.spec.deps[n].latencyThreshold \in Int
      /\ i.spec.deps[n].utilizationThreshold \in Int
  BY <1>5 DEF DependencySpec
<1> QED
  BY <1>2, <1>6

\* A count, or none, was read of every component.
LEMMA ReadFacts ==
    ASSUME NEW i \in Inputs
    PROVE  /\ DOMAIN i.read = Components(i.spec)
           /\ \A c \in Components(i.spec) : i.read[c] \in ReplicaCounts \union {Unread}
<1> DEFINE declared == DOMAIN i.spec.deps
<1>1. i \in InputOver(declared)
  BY InputAssumption
<1>2. Components(i.spec) = {"target"} \union declared
  BY DEF Components
<1> HIDE DEF declared
<1> QED
  BY <1>1, <1>2 DEF InputOver

\* There are readings, or losses, of every declared dependency.
LEMMA TelemetryFacts ==
    ASSUME NEW i \in Inputs
    PROVE  i.telemetry \in TelemetryOver(DOMAIN i.spec.deps)
<1> DEFINE declared == DOMAIN i.spec.deps
<1>1. i \in InputOver(declared)
  BY InputAssumption
<1> HIDE DEF declared
<1>2. i.telemetry \in TelemetryOver(declared)
  BY <1>1 DEF InputOver
<1> QED
  BY <1>2 DEF declared

\* One input, and nothing but its decision.
Decides == in \in Inputs /\ decision \in {Undecided, Decided(in)}

\* The invariant of the decision pipeline.
LEMMA SpecDecides == Spec => []Decides
<1>1. Init => Decides
  BY DEF Init, Decides
<1>2. Decides /\ [Next]_vars => Decides'
  BY DEF Decides, Next, DecideOnce, vars
<1> QED
  BY <1>1, <1>2, PTL DEF Spec

-----------------------------------------------------------------------------
\* Bounded steps.

\* A step from a count inside valid bounds is bounded, or has wrapped.
LEMMA StepUpFacts ==
    ASSUME NEW c, NEW up \in Int32, c.current \in Int, c.min \in Int32, c.max \in Int32,
           validateComponent(c, up, 1), StepUp(c, up) # c.current
    PROVE  \/ StepUp(c, up) < 0
           \/ /\ StepUp(c, up) \in c.current + 1..c.current + up
              /\ StepUp(c, up) <= c.max
BY MaxIntAssumption DEF Int32, validateComponent, StepUp, Add32

\* A decision that is written is a step of a valid component.
LEMMA WrittenStep ==
    ASSUME NEW i \in Inputs, Writes(Decided(i))
    PROVE  \/ LET c == TargetInput(i.spec, i.read["target"])
              IN  /\ validateComponent(c, i.spec.up, 1)
                  /\ \E action : Decided(i) = Decision(action, c, StepUp(c, i.spec.up))
           \/ \E n \in DOMAIN i.spec.deps :
                 LET c == DependencyInput(i.spec, i.read, n)
                 IN  /\ validateComponent(c, i.spec.up, 1)
                     /\ \E action : Decided(i) = Decision(action, c, StepUp(c, i.spec.up))
<1> DEFINE d == Decided(i)
           s == Snapshot(i.spec, i.telemetry, i.read)
           reactive == ReactiveDecision(i.spec, Analyze(s), i.read, i.lastScale, Now)
           target == TargetInput(i.spec, i.read["target"])
           inputs == DependencyInputs(i.spec, i.read)
           Step(c) == /\ validateComponent(c, i.spec.up, 1)
                      /\ \E action : d = Decision(action, c, StepUp(c, i.spec.up))
<1>1. Outcome(i.spec, i.telemetry, i.read, i.lastScale, Now, d)
  BY DecideOutcomes DEF Decided, DecidedOn
<1>2. ReactiveOutcome(Analyze(s), target, inputs, i.spec.up,
                      Cooling(i.spec, i.lastScale, Now), reactive)
  BY ReactiveOutcomes
<1>3. d = reactive \/ Step(target)
  BY <1>1 DEF Outcome, Prescaled, Writes, ScaleActions
<1>4. d = reactive => Step(target) \/ \E n \in DOMAIN inputs : Step(inputs[n])
  <2> HIDE DEF reactive, s, target, inputs, d
  <2> SUFFICES ASSUME d = reactive
               PROVE  Step(target) \/ \E n \in DOMAIN inputs : Step(inputs[n])
    OBVIOUS
  <2>1. d.action \in ScaleActions
    BY DEF Writes, d
  <2>2. \A c : \A action \in {"HOLD", "PROTECTED_MODE"} : d # Keep(action, c)
    BY <2>1 DEF Keep, Decision, ScaleActions
  <2> QED
    BY <1>2, <2>2 DEF ReactiveOutcome
<1>5. DOMAIN inputs = DOMAIN i.spec.deps
      /\ \A n \in DOMAIN i.spec.deps : inputs[n] = DependencyInput(i.spec, i.read, n)
  BY DEF DependencyInputs
<1> HIDE DEF reactive, s, inputs
<1> QED
  BY <1>3, <1>4, <1>5

\* Whatever was read, the controller asks for at most one bounded step of one
\* component inside its bounds, or for a count the API server refuses.
THEOREM StepsAreBounded == Spec => []BoundedMutation
<1>1. ASSUME Decides PROVE BoundedMutation
  <2> DEFINE Sound(c) == /\ c.current \in c.min..c.max
                         /\ \/ decision.desired < 0
                            \/ /\ decision.desired \in c.current + 1..c.current + in.spec.up
                               /\ decision.desired <= c.max
  <2> SUFFICES ASSUME Writes(decision) PROVE BoundedMutation
    BY DEF BoundedMutation
  <2>1. in \in Inputs /\ decision = Decided(in)
    BY <1>1 DEF Decides, Writes, Undecided, ScaleActions
  <2>2. decision.current # decision.desired
    BY DEF Writes
  <2>3. in.spec.up \in Int32
    BY <2>1, SpecFacts
  <2>4. ASSUME NEW c, c.current \in Int, c.min \in Int32, c.max \in Int32,
               validateComponent(c, in.spec.up, 1),
               NEW action, decision = Decision(action, c, StepUp(c, in.spec.up))
        PROVE  /\ decision.component = c.name /\ decision.current = c.current
               /\ Sound(c) /\ c.min >= 1
    <3>1. /\ decision.component = c.name /\ decision.current = c.current
          /\ decision.desired = StepUp(c, in.spec.up)
      BY <2>4 DEF Decision
    <3> QED
      BY <2>2, <2>3, <2>4, <3>1, StepUpFacts DEF validateComponent
  <2>5. CASE \E n \in DOMAIN in.spec.deps :
               LET c == DependencyInput(in.spec, in.read, n)
               IN  /\ validateComponent(c, in.spec.up, 1)
                   /\ \E action : decision = Decision(action, c, StepUp(c, in.spec.up))
    <3>1. PICK n \in DOMAIN in.spec.deps :
            LET c == DependencyInput(in.spec, in.read, n)
            IN  /\ validateComponent(c, in.spec.up, 1)
                /\ \E action : decision = Decision(action, c, StepUp(c, in.spec.up))
      BY <2>5
    <3> DEFINE c == DependencyInput(in.spec, in.read, n)
    <3>2. in.read[n] \in ReplicaCounts \union {Unread}
      BY <2>1, ReadFacts DEF Components
    <3>3. /\ c.name = n /\ c.min = in.spec.deps[n].min /\ c.max = in.spec.deps[n].max
          /\ c.current \in Int /\ (c.current # 0 => c.current = in.read[n])
      BY <3>2 DEF DependencyInput, ReplicaCounts, Unread
    <3>4. c.min \in Int32 /\ c.max \in Int32
      BY <2>1, <3>3, DependencySpecFacts
    <3> HIDE DEF c
    <3>5. decision.component = n /\ decision.current = c.current /\ Sound(c) /\ c.min >= 1
      BY <2>4, <3>1, <3>3, <3>4 DEF c
    <3>6. c.current = in.read[n]
      BY <3>3, <3>4, <3>5 DEF Int32
    <3>7. Bounds(n) = in.spec.deps[n]
      BY <2>1, SpecFacts DEF Bounds
    <3> QED
      BY <3>3, <3>5, <3>6, <3>7 DEF BoundedMutation
  <2>6. CASE LET c == TargetInput(in.spec, in.read["target"])
             IN  /\ validateComponent(c, in.spec.up, 1)
                 /\ \E action : decision = Decision(action, c, StepUp(c, in.spec.up))
    <3>1. PICK action :
            LET c == TargetInput(in.spec, in.read["target"])
            IN  /\ validateComponent(c, in.spec.up, 1)
                /\ decision = Decision(action, c, StepUp(c, in.spec.up))
      BY <2>6
    <3> DEFINE c == TargetInput(in.spec, in.read["target"])
    <3>2. in.read["target"] \in Int
      BY <2>1, ReadFacts, MaxIntAssumption DEF Components, ReplicaCounts, Unread
    <3>3. /\ c.name = "target" /\ c.min = in.spec.min /\ c.max = in.spec.max
          /\ c.current \in Int /\ c.current = in.read["target"]
      BY <3>2 DEF TargetInput
    <3>4. c.min \in Int32 /\ c.max \in Int32
      BY <2>1, <3>3, SpecFacts
    <3> HIDE DEF c
    <3>5. decision.component = "target" /\ decision.current = c.current /\ Sound(c)
      BY <2>4, <3>1, <3>3, <3>4 DEF c
    <3>6. Bounds("target") = in.spec
      BY DEF Bounds
    <3> QED
      BY <3>3, <3>5, <3>6 DEF BoundedMutation
  <2> QED
    BY <2>1, <2>5, <2>6, WrittenStep
<1> QED
  BY <1>1, SpecDecides, PTL

-----------------------------------------------------------------------------
\* Scaling settles.

\* Within the cooldown no decision is a scale action, reactive or predicted.
LEMMA CoolingHolds ==
    ASSUME NEW spec, NEW t, NEW read, NEW forecast, NEW lastScale, NEW time,
           Cooling(spec, lastScale, time)
    PROVE  Decide(spec, t, read, forecast, lastScale, time).action \notin ScaleActions
<1> DEFINE d == Decide(spec, t, read, forecast, lastScale, time)
           analysis == Analyze(Snapshot(spec, t, read))
           reactive == ReactiveDecision(spec, analysis, read, lastScale, time)
<1>1. ReactiveOutcome(analysis, TargetInput(spec, read["target"]),
          DependencyInputs(spec, read), spec.up, TRUE, reactive)
  <2>1. Cooling(spec, lastScale, time) = TRUE
    BY DEF Cooling
  <2> QED
    BY <2>1, ReactiveOutcomes
<1>2. Outcome(spec, t, read, lastScale, time, d)
  BY DecideOutcomes
<1>3. d = reactive \/ d.action = "HOLD"
  BY <1>2 DEF Outcome, Prescaled
<1> HIDE DEF d, analysis, reactive
<1>4. reactive.action \in {"HOLD", "PROTECTED_MODE"}
  BY <1>1 DEF ReactiveOutcome, Keep, Decision
<1>5. d.action \notin ScaleActions
  BY <1>3, <1>4 DEF ScaleActions
<1> QED
  BY <1>5 DEF d

\* Both policies see of the last scale operation only whether the cooldown is active.
LEMMA PoliciesSeeCooldown ==
    ASSUME NEW in1, NEW in2, CooldownActive(in1) = CooldownActive(in2)
    PROVE  /\ /\ in1.analysis = in2.analysis /\ in1.target = in2.target
              /\ in1.deps = in2.deps /\ in1.up = in2.up /\ in1.down = in2.down
              => EvaluateCapacity(in1) = EvaluateCapacity(in2)
           /\ /\ in1.decision = in2.decision /\ in1.class = in2.class
              /\ in1.forecast = in2.forecast /\ in1.healthy = in2.healthy
              /\ in1.unsaturated = in2.unsaturated /\ in1.realized = in2.realized
              /\ in1.target = in2.target /\ in1.up = in2.up
              => EvaluatePrescale(in1) = EvaluatePrescale(in2)
<1>1. ASSUME in1.analysis = in2.analysis, in1.target = in2.target,
             in1.deps = in2.deps, in1.up = in2.up, in1.down = in2.down
      PROVE  EvaluateCapacity(in1) = EvaluateCapacity(in2)
  BY <1>1 DEF EvaluateCapacity
<1>2. ASSUME in1.decision = in2.decision, in1.class = in2.class,
             in1.forecast = in2.forecast, in1.healthy = in2.healthy,
             in1.unsaturated = in2.unsaturated, in1.realized = in2.realized,
             in1.target = in2.target, in1.up = in2.up
      PROVE  EvaluatePrescale(in1) = EvaluatePrescale(in2)
  <2>1. ForecastTrusted(in1) = ForecastTrusted(in2)
    BY <1>2, Zenon DEF ForecastTrusted
  <2> QED
    BY <1>2, <2>1 DEF EvaluatePrescale
<1> QED
  BY <1>1, <1>2

\* So does a decision.
LEMMA DecisionsSeeCooldown ==
    ASSUME NEW spec, NEW t, NEW read, NEW forecast, NEW time, NEW last1, NEW last2,
           Cooling(spec, last1, time) = Cooling(spec, last2, time)
    PROVE  Decide(spec, t, read, forecast, last1, time)
             = Decide(spec, t, read, forecast, last2, time)
<1> DEFINE s == Snapshot(spec, t, read)
           analysis == Analyze(s)
           reactive(last) == ReactiveDecision(spec, analysis, read, last, time)
           final(last) == PredictedDecision(spec, s, t.pods, analysis, reactive(last), forecast,
                                            read["target"], last, time)
<1>1. reactive(last1) = reactive(last2)
  <2> DEFINE input(last) == [analysis  |-> analysis,
                             target    |-> TargetInput(spec, read["target"]),
                             deps      |-> [n \in DOMAIN spec.deps |->
                                              DependencyInput(spec, read, n)],
                             up        |-> spec.up,
                             down      |-> 1,
                             cooldown  |-> spec.cooldown,
                             lastScale |-> last,
                             now       |-> time]
             in1 == input(last1)
             in2 == input(last2)
  <2>1. CooldownActive(in1) = CooldownActive(in2)
    BY DEF CooldownActive, Cooling
  <2>2. /\ in1.analysis = in2.analysis /\ in1.target = in2.target
        /\ in1.deps = in2.deps /\ in1.up = in2.up /\ in1.down = in2.down
    OBVIOUS
  <2>3. reactive(last1) = EvaluateCapacity(in1) /\ reactive(last2) = EvaluateCapacity(in2)
    BY Zenon DEF ReactiveDecision
  <2> HIDE DEF in1, in2, input, reactive, analysis, s
  <2> QED
    BY <2>1, <2>2, <2>3, PoliciesSeeCooldown
<1> DEFINE r == reactive(last2)
<1>2. final(last1) = final(last2)
  <2> DEFINE input(last) ==
               [decision    |-> r,
                class       |-> analysis.class,
                forecast    |-> forecast,
                healthy     |-> dependenciesHealthy(s.deps),
                unsaturated |-> usable(s.hottest) /\ s.hottest.value < s.safe,
                realized    |-> CapacityRealized(s, t.pods, read["target"]),
                target      |-> TargetInput(spec, r.current),
                up          |-> spec.up,
                cooldown    |-> spec.cooldown,
                lastScale   |-> last,
                now         |-> time]
             in1 == input(last1)
             in2 == input(last2)
  <2>1. CooldownActive(in1) = CooldownActive(in2)
    BY DEF CooldownActive, Cooling
  <2>2. /\ in1.decision = in2.decision /\ in1.class = in2.class
        /\ in1.forecast = in2.forecast /\ in1.healthy = in2.healthy
        /\ in1.unsaturated = in2.unsaturated /\ in1.realized = in2.realized
        /\ in1.target = in2.target /\ in1.up = in2.up
    OBVIOUS
  <2> HIDE DEF reactive
  <2>3. /\ final(last1) = IF ~spec.prediction THEN r ELSE EvaluatePrescale(in1)
        /\ final(last2) = IF ~spec.prediction THEN r ELSE EvaluatePrescale(in2)
    BY <1>1, Zenon DEF PredictedDecision
  <2> HIDE DEF in1, in2, input, final, r, analysis, s
  <2> QED
    BY <2>1, <2>2, <2>3, PoliciesSeeCooldown
<1>3. /\ Decide(spec, t, read, forecast, last1, time)
          = holdTargetScaleForUnrealizedCapacity(final(last1), s, read["target"])
      /\ Decide(spec, t, read, forecast, last2, time)
          = holdTargetScaleForUnrealizedCapacity(final(last2), s, read["target"])
  BY Zenon DEF Decide
<1> HIDE DEF final, s
<1> QED
  BY <1>2, <1>3

\* After a write the controller waits: what made it write once makes it write nothing
\* at any time before the cooldown is over, and when it is over the record changes no
\* decision any more (EvaluateCapacity, EvaluatePrescale).
THEOREM StepsWaitForCooldown == Spec => []SettlesUntilCooldown
<1>1. ASSUME Decides PROVE SettlesUntilCooldown
  <2> DEFINE cooldown == in.spec.cooldown
             over == Now + cooldown
  <2>1. cooldown \in Nat /\ Now \in Nat
    BY <1>1, SpecFacts, InputAssumption DEF Decides
  <2>2. ASSUME cooldown > 0, NEW time \in 0..over - 1
        PROVE  ~Writes(DecidedAgain(Now, time))
    <3>1. Cooling(in.spec, Now, time)
      BY <2>1, <2>2 DEF Cooling, Never
    <3> QED
      BY <3>1, CoolingHolds DEF Writes, DecidedAgain
  <2>3. DecidedAgain(Now, over) = DecidedAgain(Never, over)
    <3>1. Cooling(in.spec, Now, over) = FALSE
      BY <2>1 DEF Cooling
    <3>2. Cooling(in.spec, Never, over) = FALSE
      BY DEF Cooling
    <3> HIDE DEF over
    <3> QED
      BY <3>1, <3>2, DecisionsSeeCooldown DEF DecidedAgain
  <2> QED
    BY <2>2, <2>3 DEF SettlesUntilCooldown
<1> QED
  BY <1>1, SpecDecides, PTL

-----------------------------------------------------------------------------
\* Missing evidence.

\* An uncertain analysis protects: nothing is written.
LEMMA UncertainHolds ==
    ASSUME NEW spec, NEW t, NEW read, NEW forecast, NEW lastScale,
           Analyze(Snapshot(spec, t, read)).class = "UNCERTAIN"
    PROVE  ~Writes(Decide(spec, t, read, forecast, lastScale, Now))
<1> DEFINE d == Decide(spec, t, read, forecast, lastScale, Now)
           analysis == Analyze(Snapshot(spec, t, read))
           reactive == ReactiveDecision(spec, analysis, read, lastScale, Now)
           target == TargetInput(spec, read["target"])
<1>1. reactive = Keep("PROTECTED_MODE", target)
  BY UncertainProtects
<1>2. Outcome(spec, t, read, lastScale, Now, d)
  BY DecideOutcomes
<1>3. d = reactive \/ d.action = "HOLD" \/ reactive = Keep("HOLD", target)
  BY <1>2 DEF Outcome
<1> HIDE DEF d, reactive, target
<1>4. d.action \in {"HOLD", "PROTECTED_MODE"}
  BY <1>1, <1>3 DEF Keep, Decision
<1> QED
  BY <1>4 DEF Writes, ScaleActions, d

\* Without a usable reading of the target Analyze is uncertain, and so it is without
\* one of any dependency.
LEMMA UnmeasuredIsUncertain ==
    ASSUME NEW s, \/ ~usable(s.p95) \/ ~usable(s.hottest) \/ ~usable(s.serving)
                  \/ \E n \in DOMAIN s.deps : \/ ~usable(s.deps[n].latency)
                                              \/ ~usable(s.deps[n].utilization)
    PROVE  Analyze(s).class = "UNCERTAIN"
<1>1. ~TargetMeasured(s) \/ \E n \in DOMAIN s.deps : ~DependencyMeasured(s.deps[n])
  BY DEF TargetMeasured, DependencyMeasured
<1>2. Analyze(s) = uncertain
  BY <1>1 DEF Analyze
<1> QED
  BY <1>2 DEF uncertain, Analysis

\* The same snapshot and the same Pods make the same decision.
LEMMA SameDecision ==
    ASSUME NEW i, NEW t,
           Snapshot(i.spec, t, i.read) = Snapshot(i.spec, i.telemetry, i.read),
           t.pods = i.telemetry.pods
    PROVE  DecidedOn(i, t) = Decided(i)
BY DEF DecidedOn, Decided, Decide

\* No controller action comes of evidence that is missing: a decision to scale
\* survives the loss of a reading unchanged or turns into a hold.
THEOREM LossesOnlyHold == Spec => []LossNeverActs
<1>1. ASSUME Decides, decision # Undecided
      PROVE  /\ \A t \in Losses(in.telemetry) : OnlyHolds(t)
             /\ in.telemetry.serving.value # 0 => OnlyHolds(HottestLost(in.telemetry))
  <2> DEFINE T == in.telemetry
             S(t) == Snapshot(in.spec, t, in.read)
             Lost(t) == Analyze(S(t)).class = "UNCERTAIN"
             declared == DOMAIN in.spec.deps
  <2>1. in \in Inputs /\ decision = DecidedOn(in, T)
    BY <1>1 DEF Decides, Decided
  <2>2. T \in TelemetryOver(declared)
    BY <2>1, TelemetryFacts
  <2>3. ~usable(InvalidMetric)
    BY DEF usable, InvalidMetric
  <2>4. \A m \in Readings : ~usable([m EXCEPT !.fresh = FALSE])
    BY DEF usable, Readings
  <2>5. ASSUME NEW t, Lost(t) PROVE OnlyHolds(t)
    BY <2>5, UncertainHolds DEF OnlyHolds, DecidedOn
  <2>6. ASSUME NEW t, ~usable(t.p95) \/ ~usable(t.serving) PROVE OnlyHolds(t)
    <3>1. S(t).p95 = t.p95 /\ S(t).serving = t.serving
      BY DEF Snapshot
    <3> QED
      BY <2>5, <2>6, <3>1, UnmeasuredIsUncertain
  <2>7. ASSUME NEW t, NEW n \in declared,
               ~usable(t.deps[n].latency) \/ ~usable(t.deps[n].utilization)
        PROVE  OnlyHolds(t)
    <3>1. DOMAIN S(t).deps = declared
          /\ S(t).deps[n] = DependencyObservation(in.spec, t, in.read, n)
      BY DEF Snapshot
    <3>2. ~usable(S(t).deps[n].latency) \/ ~usable(S(t).deps[n].utilization)
      BY <2>3, <2>7, <3>1 DEF DependencyObservation
    <3> HIDE DEF S, declared
    <3> QED
      BY <2>5, <3>1, <3>2, UnmeasuredIsUncertain DEF S
  <2>8. ASSUME NEW t, ~usable(HottestReplicaOccupancy(t)) PROVE OnlyHolds(t)
    <3>1. S(t).hottest = HottestReplicaOccupancy(t)
      BY DEF Snapshot
    <3> QED
      BY <2>5, <2>8, <3>1, UnmeasuredIsUncertain
  <2>9. ASSUME NEW t \in Losses(T) PROVE OnlyHolds(t)
    <3>1. CASE \E m \in {InvalidMetric, [T.p95 EXCEPT !.fresh = FALSE]} :
                  t = [T EXCEPT !.p95 = m]
      <4>1. T.p95 \in Readings /\ "p95" \in DOMAIN T
        BY <2>2 DEF TelemetryOver
      <4> QED
        BY <2>3, <2>4, <2>6, <3>1, <4>1
    <3>2. CASE \E m \in {InvalidMetric, [T.serving EXCEPT !.fresh = FALSE]} :
                  t = [T EXCEPT !.serving = m]
      <4>1. T.serving \in Readings /\ "serving" \in DOMAIN T
        BY <2>2 DEF TelemetryOver
      <4> QED
        BY <2>3, <2>4, <2>6, <3>2, <4>1
    <3>3. CASE t = [T EXCEPT !.aggregate = InvalidMetric]
      <4>1. /\ t.p95 = T.p95 /\ t.hottest = T.hottest /\ t.serving = T.serving
            /\ t.ready = T.ready /\ t.pods = T.pods /\ t.deps = T.deps
            /\ t.aggregate = InvalidMetric
        BY <2>2, <3>3 DEF TelemetryOver
      <4>2. CASE HottestReplicaOccupancy(T) = T.hottest
        <5>1. HottestReplicaOccupancy(t) = HottestReplicaOccupancy(T)
          BY <2>3, <4>1, <4>2 DEF HottestReplicaOccupancy
        <5>2. \A n : DependencyObservation(in.spec, t, in.read, n)
                        = DependencyObservation(in.spec, T, in.read, n)
          BY <4>1 DEF DependencyObservation
        <5>3. S(t) = S(T)
          BY <4>1, <5>1, <5>2 DEF Snapshot
        <5> QED
          BY <2>1, <4>1, <5>3, SameDecision DEF OnlyHolds, Decided
      <4>3. CASE HottestReplicaOccupancy(T) # T.hottest
        <5>1. ~T.hottest.valid
          BY <4>3 DEF HottestReplicaOccupancy
        <5>2. HottestReplicaOccupancy(t) = t.hottest
          BY <2>3, <4>1 DEF HottestReplicaOccupancy
        <5> QED
          BY <2>8, <4>1, <5>1, <5>2 DEF usable
      <4> QED
        BY <4>2, <4>3
    <3>4. CASE \E n \in DOMAIN T.deps : \/ t = [T EXCEPT !.deps[n].utilization = InvalidMetric]
                                       \/ t = [T EXCEPT !.deps[n].latency = InvalidMetric]
      <4>1. PICK n \in DOMAIN T.deps : \/ t = [T EXCEPT !.deps[n].utilization = InvalidMetric]
                                      \/ t = [T EXCEPT !.deps[n].latency = InvalidMetric]
        BY <3>4
      <4>2. n \in declared /\ "deps" \in DOMAIN T
            /\ DOMAIN T.deps[n] = {"latency", "utilization"}
        BY <2>2 DEF TelemetryOver
      <4>3. t.deps[n].utilization = InvalidMetric \/ t.deps[n].latency = InvalidMetric
        BY <4>1, <4>2
      <4> QED
        BY <2>3, <2>7, <4>2, <4>3
    <3> QED
      BY <2>9, <3>1, <3>2, <3>3, <3>4 DEF Losses
  <2>10. ASSUME T.serving.value # 0 PROVE OnlyHolds(HottestLost(T))
    <3> DEFINE t == HottestLost(T)
    <3>1. t.hottest = InvalidMetric /\ t.serving = T.serving
      BY <2>2 DEF TelemetryOver, HottestLost
    <3>2. HottestReplicaOccupancy(t) = InvalidMetric
      BY <2>10, <3>1 DEF HottestReplicaOccupancy
    <3> QED
      BY <2>3, <2>8, <3>2
  <2> QED
    BY <2>9, <2>10
<1>2. ASSUME Decides PROVE LossNeverActs
  BY <1>1, <1>2 DEF LossNeverActs
<1> QED
  BY <1>2, SpecDecides, PTL

-----------------------------------------------------------------------------
\* Prescaling last.

\* A prescale is one, and not a decision of the reactive policy.
LEMMA PrescaleOutcome ==
    ASSUME NEW i, Decided(i).action = "PRESCALE_TARGET"
    PROVE  LET s == Snapshot(i.spec, i.telemetry, i.read)
           IN  /\ ReactiveDecision(i.spec, Analyze(s), i.read, i.lastScale, Now)
                     = Keep("HOLD", TargetInput(i.spec, i.read["target"]))
               /\ Prescaled(i.spec, s, i.telemetry.pods, i.read, i.lastScale, Now, Decided(i))
<1> DEFINE s == Snapshot(i.spec, i.telemetry, i.read)
           d == Decided(i)
           target == TargetInput(i.spec, i.read["target"])
           reactive == ReactiveDecision(i.spec, Analyze(s), i.read, i.lastScale, Now)
<1>1. ReactiveOutcome(Analyze(s), target, DependencyInputs(i.spec, i.read), i.spec.up,
                      Cooling(i.spec, i.lastScale, Now), reactive)
  BY ReactiveOutcomes
<1>2. Outcome(i.spec, i.telemetry, i.read, i.lastScale, Now, d)
  BY DecideOutcomes DEF Decided, DecidedOn
<1>3. \/ d = reactive \/ d.action = "HOLD"
      \/ /\ reactive = Keep("HOLD", target)
         /\ Prescaled(i.spec, s, i.telemetry.pods, i.read, i.lastScale, Now, d)
  BY <1>2 DEF Outcome
<1>4. d.action = "PRESCALE_TARGET"
  OBVIOUS
<1> HIDE DEF s, d, target, reactive
<1>5. reactive.action # "PRESCALE_TARGET"
  BY <1>1 DEF ReactiveOutcome, Keep, Decision
<1> QED
  BY <1>3, <1>4, <1>5 DEF s, d, target, reactive

\* A prediction enlarges the target only when all it already has is Ready and serving,
\* when the policy would do nothing without it, and when no dependency is saturated.
THEOREM PrescalesComeLast == Spec => []PrescaleIsLastResort
<1>1. ASSUME Decides, decision.action = "PRESCALE_TARGET"
      PROVE  /\ in.telemetry.serving.value = Unit * in.read["target"]
             /\ in.telemetry.ready = in.read["target"]
             /\ in.telemetry.pods = in.read["target"]
             /\ ~Writes(Decided([in EXCEPT !.spec.prediction = FALSE]))
             /\ Hot = {}
  <2> DEFINE T == in.telemetry
             s == Snapshot(in.spec, T, in.read)
             declared == DOMAIN in.spec.deps
  <2>1. in \in Inputs /\ decision = Decided(in)
    BY <1>1 DEF Decides, Undecided
  <2>2. T \in TelemetryOver(declared)
    BY <2>1, TelemetryFacts
  <2>3. /\ dependenciesHealthy(s.deps)
        /\ CapacityRealized(s, T.pods, in.read["target"])
        /\ ReactiveDecision(in.spec, Analyze(s), in.read, in.lastScale, Now)
              = Keep("HOLD", TargetInput(in.spec, in.read["target"]))
    BY <1>1, <2>1, PrescaleOutcome DEF Prescaled
  <2>4. s.serving = T.serving /\ s.ready = T.ready
        /\ T.serving.value \in Int
    BY <2>2 DEF Snapshot, TelemetryOver, Readings
  <2>5. /\ T.serving.value = Unit * in.read["target"]
        /\ T.ready = in.read["target"] /\ T.pods = in.read["target"]
    <3>1. T.serving.value % 2 = 0 /\ T.serving.value \div 2 = T.pods
          /\ T.pods = T.ready /\ T.pods = in.read["target"]
      BY <2>3, <2>4
      DEF CapacityRealized, EffectiveReplicaCountOK, EffectiveReplicaCount, Unit
    <3> QED
      BY <2>4, <3>1 DEF Unit
  <2>6. Hot = {}
    <3> SUFFICES ASSUME NEW n \in declared PROVE ~Exceeds(n)
      BY DEF Hot
    <3>1. /\ n \in DOMAIN s.deps
          /\ s.deps[n] = DependencyObservation(in.spec, T, in.read, n)
      BY DEF Snapshot
    <3> HIDE DEF s
    <3>2. usable(s.deps[n].latency) /\ ~Saturated(s.deps[n])
      BY <2>3, <3>1 DEF dependenciesHealthy
    <3>3. in.read[n] # Unread
      BY <3>1, <3>2 DEF DependencyObservation, usable, InvalidMetric
    <3> QED
      BY <3>1, <3>2, <3>3 DEF DependencyObservation, Saturated, Exceeds
  <2>7. ~Writes(Decided([in EXCEPT !.spec.prediction = FALSE]))
    <3> DEFINE spec == [in.spec EXCEPT !.prediction = FALSE]
               i == [in EXCEPT !.spec.prediction = FALSE]
               reactive == ReactiveDecision(spec, Analyze(s), in.read, in.lastScale, Now)
    <3>1. in \in InputOver(declared)
      BY <2>1, InputAssumption
    <3>2. /\ i.spec = spec /\ i.telemetry = T /\ i.read = in.read
          /\ i.lastScale = in.lastScale
      <4> HIDE DEF declared
      <4> QED
        BY <3>1 DEF InputOver
    <3>3. /\ spec.prediction = FALSE /\ spec.deps = in.spec.deps
          /\ spec.min = in.spec.min /\ spec.max = in.spec.max /\ spec.up = in.spec.up
          /\ spec.cooldown = in.spec.cooldown
          /\ spec.slo = in.spec.slo /\ spec.safe = in.spec.safe /\ spec.limit = in.spec.limit
      <4>1. in.spec \in SpecOver(declared, DependencyNames, Deployments)
        <5> HIDE DEF declared
        <5> QED
          BY <3>1 DEF InputOver
      <4> HIDE DEF declared
      <4> QED
        BY <4>1 DEF SpecOver
    <3> HIDE DEF spec, i
    <3>4. Snapshot(spec, T, in.read) = s
      BY <3>3 DEF Snapshot, DependencyObservation
    <3>5. reactive = Keep("HOLD", TargetInput(in.spec, in.read["target"]))
      BY <2>3, <3>3 DEF ReactiveDecision, TargetInput, DependencyInput
    <3>6. Outcome(spec, T, in.read, in.lastScale, Now, Decided(i))
      BY <3>2, DecideOutcomes DEF Decided, DecidedOn
    <3>7. Decided(i) = reactive \/ Decided(i).action = "HOLD"
      BY <3>3, <3>4, <3>6 DEF Outcome, Prescaled
    <3> HIDE DEF reactive
    <3>8. Decided(i).action = "HOLD"
      BY <3>5, <3>7 DEF Keep, Decision
    <3> QED
      BY <3>8 DEF Writes, ScaleActions, i
  <2> QED
    BY <2>5, <2>6, <2>7
<1>2. ASSUME Decides PROVE PrescaleIsLastResort
  BY <1>1, <1>2 DEF PrescaleIsLastResort
<1> QED
  BY <1>2, SpecDecides, PTL

-----------------------------------------------------------------------------
\* Attribution.

\* A slow target, everything measured, that is not saturated itself.
SlowElsewhere(s) ==
    /\ TargetMeasured(s) /\ \A n \in DOMAIN s.deps : DependencyMeasured(s.deps[n])
    /\ ~(s.p95.value <= s.slo) /\ ~TargetLocallySaturated(s)

\* A dependency is blamed where it is the only root candidate.
LEMMA BlameIsRoot ==
    ASSUME NEW s, IsFiniteSet(DOMAIN s.deps),
           Analyze(s).class \in {"DEPENDENCY_SATURATED", "CAPACITY_BLOCKED"}
    PROVE  SlowElsewhere(s) /\ RootCandidates(s.deps) = {Analyze(s).component}
<1> DEFINE roots == RootCandidates(s.deps)
           root == CHOOSE n \in roots : TRUE
<1>1. /\ SlowElsewhere(s) /\ Cardinality(roots) = 1
      /\ Analyze(s) = Attribution(s.deps, root)
  BY DEF Analyze, Analysis, uncertain, SlowElsewhere
<1>2. roots \in SUBSET DOMAIN s.deps
  BY DEF RootCandidates, SaturatedDependencies
<1>3. \E n : roots = {n}
  BY <1>1, <1>2, FS_Subset, FS_Singleton
<1>4. roots = {root}
  BY <1>3
<1>5. Analyze(s).component = root
  BY <1>1 DEF Attribution, Analysis
<1> QED
  BY <1>1, <1>4, <1>5

\* ... and is, wherever it is the only one.
LEMMA RootIsBlamed ==
    ASSUME NEW s, NEW n, SlowElsewhere(s), RootCandidates(s.deps) = {n}
    PROVE  Analyze(s) = Attribution(s.deps, n)
<1>1. Cardinality({n}) = 1 /\ (CHOOSE m \in {n} : TRUE) = n
  BY FS_Singleton
<1> QED
  BY <1>1 DEF Analyze, SlowElsewhere

\* Two candidates are one too many.
LEMMA TwoRootsAreUncertain ==
    ASSUME NEW s, IsFiniteSet(DOMAIN s.deps), SlowElsewhere(s),
           NEW m \in RootCandidates(s.deps), NEW n \in RootCandidates(s.deps), m # n
    PROVE  Analyze(s) = uncertain
<1> DEFINE roots == RootCandidates(s.deps)
<1>1. roots \in SUBSET DOMAIN s.deps
  BY DEF RootCandidates, SaturatedDependencies
<1>2. Cardinality(roots) # 1
  BY <1>1, FS_Subset, FS_Singleton
<1> QED
  BY <1>2 DEF Analyze, SlowElsewhere

\* What is decided of a dependency that is blamed, or of none: that dependency, or the
\* target, which is then left alone.
LEMMA AttributedDecision ==
    ASSUME NEW spec, NEW t, NEW read, NEW forecast, NEW lastScale,
           "target" \notin DOMAIN spec.deps, NEW analysis,
           analysis = Analyze(Snapshot(spec, t, read)),
           analysis.class \in {"DEPENDENCY_SATURATED", "CAPACITY_BLOCKED", "UNCERTAIN"}
    PROVE  LET d == Decide(spec, t, read, forecast, lastScale, Now)
               reactive == ReactiveDecision(spec, analysis, read, lastScale, Now)
           IN  /\ d = reactive \/ (d.component = "target" /\ reactive.component = "target")
               /\ d.component \in {"target", analysis.component}
               /\ d.component = "target" => ~Writes(d)
<1> DEFINE d == Decide(spec, t, read, forecast, lastScale, Now)
           reactive == ReactiveDecision(spec, analysis, read, lastScale, Now)
           target == TargetInput(spec, read["target"])
           inputs == DependencyInputs(spec, read)
<1>1. ReactiveOutcome(analysis, target, inputs, spec.up, Cooling(spec, lastScale, Now), reactive)
  BY ReactiveOutcomes
<1>2. d = reactive \/ (reactive.component = "target" /\ d.action = "HOLD" /\ d.component = "target")
  <2>1. Outcome(spec, t, read, lastScale, Now, d)
    BY DecideOutcomes
  <2> QED
    BY <2>1 DEF Outcome, Prescaled
<1>3. target.name = "target"
      /\ \A n \in DOMAIN inputs : inputs[n].name = n /\ n # "target"
  BY DEF TargetInput, DependencyInputs, DependencyInput
<1> HIDE DEF d, reactive, target, inputs
<1>4. /\ reactive.component \in {"target", analysis.component}
      /\ reactive.component = "target" => reactive.action \in {"HOLD", "PROTECTED_MODE"}
  BY <1>1, <1>3 DEF ReactiveOutcome, Keep, Decision
<1>5. /\ d = reactive \/ (d.component = "target" /\ reactive.component = "target")
      /\ d.component \in {"target", analysis.component}
      /\ d.component = "target" => ~Writes(d)
  BY <1>2, <1>4 DEF Writes, ScaleActions
<1> QED
  BY <1>5 DEF d, reactive

\* Only an attribution makes a decision about a dependency.
LEMMA BlamedAnalysis ==
    ASSUME NEW i \in Inputs, Decided(i).component \in DOMAIN i.spec.deps
    PROVE  LET analysis == Analyze(Snapshot(i.spec, i.telemetry, i.read))
           IN  /\ analysis.class \in {"DEPENDENCY_SATURATED", "CAPACITY_BLOCKED"}
               /\ analysis.component = Decided(i).component
               /\ Decided(i) = ReactiveDecision(i.spec, analysis, i.read, i.lastScale, Now)
<1> DEFINE d == Decided(i)
           analysis == Analyze(Snapshot(i.spec, i.telemetry, i.read))
           reactive == ReactiveDecision(i.spec, analysis, i.read, i.lastScale, Now)
           target == TargetInput(i.spec, i.read["target"])
           inputs == DependencyInputs(i.spec, i.read)
<1>1. ReactiveOutcome(analysis, target, inputs, i.spec.up,
                      Cooling(i.spec, i.lastScale, Now), reactive)
  BY ReactiveOutcomes
<1>2. Outcome(i.spec, i.telemetry, i.read, i.lastScale, Now, d)
  BY DecideOutcomes DEF Decided, DecidedOn
<1>3. d.component # "target"
  BY SpecFacts
<1>4. target.name = "target" /\ \A n \in DOMAIN inputs : inputs[n].name = n
  BY DEF TargetInput, DependencyInputs, DependencyInput
<1>5. d = reactive
  BY <1>2, <1>3 DEF Outcome, Prescaled, Decision, TargetInput
<1> HIDE DEF d, analysis, reactive, target, inputs
<1>6. /\ analysis.class \in {"DEPENDENCY_SATURATED", "CAPACITY_BLOCKED"}
      /\ analysis.component = d.component
  BY <1>1, <1>3, <1>4, <1>5 DEF ReactiveOutcome, Keep, Decision
<1> QED
  BY <1>5, <1>6 DEF d, analysis, reactive

\* The snapshot of a blamed dependency says what the telemetry and the spec say.
LEMMA MeasuredSnapshot ==
    ASSUME NEW i \in Inputs, in = i,
           LET deps == Snapshot(i.spec, i.telemetry, i.read).deps
           IN  \A n \in DOMAIN deps : DependencyMeasured(deps[n])
    PROVE  LET deps == Snapshot(i.spec, i.telemetry, i.read).deps
           IN  /\ DOMAIN deps = DOMAIN i.spec.deps
               /\ SaturatedDependencies(deps) = Hot
               /\ \A n \in DOMAIN i.spec.deps :
                     /\ i.read[n] # Unread
                     /\ deps[n].dependsOn = Callee(n)
                     /\ deps[n].utilization = i.telemetry.deps[n].utilization
                     /\ deps[n].utilizationThreshold = i.spec.deps[n].utilizationThreshold
<1> DEFINE deps == Snapshot(i.spec, i.telemetry, i.read).deps
           declared == DOMAIN i.spec.deps
<1>1. /\ DOMAIN deps = declared
      /\ \A n \in declared : deps[n] = DependencyObservation(i.spec, i.telemetry, i.read, n)
  BY DEF Snapshot
<1>2. \A n \in declared : DependencyMeasured(deps[n])
  BY <1>1
<1> HIDE DEF deps
<1>3. ASSUME NEW n \in declared
      PROVE  /\ i.read[n] # Unread
             /\ deps[n].dependsOn = Callee(n)
             /\ deps[n].utilization = i.telemetry.deps[n].utilization
             /\ deps[n].utilizationThreshold = i.spec.deps[n].utilizationThreshold
             /\ Saturated(deps[n]) <=> Exceeds(n)
  <2>1. deps[n] = DependencyObservation(i.spec, i.telemetry, i.read, n)
    BY <1>1
  <2>2. usable(deps[n].latency)
    BY <1>2 DEF DependencyMeasured
  <2>3. i.read[n] # Unread
    BY <2>1, <2>2 DEF DependencyObservation, usable, InvalidMetric
  <2> QED
    BY <2>1, <2>3 DEF DependencyObservation, Callee, Saturated, Exceeds
<1>4. SaturatedDependencies(deps) = Hot
  BY <1>1, <1>3 DEF SaturatedDependencies, Hot
<1> QED
  BY <1>1, <1>3, <1>4 DEF deps

\* What is left of a set of saturated dependencies that call only each other: a
\* cycle.  A smallest set closed under calls has nothing its members do not reach.
LEMMA ClosedSetsHaveCycles ==
    ASSUME IsFiniteSet(Hot), NEW R, R \in SUBSET Hot, R # {},
           \A m \in R : Callee(m) \in R
    PROVE  \E m \in R : OnCycle(m)
<1> DEFINE Rings == {M \in SUBSET R : M # {} /\ \A m \in M : Callee(m) \in M}
           order == StrictSubsetOrdering(Hot)
<1>1. IsWellFoundedOn(order, SUBSET Hot)
  BY FS_StrictSubsetOrderingWellFounded, FS_FiniteSubsetsOfFinite
<1>2. R \in Rings /\ Rings \subseteq SUBSET Hot
  OBVIOUS
<1> HIDE DEF order
<1>3. PICK M \in Rings : \A L \in Rings : ~(<<L, M>> \in order)
  <2> HIDE DEF Rings
  <2> QED
    BY <1>1, <1>2, WFMin
<1>4. ASSUME NEW L \in Rings, L \subseteq M PROVE L = M
  BY <1>2, <1>3, <1>4 DEF order, StrictSubsetOrdering
<1>5. PICK m \in M : TRUE
  OBVIOUS
<1>6. Callee(m) \in M /\ M \subseteq Hot /\ m \in R
  OBVIOUS
<1>7. ASSUME NEW S \in SUBSET Hot, ClosedUnderCalls(S), Callee(m) \in S
      PROVE  m \in S
  <2>1. S \intersect M \in Rings
    BY <1>2, <1>6, <1>7 DEF ClosedUnderCalls
  <2> QED
    BY <1>4, <1>5, <2>1
<1> HIDE DEF Rings
<1>8. OnCycle(m)
  BY <1>6, <1>7 DEF OnCycle, LeadsTo
<1> QED
  BY <1>6, <1>8

\* Follow the saturated callees of n: they lead to c, or into a cycle.
LEMMA ChainsEnd ==
    ASSUME IsFiniteSet(Hot), NEW c \in Hot, NEW n \in Hot, ~LeadsTo(n, c), n # c,
           \A m \in Hot \ {c} : Callee(m) \in Hot
    PROVE  \E m \in Hot : OnCycle(m) /\ LeadsTo(n, m)
<1> DEFINE R == {b \in Hot : LeadsTo(n, b)}
<1>1. Callee(n) \in Hot
  OBVIOUS
<1>2. Callee(n) \in R
  BY <1>1 DEF LeadsTo
<1>3. c \notin R
  OBVIOUS
<1>4. ASSUME NEW b \in R PROVE Callee(b) \in R
  <2>1. b \in Hot /\ b # c /\ Callee(b) \in Hot /\ LeadsTo(n, b)
    BY <1>3
  <2>2. ASSUME NEW S \in SUBSET Hot, ClosedUnderCalls(S), Callee(n) \in S
        PROVE  Callee(b) \in S
    <3>1. b \in S
      BY <2>1, <2>2 DEF LeadsTo
    <3> QED
      BY <2>1, <2>2, <3>1 DEF ClosedUnderCalls
  <2>3. LeadsTo(n, Callee(b))
    BY <1>1, <2>2 DEF LeadsTo
  <2> QED
    BY <2>1, <2>3
<1>5. R \in SUBSET Hot /\ R # {}
  BY <1>2
<1> HIDE DEF R
<1>6. PICK m \in R : OnCycle(m)
  BY <1>4, <1>5, ClosedSetsHaveCycles
<1> QED
  BY <1>6 DEF R

\* What a decision about a dependency says of the saturated ones.
LEMMA BlamedFacts ==
    ASSUME Decides, Blamed
    PROVE  LET s == Snapshot(in.spec, in.telemetry, in.read)
               c == decision.component
           IN  /\ in \in Inputs /\ decision = Decided(in)
               /\ SlowElsewhere(s)
               /\ RootCandidates(s.deps) = {c}
               /\ DOMAIN s.deps = DOMAIN in.spec.deps
               /\ SaturatedDependencies(s.deps) = Hot
               /\ c \in Hot
<1> DEFINE s == Snapshot(in.spec, in.telemetry, in.read)
           c == decision.component
<1>1. in \in Inputs /\ decision \in {Undecided, Decided(in)}
  BY DEF Decides
<1>2. decision = Decided(in)
  BY <1>1, SpecFacts DEF Undecided, Blamed
<1>3. /\ Analyze(s).class \in {"DEPENDENCY_SATURATED", "CAPACITY_BLOCKED"}
      /\ Analyze(s).component = c
  BY <1>1, <1>2, BlamedAnalysis DEF Blamed
<1>4. DOMAIN s.deps = DOMAIN in.spec.deps
  BY DEF Snapshot
<1>5. IsFiniteSet(DOMAIN s.deps)
  BY <1>1, <1>4, SpecFacts
<1>6. SlowElsewhere(s) /\ RootCandidates(s.deps) = {c}
  <2> HIDE DEF s, c
  <2> QED
    BY <1>3, <1>5, BlameIsRoot
<1>7. SaturatedDependencies(s.deps) = Hot
  BY <1>1, <1>6, MeasuredSnapshot DEF SlowElsewhere
<1>8. c \in Hot
  BY <1>6, <1>7 DEF RootCandidates
<1> QED
  BY <1>1, <1>2, <1>4, <1>6, <1>7, <1>8

\* The component the controller acts on explains every other saturated dependency,
\* whatever graph the spec declares; only a cycle of calls hides a saturation from it.
THEOREM BlameIsExplained == Spec => []SoleRoot
<1>1. ASSUME Decides, Blamed
      PROVE  /\ decision.component \in Hot
             /\ \A n \in Hot \ {decision.component} :
                   \/ LeadsTo(n, decision.component)
                   \/ \E m \in Hot : OnCycle(m) /\ (m = n \/ LeadsTo(n, m))
  <2> DEFINE s == Snapshot(in.spec, in.telemetry, in.read)
             c == decision.component
  <2>1. /\ in \in Inputs /\ SlowElsewhere(s) /\ RootCandidates(s.deps) = {c}
        /\ SaturatedDependencies(s.deps) = Hot /\ c \in Hot
    BY <1>1, BlamedFacts
  <2>2. \A n \in DOMAIN in.spec.deps : s.deps[n].dependsOn = Callee(n)
    BY DEF Snapshot, DependencyObservation, Callee
  <2>3. IsFiniteSet(Hot)
    BY <2>1, SpecFacts, FS_Subset DEF Hot
  <2> HIDE DEF s, c
  <2>4. ASSUME NEW m \in Hot \ {c} PROVE Callee(m) \in Hot
    <3>1. ExplainedByDownstream(s.deps, m)
      BY <2>1 DEF RootCandidates
    <3>2. m \in DOMAIN in.spec.deps
      BY DEF Hot
    <3> QED
      BY <2>1, <2>2, <3>1, <3>2 DEF ExplainedByDownstream
  <2>5. ASSUME NEW n \in Hot \ {c}, ~LeadsTo(n, c)
        PROVE  \E m \in Hot : OnCycle(m) /\ LeadsTo(n, m)
    BY <2>1, <2>3, <2>4, <2>5, ChainsEnd
  <2> QED
    BY <2>1, <2>5 DEF c
<1>2. ASSUME Decides PROVE SoleRoot
  BY <1>1, <1>2 DEF SoleRoot
<1> QED
  BY <1>2, SpecDecides, PTL

\* What Heated changes of the telemetry.
LEMMA HeatedFacts ==
    ASSUME in \in Inputs, NEW n \in DOMAIN in.spec.deps
    PROVE  LET T == in.telemetry
               t == Heated(n)
           IN  /\ t.p95 = T.p95 /\ t.hottest = T.hottest /\ t.serving = T.serving
               /\ t.aggregate = T.aggregate /\ t.ready = T.ready
               /\ \A m \in DOMAIN in.spec.deps : t.deps[m].latency = T.deps[m].latency
               /\ \A m \in DOMAIN in.spec.deps : m # n => t.deps[m] = T.deps[m]
               /\ t.deps[n].utilization
                    = Derived(in.spec.deps[n].utilizationThreshold + 1)
<1> DEFINE declared == DOMAIN in.spec.deps
           T == in.telemetry
           t == Heated(n)
           u == Derived(in.spec.deps[n].utilizationThreshold + 1)
<1>1. T \in TelemetryOver(declared) /\ n \in declared
  BY TelemetryFacts
<1>2. t = [T EXCEPT !.deps[n].utilization = u]
  BY DEF Heated
<1> HIDE DEF declared, T, t, u
<1>3. /\ DOMAIN T = {"p95", "hottest", "serving", "aggregate", "ready", "pods", "deps"}
      /\ T.deps \in [declared -> [latency : Readings, utilization : Readings]]
  BY <1>1 DEF TelemetryOver
<1>4. /\ t.p95 = T.p95 /\ t.hottest = T.hottest /\ t.serving = T.serving
      /\ t.aggregate = T.aggregate /\ t.ready = T.ready
      /\ t.deps = [T.deps EXCEPT ![n].utilization = u]
  BY <1>2, <1>3
<1>5. /\ t.deps[n] = [T.deps[n] EXCEPT !.utilization = u]
      /\ \A m \in declared : m # n => t.deps[m] = T.deps[m]
  BY <1>1, <1>3, <1>4
<1>6. T.deps[n] \in [latency : Readings, utilization : Readings]
  BY <1>1, <1>3
<1>7. t.deps[n].utilization = u /\ t.deps[n].latency = T.deps[n].latency
  BY <1>5, <1>6
<1> QED
  BY <1>4, <1>5, <1>7 DEF declared, T, t, u

\* The snapshot of heated telemetry, beside the one it was: as slow, as well measured,
\* with n a root candidate and none but n and the ones before.
LEMMA HeatedSnapshot ==
    ASSUME in \in Inputs, NEW n \in DOMAIN in.spec.deps,
           SlowElsewhere(Snapshot(in.spec, in.telemetry, in.read))
    PROVE  LET cool == Snapshot(in.spec, in.telemetry, in.read)
               hot  == Snapshot(in.spec, Heated(n), in.read)
           IN  /\ SlowElsewhere(hot)
               /\ n \in RootCandidates(hot.deps)
               /\ RootCandidates(hot.deps) \subseteq RootCandidates(cool.deps) \union {n}
               /\ \A c \in RootCandidates(cool.deps) \ RootCandidates(hot.deps) : Callee(c) = n
<1> DEFINE T == in.telemetry
           t == Heated(n)
           cool == Snapshot(in.spec, T, in.read)
           hot == Snapshot(in.spec, t, in.read)
           declared == DOMAIN in.spec.deps
           limit == in.spec.deps[n].utilizationThreshold
<1>1. /\ DOMAIN cool.deps = declared /\ DOMAIN hot.deps = declared
      /\ \A m \in declared :
            /\ cool.deps[m] = DependencyObservation(in.spec, T, in.read, m)
            /\ hot.deps[m] = DependencyObservation(in.spec, t, in.read, m)
            /\ cool.deps[m].dependsOn = Callee(m)
  BY DEF Snapshot, DependencyObservation, Callee
<1>2. in.read[n] # Unread
  BY MeasuredSnapshot DEF SlowElsewhere
<1>3. /\ hot.slo = cool.slo /\ hot.safe = cool.safe /\ hot.limit = cool.limit
      /\ hot.p95 = cool.p95 /\ hot.serving = cool.serving /\ hot.ready = cool.ready
      /\ hot.hottest = cool.hottest
  BY HeatedFacts DEF Snapshot, HottestReplicaOccupancy
<1>4. \A m \in declared : m # n => hot.deps[m] = cool.deps[m]
  <2> SUFFICES ASSUME NEW m \in declared, m # n
               PROVE  DependencyObservation(in.spec, t, in.read, m)
                        = DependencyObservation(in.spec, T, in.read, m)
    BY <1>1
  <2>1. t.deps[m] = T.deps[m]
    BY HeatedFacts
  <2> QED
    BY <2>1 DEF DependencyObservation
<1>5. /\ hot.deps[n].latency = cool.deps[n].latency
      /\ hot.deps[n].utilization = Derived(limit + 1)
      /\ hot.deps[n].dependsOn = cool.deps[n].dependsOn
      /\ hot.deps[n].latencyThreshold = cool.deps[n].latencyThreshold
      /\ hot.deps[n].utilizationThreshold = limit
      /\ cool.deps[n].utilizationThreshold = limit
  <2>1. /\ t.deps[n].latency = T.deps[n].latency
        /\ t.deps[n].utilization = Derived(limit + 1)
    BY HeatedFacts
  <2>2. /\ hot.deps[n] = DependencyObservation(in.spec, t, in.read, n)
        /\ cool.deps[n] = DependencyObservation(in.spec, T, in.read, n)
    BY <1>1
  <2> HIDE DEF t, T, hot, cool
  <2> QED
    BY <1>2, <2>1, <2>2 DEF DependencyObservation
<1>6. limit \in Nat
  BY DependencySpecFacts
<1>7. SlowElsewhere(cool) /\ n \in declared
  OBVIOUS
<1> HIDE DEF T, t, hot, cool, declared, limit
<1>8. SlowElsewhere(hot)
  <2>1. TargetMeasured(hot) /\ ~(hot.p95.value <= hot.slo) /\ ~TargetLocallySaturated(hot)
    BY <1>3, <1>7 DEF SlowElsewhere, TargetMeasured, TargetLocallySaturated
  <2>2. DependencyMeasured(hot.deps[n])
    <3>1. DependencyMeasured(cool.deps[n])
      BY <1>1, <1>7 DEF SlowElsewhere
    <3>2. usable(Derived(limit + 1))
      BY <1>6 DEF usable, Derived, finiteNonnegative
    <3> QED
      BY <1>5, <3>1, <3>2 DEF DependencyMeasured
  <2>3. \A m \in DOMAIN hot.deps : DependencyMeasured(hot.deps[m])
    BY <1>1, <1>4, <1>7, <2>2 DEF SlowElsewhere
  <2> QED
    BY <2>1, <2>3 DEF SlowElsewhere
<1>9. hot.deps[n].utilization.value > hot.deps[n].utilizationThreshold
  BY <1>5, <1>6 DEF Derived
<1>10. SaturatedDependencies(hot.deps) = SaturatedDependencies(cool.deps) \union {n}
  <2>1. Saturated(hot.deps[n])
    BY <1>9 DEF Saturated
  <2> QED
    BY <1>1, <1>4, <1>7, <2>1 DEF SaturatedDependencies
<1>11. ~ExplainedByDownstream(hot.deps, n)
  BY <1>5, <1>6 DEF ExplainedByDownstream, Derived
<1>12. n \in RootCandidates(hot.deps)
  BY <1>10, <1>11 DEF RootCandidates
<1>13. ASSUME NEW m \in RootCandidates(hot.deps), m # n
       PROVE  m \in RootCandidates(cool.deps)
  <2>1. m \in SaturatedDependencies(cool.deps) /\ hot.deps[m] = cool.deps[m]
    BY <1>1, <1>4, <1>10, <1>13 DEF RootCandidates, SaturatedDependencies
  <2>2. ~ExplainedByDownstream(hot.deps, m)
    BY DEF RootCandidates
  <2>3. ~ExplainedByDownstream(cool.deps, m)
    BY <1>10, <2>1, <2>2 DEF ExplainedByDownstream
  <2> QED
    BY <2>1, <2>3 DEF RootCandidates
<1>14. ASSUME NEW c \in RootCandidates(cool.deps), c \notin RootCandidates(hot.deps)
       PROVE  Callee(c) = n
  <2>1. c # n /\ c \in SaturatedDependencies(cool.deps) /\ c \in declared
    BY <1>1, <1>12, <1>14 DEF RootCandidates, SaturatedDependencies
  <2>2. hot.deps[c] = cool.deps[c] /\ cool.deps[c].dependsOn = Callee(c)
    BY <1>1, <1>4, <2>1
  <2>3. ExplainedByDownstream(hot.deps, c)
    BY <1>10, <1>14, <2>1 DEF RootCandidates
  <2>4. ~ExplainedByDownstream(cool.deps, c)
    BY DEF RootCandidates
  <2> QED
    BY <1>10, <2>2, <2>3, <2>4 DEF ExplainedByDownstream
<1> QED
  BY <1>8, <1>12, <1>13, <1>14 DEF hot, cool, t, T

\* Which dependency is blamed changes only along a call, towards the callee.
THEOREM BlameFollowsCalls == Spec => []BlameMovesDownstream
<1>1. ASSUME Decides, Blamed, NEW n \in DOMAIN in.spec.deps
      PROVE  LET hotter == DecidedOn(in, Heated(n))
             IN  \/ hotter.component = decision.component
                 \/ hotter.component = "target" /\ ~Writes(hotter)
                 \/ hotter.component = n /\ Callee(decision.component) = n
  <2> DEFINE c == decision.component
             cool == Snapshot(in.spec, in.telemetry, in.read)
             hot == Snapshot(in.spec, Heated(n), in.read)
             hotter == DecidedOn(in, Heated(n))
             analysis == Analyze(hot)
             reactive == ReactiveDecision(in.spec, analysis, in.read, in.lastScale, Now)
  <2>1. /\ in \in Inputs /\ decision = Decided(in)
        /\ SlowElsewhere(cool) /\ RootCandidates(cool.deps) = {c}
    BY <1>1, BlamedFacts
  <2>2. /\ SlowElsewhere(hot) /\ n \in RootCandidates(hot.deps)
        /\ RootCandidates(hot.deps) \subseteq {c, n}
        /\ c \notin RootCandidates(hot.deps) => Callee(c) = n
    BY <2>1, HeatedSnapshot
  <2>3. DOMAIN hot.deps = DOMAIN in.spec.deps /\ IsFiniteSet(DOMAIN in.spec.deps)
    BY <2>1, SpecFacts DEF Snapshot
  <2>4. analysis.class \in {"DEPENDENCY_SATURATED", "CAPACITY_BLOCKED", "UNCERTAIN"}
        => /\ hotter = reactive \/ (hotter.component = "target" /\ reactive.component = "target")
           /\ hotter.component \in {"target", analysis.component}
           /\ hotter.component = "target" => ~Writes(hotter)
    BY <2>1, SpecFacts, AttributedDecision DEF DecidedOn
  <2>5. CASE n # c /\ c \in RootCandidates(hot.deps)
    <3>1. analysis = uncertain
      <4> HIDE DEF hot, c
      <4> QED
        BY <2>2, <2>3, <2>5, TwoRootsAreUncertain
    <3>2. analysis.class = "UNCERTAIN"
      BY <3>1 DEF uncertain, Analysis
    <3>3. hotter.component = "target"
      <4>1. reactive = Keep("PROTECTED_MODE", TargetInput(in.spec, in.read["target"]))
        BY <3>2, UncertainProtects
      <4>2. reactive.component = "target"
        BY <4>1 DEF Keep, Decision, TargetInput
      <4> HIDE DEF hotter, reactive, analysis
      <4> QED
        BY <2>4, <3>2, <4>2
    <3> HIDE DEF hotter, analysis
    <3> QED
      BY <2>4, <3>2, <3>3 DEF hotter
  <2>6. CASE n # c /\ c \notin RootCandidates(hot.deps)
    <3>1. RootCandidates(hot.deps) = {n} /\ Callee(c) = n
      BY <2>2, <2>6
    <3>2. analysis = Attribution(hot.deps, n)
      BY <2>2, <3>1, RootIsBlamed
    <3>3. /\ analysis.component = n
          /\ analysis.class \in {"DEPENDENCY_SATURATED", "CAPACITY_BLOCKED"}
      BY <3>2 DEF Attribution, Analysis
    <3> HIDE DEF hotter, analysis
    <3> QED
      BY <2>4, <3>1, <3>3 DEF hotter
  <2>7. CASE n = c
    <3>1. RootCandidates(hot.deps) = {c}
      BY <2>2, <2>7
    <3>2. analysis = Attribution(hot.deps, c)
      BY <2>2, <3>1, RootIsBlamed
    <3>3. analysis.component = c
          /\ analysis.class \in {"DEPENDENCY_SATURATED", "CAPACITY_BLOCKED"}
      BY <3>2 DEF Attribution, Analysis
    <3> HIDE DEF hotter, analysis
    <3> QED
      BY <2>4, <3>3 DEF hotter
  <2> QED
    BY <2>5, <2>6, <2>7
<1>2. ASSUME Decides PROVE BlameMovesDownstream
  BY <1>1, <1>2 DEF BlameMovesDownstream
<1> QED
  BY <1>2, SpecDecides, PTL

=============================================================================
