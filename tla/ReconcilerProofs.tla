-------------------------- MODULE ReconcilerProofs --------------------------
(***************************************************************************)
(* Theorems about the reconcile loop, for every set of processes, specs,   *)
(* telemetry and forecasts, and their proofs.                              *)
(***************************************************************************)
EXTENDS Reconciler, TLAPS

-----------------------------------------------------------------------------
\* Facts about specs.

\* validateSpec admits no spec without positive, ordered int32 bounds.
LEMMA SpecFacts ==
    ASSUME NEW spec \in Specs
    PROVE  /\ spec.deployment \in Deployments
           /\ spec.up \in Int32 /\ spec.min \in Int32 /\ spec.max \in Int32
           /\ spec.cooldown \in Nat
           /\ DOMAIN spec.deps \subseteq DependencyNames
           /\ \A n \in DOMAIN spec.deps :
                 /\ spec.deps[n].deployment \in Deployments
                 /\ spec.deps[n].min \in Int32 /\ spec.deps[n].max \in Int32
<1>1. PICK names \in SUBSET DependencyNames : spec \in SpecOver(names, DependencyNames, Deployments)
  BY SpecAssumption
<1>2. /\ spec.deps \in [names -> DependencySpec(DependencyNames, Deployments)]
      /\ spec.deployment \in Deployments
      /\ spec.up \in Int32 /\ spec.min \in Int32 /\ spec.max \in Int32
      /\ spec.cooldown \in Nat
  BY <1>1 DEF SpecOver
<1>3. \A n \in names : spec.deps[n] \in DependencySpec(DependencyNames, Deployments)
  BY <1>2
<1> QED
  BY <1>2, <1>3 DEF DependencySpec

\* The target and every declared dependency carry the bounds validateSpec checked.
LEMMA ComponentFacts ==
    ASSUME NEW spec \in Specs
    PROVE  /\ "target" \in Components(spec)
           /\ Components(spec) \subseteq ComponentNames
           /\ \A k \in Components(spec) :
                 /\ DeploymentOf(spec, k) \in Deployments
                 /\ DeploymentOf(spec, k) = Envelope(spec, k).deployment
                 /\ Envelope(spec, k) \in Envelopes
<1>1. /\ spec.deployment \in Deployments
      /\ DOMAIN spec.deps \subseteq DependencyNames
      /\ \A n \in DOMAIN spec.deps : spec.deps[n].deployment \in Deployments
  BY SpecFacts
<1>2. "target" \in Components(spec) /\ Components(spec) \subseteq ComponentNames
  BY <1>1 DEF Components, ComponentNames
<1>3. ASSUME NEW k \in Components(spec)
      PROVE  /\ DeploymentOf(spec, k) \in Deployments
             /\ DeploymentOf(spec, k) = Envelope(spec, k).deployment
  BY <1>1 DEF Components, DeploymentOf, Envelope
<1>4. \A k \in Components(spec) : Envelope(spec, k) \in Envelopes
  <2> SUFFICES ASSUME NEW k \in Components(spec)
               PROVE  \E s \in Specs : Envelope(spec, k) \in {Envelope(s, j) : j \in Components(s)}
    BY DEF Envelopes
  <2>1. Envelope(spec, k) \in {Envelope(spec, j) : j \in Components(spec)}
    OBVIOUS
  <2> QED
    BY <2>1
<1> QED
  BY <1>2, <1>3, <1>4

\* The bounds of a component are numbers.
LEMMA EnvelopeInts ==
    ASSUME NEW spec \in Specs, NEW k \in Components(spec)
    PROVE  /\ Envelope(spec, k).min \in Int
           /\ Envelope(spec, k).max \in Int
           /\ Envelope(spec, k).up \in Int
<1>1. CASE k = "target"
  <2>1. /\ Envelope(spec, k).min = spec.min /\ Envelope(spec, k).max = spec.max
        /\ Envelope(spec, k).up = spec.up
    BY <1>1 DEF Envelope
  <2> QED
    BY <2>1, SpecFacts DEF Int32
<1>2. CASE k # "target"
  <2>1. /\ Envelope(spec, k).min = spec.deps[k].min
        /\ Envelope(spec, k).max = spec.deps[k].max
        /\ Envelope(spec, k).up = spec.up
    BY <1>2 DEF Envelope
  <2>2. k \in DOMAIN spec.deps
    BY <1>2 DEF Components
  <2> QED
    BY <2>1, <2>2, SpecFacts DEF Int32
<1> QED
  BY <1>1, <1>2

-----------------------------------------------------------------------------
\* Whole seconds.

\* Milliseconds keep the order of seconds.
LEMMA ScaledOrder ==
    ASSUME NEW x \in Int, NEW y \in Int, x <= y
    PROVE  TicksPerSecond * x <= TicksPerSecond * y
<1>1. TicksPerSecond \in Nat
  BY ClockAssumption
<1>2. y - x \in Nat
  OBVIOUS
<1>3. \A u, v \in Nat : u * v >= 0
  OBVIOUS
<1>4. TicksPerSecond * (y - x) >= 0
  BY <1>1, <1>2, <1>3
<1>5. TicksPerSecond * (y - x) = TicksPerSecond * y - TicksPerSecond * x
  BY <1>1
<1> QED
  BY <1>1, <1>4, <1>5

\* Truncating to whole seconds (metav1.Time) loses less than a second and never
\* moves a time forward.
LEMMA Seconds ==
    ASSUME NEW a \in Int
    PROVE  /\ a \div TicksPerSecond \in Int
           /\ a % TicksPerSecond \in 0..TicksPerSecond - 1
           /\ a = TicksPerSecond * (a \div TicksPerSecond) + (a % TicksPerSecond)
<1>1. a \div TicksPerSecond \in Int
  BY ClockAssumption
<1>2. a % TicksPerSecond \in 0..TicksPerSecond - 1
  BY ClockAssumption
<1>3. a = TicksPerSecond * (a \div TicksPerSecond) + (a % TicksPerSecond)
  BY ClockAssumption
<1> QED
  BY <1>1, <1>2, <1>3

\* A truncated time is truncated already: storing it again changes nothing.
LEMMA SecondsAreWhole ==
    ASSUME NEW k \in Int
    PROVE  (TicksPerSecond * k) % TicksPerSecond = 0
<1> DEFINE q == (TicksPerSecond * k) \div TicksPerSecond
           r == (TicksPerSecond * k) % TicksPerSecond
<1>1. TicksPerSecond \in Nat \ {0}
  BY ClockAssumption
<1>2. /\ TicksPerSecond * k = TicksPerSecond * q + r
      /\ r \in 0..TicksPerSecond - 1 /\ q \in Int
  <2>1. TicksPerSecond * k \in Int
    BY <1>1
  <2> QED
    BY <2>1, Seconds
<1> HIDE DEF q, r
<1>3. q <= k
  <2>1. SUFFICES ASSUME k + 1 <= q PROVE FALSE
    BY <1>2
  <2>2. TicksPerSecond * (k + 1) <= TicksPerSecond * q
    BY <2>1, <1>2, ScaledOrder
  <2>3. TicksPerSecond * (k + 1) = TicksPerSecond * k + TicksPerSecond
    BY <1>1
  <2> QED
    BY <1>1, <1>2, <2>2, <2>3
<1>4. k <= q
  <2>1. SUFFICES ASSUME q + 1 <= k PROVE FALSE
    BY <1>2
  <2>2. TicksPerSecond * (q + 1) <= TicksPerSecond * k
    BY <2>1, <1>2, ScaledOrder
  <2>3. TicksPerSecond * (q + 1) = TicksPerSecond * q + TicksPerSecond
    BY <1>1, <1>2
  <2> QED
    BY <1>1, <1>2, <2>2, <2>3
<1>5. q = k
  BY <1>2, <1>3, <1>4
<1>6. r = 0
  BY <1>1, <1>2, <1>5
<1> QED
  BY <1>6 DEF r

\* Storing a time rounds it down to a second, and never below a whole second
\* that has passed.
LEMMA StoredFacts ==
    ASSUME NEW t \in Nat
    PROVE  /\ Stored(t) \in Nat /\ Stored(t) <= t
           /\ Stored(t) % TicksPerSecond = 0
           /\ \A a \in Nat : a % TicksPerSecond = 0 /\ a <= t => a <= Stored(t)
<1>1. Stored(t) \in Nat /\ Stored(t) <= t
  BY ClockAssumption DEF Stored
<1> DEFINE n == t \div TicksPerSecond
<1>2. Stored(t) = TicksPerSecond * n
  BY ClockAssumption DEF Stored
<1>3. n \in Int /\ t = TicksPerSecond * n + (t % TicksPerSecond)
      /\ t % TicksPerSecond \in 0..TicksPerSecond - 1
  BY Seconds
<1> HIDE DEF n
<1>4. Stored(t) % TicksPerSecond = 0
  BY <1>2, <1>3, SecondsAreWhole
<1>5. ASSUME NEW a \in Nat, a % TicksPerSecond = 0, a <= t
      PROVE  a <= Stored(t)
  <2> DEFINE m == a \div TicksPerSecond
  <2>1. a = TicksPerSecond * m /\ m \in Int
    BY <1>5, Seconds, ClockAssumption
  <2> HIDE DEF m
  <2>2. m <= n
    <3>1. SUFFICES ASSUME n + 1 <= m PROVE FALSE
      BY <1>3, <2>1
    <3>2. TicksPerSecond * (n + 1) <= TicksPerSecond * m
      BY <1>3, <2>1, <3>1, ScaledOrder
    <3>3. TicksPerSecond * (n + 1) = TicksPerSecond * n + TicksPerSecond
      BY <1>3, ClockAssumption
    <3>4. t % TicksPerSecond \in Int /\ TicksPerSecond * n \in Int
      BY <1>3, ClockAssumption
    <3> QED
      BY <1>3, <1>5, <2>1, <3>2, <3>3, <3>4, ClockAssumption
  <2> QED
    BY <1>2, <1>3, <2>1, <2>2, ScaledOrder
<1> QED
  BY <1>1, <1>4, <1>5

\* The sum of two whole numbers of seconds is one.
LEMMA SecondsAdd ==
    ASSUME NEW a \in Nat, NEW b \in Nat,
           a % TicksPerSecond = 0, b % TicksPerSecond = 0
    PROVE  (a + b) % TicksPerSecond = 0
<1> DEFINE m == a \div TicksPerSecond
           n == b \div TicksPerSecond
<1>1. a = TicksPerSecond * m /\ b = TicksPerSecond * n /\ m \in Int /\ n \in Int
  BY Seconds, ClockAssumption
<1> HIDE DEF m, n
<1>2. TicksPerSecond * (m + n) = TicksPerSecond * m + TicksPerSecond * n
  BY <1>1, ClockAssumption
<1>3. a + b = TicksPerSecond * (m + n)
  BY <1>1, <1>2
<1> QED
  BY <1>1, <1>3, SecondsAreWhole

-----------------------------------------------------------------------------
\* What the policy decides.

\* d is a decision about a component of spec; if it is to be written it starts
\* from the count read, inside the component's bounds, and asks for a bounded
\* step up - or for a count that has wrapped around.
SoundStep(spec, reads, d) ==
    LET e == Envelope(spec, d.component)
    IN  /\ d.component \in Components(spec)
        /\ d.current = reads[d.component]
        /\ d.current \in ReplicaCounts
        /\ e.min <= d.current
        /\ \/ d.desired < 0
           \/ /\ d.current < d.desired
              /\ d.desired <= e.max
              /\ d.desired <= d.current + e.up

\* The cooldown that the decision observed.
CooldownOver(spec, lastScale, time) ==
    lastScale # Never => spec.cooldown = 0 \/ time >= lastScale + spec.cooldown

\* A step from a count inside valid bounds is bounded, or has wrapped.
LEMMA StepUpFacts ==
    ASSUME NEW c, NEW up \in Int32,
           c.current \in ReplicaCounts, c.min \in Int32, c.max \in Int32,
           validateComponent(c, up, 1)
    PROVE  /\ StepUp(c, up) \in Int
           /\ StepUp(c, up) # c.current =>
                 \/ StepUp(c, up) < 0
                 \/ /\ c.current < StepUp(c, up)
                    /\ StepUp(c, up) <= c.max
                    /\ StepUp(c, up) <= c.current + up
BY MaxIntAssumption DEF ReplicaCounts, Int32, validateComponent, StepUp, Add32

ReadsType == [ComponentNames -> ReplicaCounts \union {Unread}]

\* The components as the policy sees them: valid ones carry the count read.
LEMMA TargetFacts ==
    ASSUME NEW spec \in Specs, NEW reads \in ReadsType,
           validateComponent(TargetInput(spec, reads["target"]), spec.up, 1)
    PROVE  LET c == TargetInput(spec, reads["target"])
           IN  /\ c.name = "target" /\ c.current = reads["target"]
               /\ c.current \in ReplicaCounts
               /\ c.min = Envelope(spec, "target").min /\ c.min \in Int32
               /\ c.max = Envelope(spec, "target").max /\ c.max \in Int32
               /\ c.min <= c.current
               /\ Envelope(spec, "target").up = spec.up
<1>1. reads["target"] \in ReplicaCounts \union {Unread}
  BY DEF ReadsType, ComponentNames
<1> QED
  BY <1>1, SpecFacts DEF validateComponent, TargetInput, Envelope, Int32, ReplicaCounts, Unread

\* Whichever dependency decide picks, its bounds are those of the spec and its
\* replica count is the one that was read for its Deployment.
LEMMA DependencyFacts ==
    ASSUME NEW spec \in Specs, NEW reads \in ReadsType,
           "target" \notin DOMAIN spec.deps, NEW n \in DOMAIN spec.deps,
           validateComponent(DependencyInput(spec, reads, n), spec.up, 1)
    PROVE  LET c == DependencyInput(spec, reads, n)
           IN  /\ c.name = n /\ c.current = reads[n]
               /\ c.current \in ReplicaCounts
               /\ c.min = Envelope(spec, n).min /\ c.min \in Int32
               /\ c.max = Envelope(spec, n).max /\ c.max \in Int32
               /\ c.min <= c.current
               /\ Envelope(spec, n).up = spec.up
<1>1. reads[n] \in ReplicaCounts \union {Unread}
  BY SpecFacts DEF ReadsType, ComponentNames
<1>2. n # "target"
  OBVIOUS
<1> QED
  BY <1>1, <1>2, SpecFacts
  DEF validateComponent, DependencyInput, Envelope, Int32, ReplicaCounts, Unread

\* EvaluateCapacity, whatever the analysis: a well-typed decision about a known
\* component, a scale action only as a sound step outside the cooldown; and a
\* healthy hold is about the target.
LEMMA ReactiveFacts ==
    ASSUME NEW spec \in Specs, "target" \notin DOMAIN spec.deps,
           NEW reads \in ReadsType,
           NEW analysis, NEW lastScale \in Int, NEW time \in Nat
    PROVE  LET d == ReactiveDecision(spec, analysis, reads, lastScale, time)
           IN  /\ d \in DecisionType
               /\ d.component \in Components(spec)
               /\ Writes(d) => /\ SoundStep(spec, reads, d)
                               /\ CooldownOver(spec, lastScale, time)
               /\ d.action = "HOLD" /\ analysis.class = "HEALTHY" =>
                     /\ d.component = "target"
                     /\ d.current = reads["target"]
<1> DEFINE target == TargetInput(spec, reads["target"])
           dep(n) == DependencyInput(spec, reads, n)
           deps == [n \in DOMAIN spec.deps |-> dep(n)]
           in == [analysis |-> analysis, target |-> target, deps |-> deps,
                  up |-> spec.up, down |-> 1, cooldown |-> spec.cooldown,
                  lastScale |-> lastScale, now |-> time]
           d == ReactiveDecision(spec, analysis, reads, lastScale, time)
           Sound(e) == /\ e \in DecisionType
                       /\ e.component \in Components(spec)
                       /\ Writes(e) => /\ SoundStep(spec, reads, e)
                                       /\ CooldownOver(spec, lastScale, time)
<1>1. d = EvaluateCapacity(in)
  BY DEF ReactiveDecision
<1>2. /\ target.name = "target" /\ target.current = reads["target"]
      /\ target.current \in Int
  BY DEF TargetInput, ReadsType, ComponentNames, ReplicaCounts, Unread
<1>3. \A n \in DOMAIN spec.deps :
         /\ deps[n] = dep(n) /\ dep(n).name = n
         /\ dep(n).current \in Int
         /\ n \in Components(spec) /\ n \in ComponentNames
  BY SpecFacts
  DEF DependencyInput, ReadsType, ComponentNames, Components, ReplicaCounts, Unread
<1>4. ASSUME NEW action \in Actions
      PROVE  /\ Sound(Keep(action, target))
             /\ Keep(action, target).component = "target"
             /\ Keep(action, target).current = reads["target"]
  BY <1>2, ComponentFacts DEF Keep, Decision, DecisionType, Writes, ComponentNames
<1>5. ASSUME NEW action \in Actions, NEW n \in DOMAIN spec.deps
      PROVE  Sound(Keep(action, deps[n]))
  BY <1>3 DEF Keep, Decision, DecisionType, Writes
<1>6. ~CooldownActive(in) => CooldownOver(spec, lastScale, time)
  BY SpecFacts DEF CooldownActive, CooldownOver
<1>7. ASSUME ~CooldownActive(in), validateComponent(target, spec.up, 1),
             StepUp(target, spec.up) # target.current
      PROVE  Sound(Decision("SCALE_TARGET", target, StepUp(target, spec.up)))
  <2>1. spec.up \in Int32
    BY SpecFacts
  <2>2. /\ StepUp(target, spec.up) \in Int
        /\ \/ StepUp(target, spec.up) < 0
           \/ /\ target.current < StepUp(target, spec.up)
              /\ StepUp(target, spec.up) <= target.max
              /\ StepUp(target, spec.up) <= target.current + spec.up
    BY <1>7, <2>1, TargetFacts, StepUpFacts
  <2> HIDE DEF target
  <2> DEFINE e == Decision("SCALE_TARGET", target, StepUp(target, spec.up))
  <2>3. /\ e.action = "SCALE_TARGET" /\ e.component = "target"
        /\ e.current = target.current /\ e.desired = StepUp(target, spec.up)
        /\ e \in [action : Actions, component : ComponentNames, current : Int, desired : Int]
    BY <1>2, <2>2 DEF Decision, Actions, ComponentNames
  <2> HIDE DEF e
  <2>4. SoundStep(spec, reads, e)
    BY <1>2, <1>7, <2>2, <2>3, TargetFacts, ComponentFacts DEF SoundStep, target
  <2> QED
    BY <1>6, <1>7, <2>3, <2>4, ComponentFacts DEF DecisionType, e
<1>8. ASSUME ~CooldownActive(in), NEW n \in DOMAIN spec.deps,
             validateComponent(deps[n], spec.up, 1),
             StepUp(deps[n], spec.up) # deps[n].current
      PROVE  Sound(Decision("SCALE_DEPENDENCY", deps[n], StepUp(deps[n], spec.up)))
  <2>0. deps[n] = DependencyInput(spec, reads, n)
    BY <1>3
  <2>1. spec.up \in Int32
    BY SpecFacts
  <2> DEFINE c == deps[n]
  <2>5. /\ c.name = n /\ c.current = reads[n] /\ c.current \in ReplicaCounts
        /\ c.min = Envelope(spec, n).min /\ c.min \in Int32
        /\ c.max = Envelope(spec, n).max /\ c.max \in Int32
        /\ c.min <= c.current
        /\ Envelope(spec, n).up = spec.up
    BY <1>8, <2>0, DependencyFacts
  <2> HIDE DEF c
  <2>2. /\ StepUp(c, spec.up) \in Int
        /\ \/ StepUp(c, spec.up) < 0
           \/ /\ c.current < StepUp(c, spec.up)
              /\ StepUp(c, spec.up) <= c.max
              /\ StepUp(c, spec.up) <= c.current + spec.up
    <3>1. validateComponent(c, spec.up, 1) /\ StepUp(c, spec.up) # c.current
      BY <1>8 DEF c
    <3> QED
      BY <3>1, <2>1, <2>5, StepUpFacts
  <2> DEFINE e == Decision("SCALE_DEPENDENCY", c, StepUp(c, spec.up))
  <2>3. /\ e.action = "SCALE_DEPENDENCY" /\ e.component = n
        /\ e.current = c.current /\ e.desired = StepUp(c, spec.up)
        /\ e \in [action : Actions, component : ComponentNames, current : Int, desired : Int]
    <3>1. n \in ComponentNames
      BY <1>3
    <3>2. c.current \in Int
      BY <2>5 DEF ReplicaCounts
    <3> QED
      BY <2>5, <2>2, <3>1, <3>2 DEF Decision, Actions
  <2> HIDE DEF e
  <2>4. SoundStep(spec, reads, e)
    BY <1>3, <2>2, <2>3, <2>5 DEF SoundStep
  <2>6. Sound(e)
    BY <1>3, <1>6, <1>8, <2>3, <2>4 DEF DecisionType
  <2> QED
    BY <2>6 DEF e, c
<1> DEFINE named == analysis.component \in DOMAIN spec.deps
           dependency == deps[analysis.component]
           scaleUp(action, c) ==
               IF StepUp(c, spec.up) = c.current THEN Keep("HOLD", c)
               ELSE Decision(action, c, StepUp(c, spec.up))
           valid == validateComponent(target, spec.up, 1)
           validDependency == validateComponent(dependency, spec.up, 1)
<1>9. EvaluateCapacity(in) =
        IF analysis.class = "UNCERTAIN" \/ ~valid
          THEN Keep("PROTECTED_MODE", target)
        ELSE IF analysis.class = "CAPACITY_BLOCKED"
          THEN IF named /\ ~dependency.scalable /\ validDependency
               THEN Keep("HOLD", dependency)
               ELSE Keep("PROTECTED_MODE", target)
        ELSE IF CooldownActive(in) \/ analysis.class = "HEALTHY"
          THEN Keep("HOLD", target)
        ELSE IF analysis.class = "DEPENDENCY_SATURATED"
          THEN IF ~named
                 THEN Keep("PROTECTED_MODE", target)
               ELSE IF dependency.scalable /\ validDependency
                 THEN scaleUp("SCALE_DEPENDENCY", dependency)
               ELSE Keep("PROTECTED_MODE", dependency)
        ELSE IF analysis.class = "TARGET_SATURATED"
          THEN scaleUp("SCALE_TARGET", target)
        ELSE Keep("PROTECTED_MODE", target)
  BY Zenon DEF EvaluateCapacity
<1>10. {"PROTECTED_MODE", "HOLD"} \subseteq Actions
  BY DEF Actions
<1> HIDE DEF target, dep, deps, in, d, Sound
<1>11. ASSUME ~CooldownActive(in), named, validDependency
       PROVE  Sound(scaleUp("SCALE_DEPENDENCY", dependency))
  BY <1>11, <1>5, <1>8, <1>10
<1>12. ASSUME ~CooldownActive(in), valid
       PROVE  Sound(scaleUp("SCALE_TARGET", target))
  BY <1>12, <1>4, <1>7, <1>10
<1>13. Sound(Keep("PROTECTED_MODE", target)) /\ Sound(Keep("HOLD", target))
  BY <1>4, <1>10
<1>14. named => /\ Sound(Keep("PROTECTED_MODE", dependency))
                /\ Sound(Keep("HOLD", dependency))
  BY <1>5, <1>10
<1> HIDE DEF scaleUp, dependency, named, valid, validDependency
<1>15. Sound(EvaluateCapacity(in))
  BY <1>9, <1>11, <1>12, <1>13, <1>14, Zenon
<1>16. analysis.class = "HEALTHY" =>
         \/ EvaluateCapacity(in) = Keep("PROTECTED_MODE", target)
         \/ EvaluateCapacity(in) = Keep("HOLD", target)
  BY <1>9
<1>17. analysis.class = "HEALTHY" =>
         /\ EvaluateCapacity(in).component = "target"
         /\ EvaluateCapacity(in).current = reads["target"]
  BY <1>4, <1>10, <1>16
<1> QED
  BY <1>1, <1>15, <1>17 DEF Sound, d

\* A decision as the write path needs it.
SoundDecision(spec, reads, lastScale, time, d) ==
    /\ d \in DecisionType
    /\ d.component \in Components(spec)
    /\ Writes(d) => /\ SoundStep(spec, reads, d)
                    /\ CooldownOver(spec, lastScale, time)

\* A prescale of the target from the count read is as sound as a reactive step.
LEMMA PrescaleFacts ==
    ASSUME NEW spec \in Specs, NEW reads \in ReadsType,
           NEW lastScale \in Int, NEW time \in Nat,
           CooldownOver(spec, lastScale, time),
           validateComponent(TargetInput(spec, reads["target"]), spec.up, 1),
           StepUp(TargetInput(spec, reads["target"]), spec.up) # reads["target"]
    PROVE  LET c == TargetInput(spec, reads["target"])
           IN  SoundDecision(spec, reads, lastScale, time,
                             Decision("PRESCALE_TARGET", c, StepUp(c, spec.up)))
<1> DEFINE c == TargetInput(spec, reads["target"])
           d == Decision("PRESCALE_TARGET", c, StepUp(c, spec.up))
<1>1. /\ c.name = "target" /\ c.current = reads["target"]
      /\ c.current \in ReplicaCounts
      /\ c.min = Envelope(spec, "target").min /\ c.min \in Int32
      /\ c.max = Envelope(spec, "target").max /\ c.max \in Int32
      /\ c.min <= c.current
      /\ Envelope(spec, "target").up = spec.up
  BY TargetFacts
<1>2. /\ spec.up \in Int32
      /\ validateComponent(c, spec.up, 1) /\ StepUp(c, spec.up) # c.current
  BY SpecFacts, <1>1
<1> HIDE DEF c
<1>3. /\ StepUp(c, spec.up) \in Int
      /\ \/ StepUp(c, spec.up) < 0
         \/ /\ c.current < StepUp(c, spec.up)
            /\ StepUp(c, spec.up) <= c.max
            /\ StepUp(c, spec.up) <= c.current + spec.up
  BY <1>1, <1>2, StepUpFacts
<1>4. /\ d.action = "PRESCALE_TARGET" /\ d.component = "target"
      /\ d.current = c.current /\ d.desired = StepUp(c, spec.up)
      /\ d \in DecisionType
  <2>1. c.current \in Int
    BY <1>1 DEF ReplicaCounts
  <2> QED
    BY <1>1, <1>3, <2>1 DEF Decision, Actions, ComponentNames, DecisionType
<1> HIDE DEF d
<1>5. SoundStep(spec, reads, d)
  BY <1>1, <1>3, <1>4, ComponentFacts DEF SoundStep
<1>6. SoundDecision(spec, reads, lastScale, time, d)
  BY <1>4, <1>5, ComponentFacts DEF SoundDecision
<1> QED
  BY <1>6 DEF c, d

\* What a reconcile writes is sound, whatever telemetry and forecast say.
LEMMA DecideFacts ==
    ASSUME NEW spec \in Specs, "target" \notin DOMAIN spec.deps,
           NEW reads \in ReadsType, NEW telemetry, NEW forecast,
           NEW lastScale \in Int, NEW time \in Nat
    PROVE  SoundDecision(spec, reads, lastScale, time,
                         Decide(spec, telemetry, reads, forecast, lastScale, time))
<1> DEFINE s == Snapshot(spec, telemetry, reads)
           analysis == Analyze(s)
           reactive == ReactiveDecision(spec, analysis, reads, lastScale, time)
           target == TargetInput(spec, reactive.current)
           in == [decision    |-> reactive,
                  class       |-> analysis.class,
                  forecast    |-> forecast,
                  healthy     |-> dependenciesHealthy(s.deps),
                  unsaturated |-> usable(s.hottest) /\ s.hottest.value < s.safe,
                  realized    |-> CapacityRealized(s, telemetry.pods, reads["target"]),
                  target      |-> target,
                  up          |-> spec.up,
                  cooldown    |-> spec.cooldown,
                  lastScale   |-> lastScale,
                  now         |-> time]
           rejected == [reactive EXCEPT !.desired = reactive.current]
           prescale == Decision("PRESCALE_TARGET", target, StepUp(target, spec.up))
           final == PredictedDecision(spec, s, telemetry.pods, analysis, reactive,
                                      forecast, reads["target"], lastScale, time)
           Sound(d) == SoundDecision(spec, reads, lastScale, time, d)
<1>1. /\ Sound(reactive)
      /\ reactive.action = "HOLD" /\ analysis.class = "HEALTHY" =>
            /\ reactive.component = "target"
            /\ reactive.current = reads["target"]
  BY ReactiveFacts DEF SoundDecision
<1>2. \/ final = reactive
      \/ final = EvaluatePrescale(in)
  BY DEF PredictedDecision
<1>3. \/ EvaluatePrescale(in) = reactive
      \/ /\ reactive.action = "HOLD" /\ analysis.class = "HEALTHY"
         /\ \/ EvaluatePrescale(in) = rejected
            \/ /\ EvaluatePrescale(in) = prescale
               /\ ~CooldownActive(in)
               /\ validateComponent(target, spec.up, 1)
               /\ StepUp(target, spec.up) # target.current
  BY DEF EvaluatePrescale
<1>4. ~CooldownActive(in) => CooldownOver(spec, lastScale, time)
  BY SpecFacts DEF CooldownActive, CooldownOver
<1>5. target.current = reactive.current
  BY DEF TargetInput
<1> HIDE DEF in, reactive, analysis
<1>6. reactive.action = "HOLD" => Sound(rejected)
  <2>1. reactive \in DecisionType
    BY <1>1 DEF SoundDecision
  <2>2. /\ rejected \in DecisionType /\ rejected.component = reactive.component
        /\ rejected.action = reactive.action
    BY <2>1 DEF DecisionType
  <2> HIDE DEF rejected
  <2> QED
    BY <1>1, <2>2 DEF SoundDecision, Writes, ScaleActions
<1>7. ASSUME reactive.action = "HOLD", analysis.class = "HEALTHY", ~CooldownActive(in),
             validateComponent(target, spec.up, 1), StepUp(target, spec.up) # target.current
      PROVE  Sound(prescale)
  BY <1>1, <1>4, <1>5, <1>7, PrescaleFacts
<1> HIDE DEF rejected, prescale, target, final
<1>8. Sound(final)
  BY <1>1, <1>2, <1>3, <1>6, <1>7
<1>9. /\ reads["target"] \in Int
      /\ "HOLD" \in Actions
  BY DEF ReadsType, ComponentNames, ReplicaCounts, Unread, Actions
<1>10. ASSUME final.component = "target"
       PROVE  Sound([final EXCEPT !.action = "HOLD", !.current = reads["target"],
                                  !.desired = reads["target"]])
  <2> DEFINE d == [final EXCEPT !.action = "HOLD", !.current = reads["target"],
                                !.desired = reads["target"]]
  <2>1. final \in DecisionType
    BY <1>8 DEF SoundDecision
  <2>2. d \in DecisionType /\ d.action = "HOLD" /\ d.component = final.component
    BY <1>9, <2>1 DEF DecisionType
  <2> HIDE DEF d
  <2>3. Sound(d)
    BY <1>8, <2>2 DEF SoundDecision, Writes, ScaleActions
  <2> QED
    BY <2>3 DEF d
<1>11. Sound(holdTargetScaleForUnrealizedCapacity(final, s, reads["target"]))
  BY <1>8, <1>10 DEF holdTargetScaleForUnrealizedCapacity
<1>12. Decide(spec, telemetry, reads, forecast, lastScale, time)
         = holdTargetScaleForUnrealizedCapacity(final, s, reads["target"])
  BY Zenon DEF Decide, final, analysis, reactive
<1> QED
  BY <1>11, <1>12

-----------------------------------------------------------------------------
\* Types.

\* The decision that writes no scale is a decision.
LEMMA UnscaledType ==
    /\ Unscaled \in DecisionType
    /\ Protected \in DecisionType
    /\ InitialResource \in ResourceType
    /\ AllUnread \in [ComponentNames -> ReplicaCounts \union {Unread}]
    /\ InitialResource.lastScaleTime = Never
<1>1. Unscaled \in DecisionType /\ Protected \in DecisionType
  BY DEF Unscaled, Protected, DecisionType, Actions, ComponentNames
<1> QED
  BY <1>1, SpecAssumption DEF InitialResource, ResourceType, AllUnread, Never

\* Whatever a reconcile does last, its locals keep their types.
LEMMA ReturnType ==
    ASSUME TypeOK, NEW c \in Controllers, Return(c)
    PROVE  /\ pc' \in [Controllers -> {"idle", "readTarget", "query", "write", "record", "status"}]
           /\ held' \in [Controllers -> ResourceType]
           /\ read' \in [Controllers -> [ComponentNames -> ReplicaCounts \union {Unread}]]
           /\ now' \in [Controllers -> Nat]
           /\ decision' \in [Controllers -> DecisionType]
BY UnscaledType DEF TypeOK, Return

\* One more Scale is known, and what was read of the others is as it was.
ReadsMore(c, k, v) ==
    /\ read' \in [Controllers -> [ComponentNames -> ReplicaCounts \union {Unread}]]
    /\ readCurrent' \subseteq Controllers \X ComponentNames
    /\ read'[c][k] = v
    /\ \A b \in Controllers, m \in ComponentNames :
          <<b, m>> # <<c, k>> => read'[b][m] = read[b][m]

\* A step that stores the count it has read of one Scale is such a step.
LEMMA ReadMore ==
    ASSUME TypeOK, NEW c \in Controllers, NEW k \in ComponentNames, NEW v \in ReplicaCounts,
           read' = [read EXCEPT ![c][k] = v], readCurrent' = readCurrent \union {<<c, k>>}
    PROVE  ReadsMore(c, k, v)
<1> DEFINE counts == [ComponentNames -> ReplicaCounts \union {Unread}]
           reads == [read[c] EXCEPT ![k] = v]
<1>1. read \in [Controllers -> counts] /\ readCurrent \subseteq Controllers \X ComponentNames
  BY DEF TypeOK
<1>2. reads \in counts /\ reads[k] = v
      /\ \A m \in ComponentNames : m # k => reads[m] = read[c][m]
  BY <1>1
<1>3. read' = [read EXCEPT ![c] = reads]
  OBVIOUS
<1> HIDE DEF counts, reads
<1>4. read' \in [Controllers -> counts] /\ read'[c] = reads
      /\ \A b \in Controllers : b # c => read'[b] = read[b]
  BY <1>1, <1>2, <1>3
<1> QED
  BY <1>1, <1>2, <1>4 DEF counts, ReadsMore

\* What each reconcile knows at its program counter: until the decision is taken
\* the spec is one validateSpec let through; a decision waiting to be written is
\* sound for the spec and the reads held; one written observed the cooldown.
Prepared ==
    \A c \in Controllers :
        /\ pc[c] \in {"readTarget", "query"} => "target" \notin DOMAIN held[c].spec.deps
        /\ pc[c] = "write" => SoundStep(held[c].spec, read[c], decision[c])
        /\ pc[c] \in {"write", "record"} =>
              CooldownOver(held[c].spec, held[c].lastScaleTime, now[c])

\* A decision is a decision of the spec and the reads the reconcile holds.
LEMMA TakenDecision ==
    ASSUME TypeOK, Prepared, NEW c \in Controllers, TakeDecision(c)
    PROVE  /\ decision'[c] \in DecisionType
           /\ decision' = [decision EXCEPT ![c] = decision'[c]]
           /\ pc' = [pc EXCEPT ![c] = IF Writes(decision'[c]) THEN "write" ELSE "status"]
           /\ SoundDecision(held[c].spec, read[c], held[c].lastScaleTime, now[c], decision'[c])
<1>1. PICK t \in Telemetry, f \in Forecasts :
        LET d == Decide(held[c].spec, t, read[c], f, held[c].lastScaleTime, now[c])
        IN  /\ decision' = [decision EXCEPT ![c] = d]
            /\ pc' = [pc EXCEPT ![c] = IF Writes(d) THEN "write" ELSE "status"]
  BY DEF TakeDecision
<1> DEFINE d == Decide(held[c].spec, t, read[c], f, held[c].lastScaleTime, now[c])
<1>2. /\ held[c].spec \in Specs /\ read[c] \in ReadsType
      /\ held[c].lastScaleTime \in Int /\ now[c] \in Nat
      /\ "target" \notin DOMAIN held[c].spec.deps
  BY DEF TypeOK, Prepared, TakeDecision, ResourceType, ReadsType
<1>3. SoundDecision(held[c].spec, read[c], held[c].lastScaleTime, now[c], d)
  BY <1>2, DecideFacts
<1> HIDE DEF d
<1>4. decision' = [decision EXCEPT ![c] = d]
      /\ pc' = [pc EXCEPT ![c] = IF Writes(d) THEN "write" ELSE "status"]
  BY <1>1 DEF d
<1>5. decision'[c] = d
  BY <1>4 DEF TypeOK
<1> QED
  BY <1>3, <1>4, <1>5 DEF SoundDecision

\* Types need the decisions to be sound: nothing else keeps a count in range.
LEMMA TypeInductive ==
    /\ Init => TypeOK /\ Prepared
    /\ TypeOK /\ Prepared /\ [Next]_vars => TypeOK' /\ Prepared'
<1>1. Init => TypeOK /\ Prepared
  BY UnscaledType, ReplicaAssumption DEF Init, TypeOK, Prepared
<1>2. TypeOK /\ Prepared /\ [Next]_vars => TypeOK' /\ Prepared'
  <2> SUFFICES ASSUME TypeOK, Prepared, [Next]_vars PROVE TypeOK' /\ Prepared'
    OBVIOUS
  <2>1. ASSUME NEW c \in Controllers, Start(c) PROVE TypeOK' /\ Prepared'
    <3>1. TypeOK'
      BY <2>1, UnscaledType DEF TypeOK, Start
    <3>2. Prepared'
      BY <2>1 DEF TypeOK, Start, Prepared, validateSpec
    <3> QED
      BY <3>1, <3>2
  <2>2. ASSUME NEW c \in Controllers, ReadTarget(c) PROVE TypeOK' /\ Prepared'
    <3>1. held[c].spec.deployment \in Deployments
      BY SpecFacts DEF TypeOK, ResourceType
    <3>2. replicas[held[c].spec.deployment] \in ReplicaCounts /\ "target" \in ComponentNames
      BY <3>1 DEF TypeOK, ComponentNames
    <3>3. /\ read' \in [Controllers -> [ComponentNames -> ReplicaCounts \union {Unread}]]
          /\ readCurrent' \subseteq Controllers \X ComponentNames
      BY <2>2, <3>2, ReadMore DEF ReadTarget, ReadsMore
    <3>4. /\ pc' \in [Controllers -> {"idle", "readTarget", "query", "write", "record", "status"}]
          /\ now' \in [Controllers -> Nat]
          /\ decision' \in [Controllers -> DecisionType]
      <4>1. /\ \/ /\ pc' = [pc EXCEPT ![c] = "query"]
                  /\ now' = [now EXCEPT ![c] = clock]
                  /\ decision' = decision
               \/ /\ pc' = [pc EXCEPT ![c] = "status"]
                  /\ now' = now
                  /\ decision' = [decision EXCEPT ![c] = Protected]
        BY <2>2, Zenon DEF ReadTarget
      <4>2. /\ pc \in [Controllers -> {"idle", "readTarget", "query", "write", "record", "status"}]
            /\ now \in [Controllers -> Nat] /\ clock \in Nat
            /\ decision \in [Controllers -> DecisionType]
        BY DEF TypeOK
      <4>3. pc' \in [Controllers -> {"idle", "readTarget", "query", "write", "record", "status"}]
        BY <4>1, <4>2
      <4>4. now' \in [Controllers -> Nat]
        BY <4>1, <4>2
      <4>5. decision' \in [Controllers -> DecisionType]
        BY <4>1, <4>2, UnscaledType
      <4> QED
        BY <4>3, <4>4, <4>5
    <3>6. TypeOK'
      BY <2>2, <3>3, <3>4 DEF TypeOK, ReadTarget
    <3>5. Prepared'
      BY <2>2 DEF TypeOK, ReadTarget, Prepared
    <3> QED
      BY <3>5, <3>6
  <2>3. ASSUME NEW c \in Controllers, NEW n \in DependencyNames, ReadDependency(c, n)
        PROVE  TypeOK' /\ Prepared'
    <3>1. DeploymentOf(held[c].spec, n) \in Deployments
      BY <2>3, SpecFacts DEF TypeOK, ResourceType, ReadDependency, DeploymentOf
    <3>2. replicas[DeploymentOf(held[c].spec, n)] \in ReplicaCounts /\ n \in ComponentNames
      BY <3>1 DEF TypeOK, ComponentNames
    <3>3. /\ read' \in [Controllers -> [ComponentNames -> ReplicaCounts \union {Unread}]]
          /\ readCurrent' \subseteq Controllers \X ComponentNames
      BY <2>3, <3>2, ReadMore DEF ReadDependency, ReadsMore
    <3> QED
      BY <2>3, <3>3 DEF TypeOK, ReadDependency, Prepared
  <2>4. ASSUME NEW c \in Controllers, TakeDecision(c) PROVE TypeOK' /\ Prepared'
    <3>1. TypeOK'
      BY <2>4, TakenDecision DEF TypeOK, TakeDecision, versions
    <3>2. /\ pc'[c] = IF Writes(decision'[c]) THEN "write" ELSE "status"
          /\ \A b \in Controllers : b # c => pc'[b] = pc[b] /\ decision'[b] = decision[b]
          /\ SoundDecision(held[c].spec, read[c], held[c].lastScaleTime, now[c], decision'[c])
          /\ UNCHANGED <<held, read, now>>
      BY <2>4, TakenDecision DEF TypeOK, TakeDecision
    <3>3. Prepared'
      BY <3>2 DEF Prepared, SoundDecision
    <3> QED
      BY <3>1, <3>3
  <2>5. ASSUME NEW c \in Controllers, WriteScale(c) PROVE TypeOK' /\ Prepared'
    <3> DEFINE k == decision[c].component
               e == Envelope(held[c].spec, k)
    <3>1. /\ held[c].spec \in Specs /\ decision[c] \in DecisionType
          /\ SoundStep(held[c].spec, read[c], decision[c])
          /\ decision[c].desired >= 0
      BY <2>5 DEF WriteScale, TypeOK, ResourceType, Prepared
    <3>2. e.max \in Int32 /\ decision[c].desired \in Int
      BY <3>1, SpecFacts DEF SoundStep, Envelope, Components, DecisionType
    <3>3. decision[c].desired \in ReplicaCounts
      BY <3>1, <3>2, MaxIntAssumption DEF SoundStep, ReplicaCounts, Int32
    <3>4. ScaledDeployment(c) \in Deployments
      BY <3>1, ComponentFacts DEF SoundStep, ScaledDeployment
    <3>5. TypeOK'
      BY <2>5, <3>1, <3>3, <3>4 DEF TypeOK, WriteScale, ScaleAccepted, ReadsOfDeployment
    <3>6. Prepared'
      BY <2>5 DEF TypeOK, WriteScale, ScaleAccepted, Prepared
    <3> QED
      BY <3>5, <3>6
  <2>6. ASSUME NEW c \in Controllers, WriteStatus(c) PROVE TypeOK' /\ Prepared'
    <3>1. /\ StatusAccepted(c) /\ Return(c)
      BY <2>6 DEF WriteStatus, StatusAccepted
    <3>2. resource' \in ResourceType
      <4>1. /\ resource \in ResourceType /\ held[c] \in ResourceType
            /\ now[c] \in Nat /\ decision[c] \in DecisionType
        BY DEF TypeOK
      <4>2. Stored(now[c]) \in Int
        BY <4>1, StoredFacts
      <4> QED
        BY <3>1, <4>1, <4>2 DEF StatusAccepted, ResourceType
    <3>3. TypeOK'
      BY <3>1, <3>2, ReturnType DEF TypeOK, StatusAccepted, SupersedeResource, ReadsOf
    <3> QED
      BY <3>1, <3>3 DEF Return, Prepared, TypeOK
  <2>7. ASSUME NEW c \in Controllers, CallFails(c) PROVE TypeOK' /\ Prepared'
    <3>1. TypeOK'
      BY <2>7, ReturnType DEF TypeOK, CallFails, ReadsOf
    <3> QED
      BY <2>7, <3>1 DEF CallFails, Return, Prepared, TypeOK
  <2>8. ASSUME NEW c \in Controllers, Crash(c) PROVE TypeOK' /\ Prepared'
    <3>1. TypeOK'
      BY <2>8, ReturnType DEF TypeOK, Crash, ReadsOf
    <3> QED
      BY <2>8, <3>1 DEF Crash, Return, Prepared, TypeOK
  <2>9. ASSUME NEW c \in Controllers, SyncCache(c) PROVE TypeOK' /\ Prepared'
    BY <2>9 DEF TypeOK, SyncCache, process, Prepared
  <2>10. CASE Tick
    BY <2>10 DEF TypeOK, Tick, process, versions, Prepared
  <2>11. ASSUME NEW spec \in Specs, EditSpec(spec) PROVE TypeOK' /\ Prepared'
    <3>1. resource' \in ResourceType
      BY <2>11 DEF EditSpec, TypeOK, ResourceType
    <3> QED
      BY <2>11, <3>1 DEF TypeOK, EditSpec, SupersedeResource, process, Prepared
  <2>12. ASSUME NEW d \in Deployments, NEW n \in ExternalReplicas, ScaleExternally(d, n)
         PROVE  TypeOK' /\ Prepared'
    BY <2>12, ReplicaAssumption DEF TypeOK, ScaleExternally, process, Prepared
  <2>13. ASSUME NEW d \in Deployments, UpdateDeploymentStatus(d) PROVE TypeOK' /\ Prepared'
    BY <2>13 DEF TypeOK, UpdateDeploymentStatus, process, Prepared
  <2>14. CASE UNCHANGED vars
    BY <2>14 DEF TypeOK, vars, process, versions, Prepared
  <2> QED
    BY <2>1, <2>2, <2>3, <2>4, <2>5, <2>6, <2>7, <2>8, <2>9, <2>10, <2>11, <2>12, <2>13, <2>14
    DEF Next, Reconcile, Environment
<1> QED
  BY <1>1, <1>2

\* The variables keep to Go's static types: no step stores a negative or
\* oversized count, although decisions may carry one.
THEOREM TypeCorrect == Spec => []TypeOK
<1>1. Spec => [](TypeOK /\ Prepared)
  BY TypeInductive, PTL DEF Spec
<1> QED
  BY <1>1, PTL

-----------------------------------------------------------------------------
\* The replica counts.

\* A read whose version is current shows the count that is in the API server:
\* what makes the compare-and-swap of WriteScale sound.
Coherent ==
    \A c \in Controllers, k \in ComponentNames :
        <<c, k>> \in readCurrent =>
            /\ pc[c] \notin {"idle", "readTarget"}
            /\ k \in Components(held[c].spec)
            /\ read[c][k] = replicas[DeploymentOf(held[c].spec, k)]

\* A process that drops its reads and its locals disturbs nobody else's.
LEMMA ReturnCoherent ==
    ASSUME TypeOK, Coherent, NEW c \in Controllers, Return(c),
           readCurrent' = readCurrent \ ReadsOf(c), UNCHANGED replicas
    PROVE  Coherent'
BY DEF TypeOK, Coherent, Return, ReadsOf

\* A write to a Deployment that makes every read of it old keeps the others.
LEMMA WriteCoherent ==
    ASSUME TypeOK, Coherent, NEW d \in Deployments, NEW n,
           replicas' = [replicas EXCEPT ![d] = n],
           readCurrent' = readCurrent \ ReadsOfDeployment(d), UNCHANGED <<held, read>>,
           \A c \in Controllers : pc'[c] = pc[c] \/ pc'[c] = "record"
    PROVE  Coherent'
<1> SUFFICES ASSUME NEW c \in Controllers, NEW k \in ComponentNames, <<c, k>> \in readCurrent'
             PROVE  /\ pc'[c] \notin {"idle", "readTarget"}
                    /\ k \in Components(held'[c].spec)
                    /\ read'[c][k] = replicas'[DeploymentOf(held'[c].spec, k)]
  BY DEF Coherent
<1>1. <<c, k>> \in readCurrent /\ DeploymentOf(held[c].spec, k) # d
  BY DEF ReadsOfDeployment
<1>2. /\ pc[c] \notin {"idle", "readTarget"}
      /\ k \in Components(held[c].spec)
      /\ read[c][k] = replicas[DeploymentOf(held[c].spec, k)]
  BY <1>1 DEF Coherent
<1>3. held[c].spec \in Specs
  BY DEF TypeOK, ResourceType
<1>4. DeploymentOf(held[c].spec, k) \in Deployments
  BY <1>2, <1>3, ComponentFacts
<1>5. replicas'[DeploymentOf(held[c].spec, k)] = replicas[DeploymentOf(held[c].spec, k)]
  BY <1>1, <1>4 DEF TypeOK
<1> QED
  BY <1>2, <1>5

\* Coherent is inductive: what a reconcile holds between its calls stays the answer
\* of policy.decide to what it has read, whatever others write meanwhile.
LEMMA CoherentInductive ==
    /\ Init => Coherent
    /\ TypeOK /\ Prepared /\ Coherent /\ [Next]_vars => Coherent'
<1>1. Init => Coherent
  BY DEF Init, Coherent
<1>2. ASSUME TypeOK, Prepared, Coherent, [Next]_vars PROVE Coherent'
  <2>1. ASSUME NEW c \in Controllers, Start(c) PROVE Coherent'
    BY <1>2, <2>1 DEF TypeOK, Coherent, Start
  <2>2. ASSUME NEW c \in Controllers, ReadTarget(c) PROVE Coherent'
    <3>1. held[c].spec \in Specs /\ "target" \in ComponentNames
          /\ DeploymentOf(held[c].spec, "target") = held[c].spec.deployment
      BY <1>2 DEF TypeOK, ResourceType, ComponentNames, DeploymentOf
    <3>2. replicas[held[c].spec.deployment] \in ReplicaCounts
      BY <1>2, <3>1, SpecFacts DEF TypeOK
    <3>3. /\ read'[c]["target"] = replicas[held[c].spec.deployment]
          /\ \A b \in Controllers, m \in ComponentNames :
                <<b, m>> # <<c, "target">> => read'[b][m] = read[b][m]
      <4> DEFINE v == replicas[held[c].spec.deployment]
      <4>1. /\ read' = [read EXCEPT ![c]["target"] = v]
            /\ readCurrent' = readCurrent \union {<<c, "target">>}
        BY <2>2 DEF ReadTarget
      <4>2. v \in ReplicaCounts
        BY <3>2
      <4> HIDE DEF v
      <4>3. ReadsMore(c, "target", v)
        BY <1>2, <3>1, <4>1, <4>2, ReadMore
      <4> QED
        BY <4>3 DEF v, ReadsMore
    <3>4. /\ \A b \in Controllers : b # c => pc'[b] = pc[b]
          /\ pc'[c] \in {"query", "status"}
          /\ UNCHANGED <<held, replicas>>
          /\ readCurrent' = readCurrent \union {<<c, "target">>}
      BY <1>2, <2>2 DEF TypeOK, ReadTarget
    <3>5. "target" \in Components(held[c].spec)
      BY <3>1, ComponentFacts
    <3> QED
      BY <1>2, <3>1, <3>3, <3>4, <3>5 DEF Coherent
  <2>3. ASSUME NEW c \in Controllers, NEW n \in DependencyNames, ReadDependency(c, n)
        PROVE  Coherent'
    <3>1. held[c].spec \in Specs /\ n \in ComponentNames /\ n \in Components(held[c].spec)
      BY <1>2, <2>3 DEF TypeOK, ResourceType, ComponentNames, Components, ReadDependency
    <3>2. replicas[DeploymentOf(held[c].spec, n)] \in ReplicaCounts
      BY <1>2, <3>1, ComponentFacts DEF TypeOK
    <3>3. /\ read'[c][n] = replicas[DeploymentOf(held[c].spec, n)]
          /\ \A b \in Controllers, m \in ComponentNames :
                <<b, m>> # <<c, n>> => read'[b][m] = read[b][m]
      <4> DEFINE v == replicas[DeploymentOf(held[c].spec, n)]
      <4>1. read' = [read EXCEPT ![c][n] = v] /\ readCurrent' = readCurrent \union {<<c, n>>}
        BY <2>3 DEF ReadDependency
      <4>2. v \in ReplicaCounts
        BY <3>2
      <4> HIDE DEF v
      <4>3. ReadsMore(c, n, v)
        BY <1>2, <3>1, <4>1, <4>2, ReadMore
      <4> QED
        BY <4>3 DEF v, ReadsMore
    <3>4. /\ pc[c] = "query"
          /\ UNCHANGED <<held, replicas, pc>>
          /\ readCurrent' = readCurrent \union {<<c, n>>}
      BY <2>3 DEF ReadDependency
    <3> QED
      BY <1>2, <3>1, <3>3, <3>4 DEF Coherent
  <2>4. ASSUME NEW c \in Controllers, TakeDecision(c) PROVE Coherent'
    <3>1. /\ pc'[c] \in {"write", "status"}
          /\ \A b \in Controllers : b # c => pc'[b] = pc[b]
      BY <1>2, <2>4, TakenDecision DEF TypeOK
    <3>2. UNCHANGED <<held, read, replicas, readCurrent>>
      BY <2>4 DEF TakeDecision, versions
    <3> QED
      BY <1>2, <3>1, <3>2 DEF Coherent
  <2>5. ASSUME NEW c \in Controllers, WriteScale(c) PROVE Coherent'
    <3>1. held[c].spec \in Specs /\ SoundStep(held[c].spec, read[c], decision[c])
      BY <1>2, <2>5 DEF WriteScale, TypeOK, ResourceType, Prepared
    <3>2. ScaledDeployment(c) \in Deployments
      BY <3>1, ComponentFacts DEF SoundStep, ScaledDeployment
    <3>3. \A b \in Controllers : pc'[b] = pc[b] \/ pc'[b] = "record"
      BY <1>2, <2>5 DEF TypeOK, WriteScale, ScaleAccepted
    <3> QED
      BY <1>2, <2>5, <3>2, <3>3, WriteCoherent DEF WriteScale, ScaleAccepted
  <2>6. ASSUME NEW c \in Controllers, WriteStatus(c) PROVE Coherent'
    BY <1>2, <2>6, ReturnCoherent DEF WriteStatus, StatusAccepted
  <2>7. ASSUME NEW c \in Controllers, CallFails(c) PROVE Coherent'
    BY <1>2, <2>7, ReturnCoherent DEF CallFails
  <2>8. ASSUME NEW c \in Controllers, Crash(c) PROVE Coherent'
    BY <1>2, <2>8, ReturnCoherent DEF Crash
  <2>9. ASSUME NEW c \in Controllers, SyncCache(c) PROVE Coherent'
    BY <1>2, <2>9 DEF SyncCache, process, Coherent
  <2>10. CASE Tick
    BY <1>2, <2>10 DEF Tick, process, versions, Coherent
  <2>11. ASSUME NEW spec \in Specs, EditSpec(spec) PROVE Coherent'
    BY <1>2, <2>11 DEF EditSpec, process, Coherent
  <2>12. ASSUME NEW d \in Deployments, NEW n \in ExternalReplicas, ScaleExternally(d, n)
         PROVE  Coherent'
    BY <1>2, <2>12, WriteCoherent DEF ScaleExternally, process
  <2>13. ASSUME NEW d \in Deployments, UpdateDeploymentStatus(d) PROVE Coherent'
    BY <1>2, <2>13 DEF UpdateDeploymentStatus, process, Coherent
  <2>14. CASE UNCHANGED vars
    BY <1>2, <2>14 DEF vars, process, versions, Coherent
  <2> QED
    BY <1>2, <2>1, <2>2, <2>3, <2>4, <2>5, <2>6, <2>7, <2>8, <2>9, <2>10, <2>11, <2>12, <2>13, <2>14
    DEF Next, Reconcile, Environment
<1> QED
  BY <1>1, <1>2

\* The inductive invariant of the replica counts.
Steady == TypeOK /\ Prepared /\ Coherent

\* The inductive invariant behind the bounds on scale writes (Reconcile, applyScale).
THEOREM SteadyInvariant == Spec => []Steady
<1>1. Init => Steady
  BY TypeInductive, CoherentInductive DEF Steady
<1>2. Steady /\ [Next]_vars => Steady'
  BY TypeInductive, CoherentInductive DEF Steady
<1> QED
  BY <1>1, <1>2, PTL DEF Spec

\* An accepted Scale update is one bounded step of a component of the held
\* spec, from the count in the API server.
LEMMA ScaleIsRaise ==
    ASSUME Steady, NEW c \in Controllers, WriteScale(c)
    PROVE  \E k \in Components(held[c].spec) :
              LET e == Envelope(held[c].spec, k)
                  n == decision[c].desired
              IN  /\ e \in Envelopes /\ e.deployment \in Deployments
                  /\ replicas[e.deployment] \in e.min..e.max
                  /\ n \in replicas[e.deployment] + 1..e.max
                  /\ n <= replicas[e.deployment] + e.up
                  /\ replicas' = [replicas EXCEPT ![e.deployment] = n]
                  /\ edits' = edits
<1> DEFINE spec == held[c].spec
           k == decision[c].component
           e == Envelope(spec, k)
           n == decision[c].desired
<1>1. /\ spec \in Specs /\ decision[c] \in DecisionType
      /\ SoundStep(spec, read[c], decision[c]) /\ n >= 0
  BY DEF WriteScale, Steady, TypeOK, ResourceType, Prepared
<1>2. /\ k \in Components(spec) /\ k \in ComponentNames
      /\ e \in Envelopes /\ e.deployment \in Deployments
      /\ e.deployment = DeploymentOf(spec, k)
  BY <1>1, ComponentFacts DEF SoundStep
<1>3. replicas[e.deployment] = decision[c].current
  BY <1>1, <1>2 DEF WriteScale, Steady, Coherent, SoundStep
<1>4. /\ e.min \in Int /\ e.max \in Int /\ e.up \in Int
      /\ n \in Int /\ decision[c].current \in Int
  <2>1. n \in Int /\ decision[c].current \in Int
    BY <1>1 DEF DecisionType
  <2>2. e.min \in Int /\ e.max \in Int /\ e.up \in Int
    BY <1>1, <1>2, EnvelopeInts
  <2> QED
    BY <2>1, <2>2
<1>5. /\ decision[c].current \in e.min..e.max
      /\ n \in decision[c].current + 1..e.max
      /\ n <= decision[c].current + e.up
  <2>1. /\ e.min <= decision[c].current
        /\ decision[c].current < n /\ n <= e.max
        /\ n <= decision[c].current + e.up
    BY <1>1, <1>4 DEF SoundStep
  <2> HIDE DEF e, n
  <2> QED
    BY <1>4, <2>1
<1>6. replicas' = [replicas EXCEPT ![e.deployment] = n] /\ edits' = edits
  BY <1>2 DEF WriteScale, ScaleAccepted, ScaledDeployment
<1> QED
  BY <1>2, <1>3, <1>5, <1>6

\* Only a write of a controller or an edit changes a count.
LEMMA OthersKeepReplicas ==
    ASSUME [Next]_vars
    PROVE  \/ \E c \in Controllers : WriteScale(c)
           \/ \E d \in Deployments, n \in ExternalReplicas :
                 replicas' = [replicas EXCEPT ![d] = n] /\ edits' = edits + 1
           \/ UNCHANGED replicas /\ edits' = edits + 1
           \/ UNCHANGED <<replicas, edits>>
BY DEF Next, Reconcile, Environment, Start, ReadTarget, ReadDependency, TakeDecision,
       WriteStatus, StatusAccepted, CallFails, Crash, SyncCache, Tick, EditSpec,
       ScaleExternally, UpdateDeploymentStatus, vars

\* Every change of a count that nobody else made is one bounded step inside
\* the envelope of a component some controller holds.
THEOREM StepsAreBounded == Spec => EveryStepBounded
<1> DEFINE Bounded ==
        \A d \in Deployments :
            \/ replicas'[d] = replicas[d]
            \/ edits' # edits
            \/ \E c \in Controllers : \E k \in Components(held[c].spec) :
                  BoundedStep(d, Envelope(held[c].spec, k))
<1>1. Steady /\ [Next]_vars => [Bounded]_vars
  <2> SUFFICES ASSUME Steady, [Next]_vars PROVE Bounded
    OBVIOUS
  <2>1. ASSUME NEW c \in Controllers, WriteScale(c) PROVE Bounded
    <3>1. PICK k \in Components(held[c].spec) :
            LET e == Envelope(held[c].spec, k)
                n == decision[c].desired
            IN  /\ e \in Envelopes /\ e.deployment \in Deployments
                /\ replicas[e.deployment] \in e.min..e.max
                /\ n \in replicas[e.deployment] + 1..e.max
                /\ n <= replicas[e.deployment] + e.up
                /\ replicas' = [replicas EXCEPT ![e.deployment] = n]
                /\ edits' = edits
      BY <2>1, ScaleIsRaise
    <3> DEFINE e == Envelope(held[c].spec, k)
    <3>2. \A d \in Deployments : d # e.deployment => replicas'[d] = replicas[d]
      BY <3>1 DEF Steady, TypeOK
    <3>3. replicas'[e.deployment] = decision[c].desired
      BY <3>1 DEF Steady, TypeOK
    <3>4. /\ replicas[e.deployment] \in Int /\ e.min \in Int /\ e.max \in Int
          /\ replicas[e.deployment] \in e.min..e.max
          /\ decision[c].desired \in replicas[e.deployment] + 1..e.max
          /\ decision[c].desired <= replicas[e.deployment] + e.up
      <4>1. held[c].spec \in Specs
        BY DEF Steady, TypeOK, ResourceType
      <4>2. e.min \in Int /\ e.max \in Int
        BY <4>1, EnvelopeInts
      <4>3. replicas[e.deployment] \in Int
        BY <3>1 DEF Steady, TypeOK, ReplicaCounts
      <4> QED
        BY <3>1, <4>2, <4>3
    <3>5. BoundedStep(e.deployment, e)
      BY <3>3, <3>4 DEF BoundedStep
    <3> QED
      BY <3>2, <3>5
  <2>2. ASSUME edits' = edits + 1 PROVE Bounded
    BY <2>2 DEF Steady, TypeOK
  <2>3. CASE UNCHANGED <<replicas, edits>>
    BY <2>3
  <2> QED
    BY <2>1, <2>2, <2>3, OthersKeepReplicas
<1> QED
  BY <1>1, SteadyInvariant, PTL DEF EveryStepBounded, Spec

\* The reconcile loop, with its caches, versions, processes and failures,
\* implements the atomic governor.
THEOREM Refinement == Spec => Governed
<1>1. Init => G!Init
  BY ReplicaAssumption DEF Init, G!Init, ReplicaCounts
<1>2. Steady /\ [Next]_vars => [G!Next]_(G!vars)
  <2> SUFFICES ASSUME Steady, [Next]_vars PROVE [G!Next]_(G!vars)
    OBVIOUS
  <2>1. ASSUME NEW c \in Controllers, WriteScale(c) PROVE G!Next
    BY <2>1, ScaleIsRaise DEF G!Next, G!Raise
  <2>2. ASSUME NEW d \in Deployments, NEW n \in ExternalReplicas,
               replicas' = [replicas EXCEPT ![d] = n], edits' = edits + 1
        PROVE  G!Next
    BY <2>2, ReplicaAssumption DEF G!Next, G!Edit, ReplicaCounts
  <2>3. ASSUME UNCHANGED replicas, edits' = edits + 1 PROVE G!Next
    BY <2>3 DEF G!Next, G!Edit
  <2>4. CASE UNCHANGED <<replicas, edits>>
    BY <2>4 DEF G!vars
  <2> QED
    BY <2>1, <2>2, <2>3, <2>4, OthersKeepReplicas
<1> QED
  BY <1>1, <1>2, SteadyInvariant, PTL DEF Governed, G!Spec, Spec

-----------------------------------------------------------------------------
\* The status.

\* A lastScaleTime that may be read at time t.
Stamped(lastScale, t) ==
    lastScale # Never => /\ lastScale \in Nat /\ lastScale <= t
                         /\ lastScale % TicksPerSecond = 0

\* Copies that count as the latest are; a scale that is about to be recorded has
\* happened; and no process has seen a scale operation from its future.
Recorded ==
    /\ \A c \in cacheCurrent : cache[c] = resource
    /\ \A c \in heldCurrent : held[c] = resource /\ pc[c] # "idle"
    /\ RecordedScaleHappened
    /\ \A c \in Controllers :
          pc[c] = "record" => [decision |-> decision[c], at |-> now[c]] \in scaleLog
    /\ Stamped(resource.lastScaleTime, clock)
    /\ \A c \in Controllers :
          /\ Stamped(cache[c].lastScaleTime, clock)
          /\ Stamped(held[c].lastScaleTime, clock)
          /\ now[c] <= clock
          /\ pc[c] \in {"query", "write", "record"} => Stamped(held[c].lastScaleTime, now[c])

\* A recorded time that was not ahead of one clock reading is not ahead of a later.
LEMMA StampedLater ==
    ASSUME NEW lastScale, NEW t \in Nat, NEW u \in Nat, t <= u, Stamped(lastScale, t)
    PROVE  Stamped(lastScale, u)
BY DEF Stamped

\* A process that ends its reconcile without writing the status.
LEMMA ReturnRecorded ==
    ASSUME TypeOK, Recorded, NEW c \in Controllers, Return(c),
           heldCurrent' = heldCurrent \ {c}, UNCHANGED <<clock, resource, scaleLog>>,
           \/ UNCHANGED <<cache, cacheCurrent>>
           \/ /\ cache' = [cache EXCEPT ![c] = resource]
              /\ cacheCurrent' = cacheCurrent \union {c}
    PROVE  Recorded'
<1>1. /\ \A b \in Controllers : b # c => /\ pc'[b] = pc[b] /\ held'[b] = held[b]
                                         /\ now'[b] = now[b] /\ decision'[b] = decision[b]
      /\ pc'[c] = "idle" /\ held'[c] = InitialResource /\ now'[c] = 0
  BY DEF TypeOK, Return
<1>2. Stamped(InitialResource.lastScaleTime, clock)
  BY UnscaledType DEF Stamped
<1>3. /\ \A b \in cacheCurrent' : cache'[b] = resource
      /\ \A b \in Controllers : cache'[b] = cache[b] \/ cache'[b] = resource
  BY DEF TypeOK, Recorded
<1>4. /\ \A b \in heldCurrent' : held'[b] = resource' /\ pc'[b] # "idle"
      /\ RecordedScaleHappened'
      /\ \A b \in Controllers :
            pc'[b] = "record" => [decision |-> decision'[b], at |-> now'[b]] \in scaleLog'
  BY <1>1 DEF TypeOK, Recorded, RecordedScaleHappened
<1>5. \A b \in Controllers :
          /\ Stamped(cache'[b].lastScaleTime, clock)
          /\ Stamped(held'[b].lastScaleTime, clock)
          /\ now'[b] <= clock
          /\ pc'[b] \in {"query", "write", "record"} => Stamped(held'[b].lastScaleTime, now'[b])
  BY <1>1, <1>2, <1>3 DEF TypeOK, Recorded
<1> QED
  BY <1>3, <1>4, <1>5 DEF Recorded

\* What a status update makes of the last scale operation.
LEMMA StatusFacts ==
    ASSUME TypeOK, Prepared, Recorded, NEW c \in Controllers, WriteStatus(c)
    PROVE  /\ resource'.spec = resource.spec
           /\ Stamped(resource'.lastScaleTime, clock)
           /\ RecordedScaleHappened'
           /\ \/ /\ resource'.lastScaleTime = resource.lastScaleTime
                 /\ resource'.lastScaleDecision = resource.lastScaleDecision
              \/ resource.lastScaleTime # Never =>
                    resource'.lastScaleTime >= resource.lastScaleTime + resource.spec.cooldown
<1>1. /\ held[c] = resource /\ resource \in ResourceType
      /\ now[c] \in Nat /\ clock \in Nat /\ now[c] <= clock
  BY DEF TypeOK, Recorded, WriteStatus
<1>2. /\ resource'.spec = resource.spec
      /\ resource'.lastScaleTime =
            IF pc[c] = "record" THEN Stored(now[c]) ELSE resource.lastScaleTime
      /\ resource'.lastScaleDecision =
            IF pc[c] = "record" THEN decision[c] ELSE resource.lastScaleDecision
      /\ scaleLog' = scaleLog
  BY <1>1 DEF WriteStatus, StatusAccepted, ResourceType
<1>3. CASE pc[c] # "record"
  BY <1>2, <1>3 DEF Recorded, RecordedScaleHappened
<1>4. CASE pc[c] = "record"
  <2>1. /\ Stored(now[c]) \in Nat /\ Stored(now[c]) <= now[c]
        /\ Stored(now[c]) % TicksPerSecond = 0
        /\ \A a \in Nat : a % TicksPerSecond = 0 /\ a <= now[c] => a <= Stored(now[c])
    BY <1>1, StoredFacts
  <2>2. Stamped(resource'.lastScaleTime, clock)
    BY <1>1, <1>2, <1>4, <2>1 DEF Stamped
  <2>3. RecordedScaleHappened'
    BY <1>2, <1>4 DEF Recorded, RecordedScaleHappened
  <2>4. ASSUME resource.lastScaleTime # Never
        PROVE  resource'.lastScaleTime >= resource.lastScaleTime + resource.spec.cooldown
    <3> DEFINE last == resource.lastScaleTime
               cooldown == resource.spec.cooldown
    <3>1. last \in Nat /\ last <= now[c] /\ last % TicksPerSecond = 0
      BY <1>1, <1>4, <2>4 DEF Recorded, Stamped
    <3>2. cooldown \in Nat /\ cooldown % TicksPerSecond = 0
      BY <1>1, SpecFacts, SpecAssumption DEF ResourceType
    <3>3. cooldown = 0 \/ now[c] >= last + cooldown
      BY <1>1, <1>4, <2>4 DEF Prepared, CooldownOver
    <3> HIDE DEF last, cooldown
    <3>4. last + cooldown \in Nat /\ last + cooldown <= now[c]
          /\ (last + cooldown) % TicksPerSecond = 0
      BY <1>1, <3>1, <3>2, <3>3, SecondsAdd
    <3>5. last + cooldown <= Stored(now[c])
      BY <2>1, <3>4
    <3> QED
      BY <1>2, <1>4, <2>1, <3>4, <3>5 DEF last, cooldown
  <2> QED
    BY <1>2, <2>2, <2>3, <2>4
<1> QED
  BY <1>3, <1>4

\* Recorded is inductive: a status names the scale write it followed, or the one
\* the process that holds it has just made.
LEMMA RecordedInductive ==
    /\ Init => Recorded
    /\ TypeOK /\ Prepared /\ Recorded /\ [Next]_vars => Recorded'
<1>1. Init => Recorded
  BY UnscaledType DEF Init, Recorded, RecordedScaleHappened, Stamped
<1>2. ASSUME TypeOK, Prepared, Recorded, [Next]_vars PROVE Recorded'
  <2>0. clock \in Nat /\ \A b \in Controllers : now[b] \in Nat
    BY <1>2 DEF TypeOK
  <2>1. ASSUME NEW c \in Controllers, Start(c) PROVE Recorded'
    <3>1. /\ held' = [held EXCEPT ![c] = cache[c]]
          /\ pc'[c] \in {"readTarget", "status"}
          /\ \A b \in Controllers : b # c => pc'[b] = pc[b] /\ decision'[b] = decision[b]
          /\ heldCurrent' = IF c \in cacheCurrent THEN heldCurrent \union {c} ELSE heldCurrent
          /\ UNCHANGED <<clock, resource, cache, cacheCurrent, now, scaleLog>>
          /\ pc[c] = "idle"
      BY <1>2, <2>1 DEF TypeOK, Start
    <3>2. /\ held'[c] = cache[c]
          /\ \A b \in Controllers : b # c => held'[b] = held[b]
      BY <1>2, <3>1 DEF TypeOK
    <3>3. \A b \in heldCurrent' : held'[b] = resource' /\ pc'[b] # "idle"
      BY <1>2, <3>1, <3>2 DEF TypeOK, Recorded
    <3>4. RecordedScaleHappened'
      BY <1>2, <3>1 DEF Recorded, RecordedScaleHappened
    <3>5. \A b \in Controllers :
              pc'[b] = "record" => [decision |-> decision'[b], at |-> now'[b]] \in scaleLog'
      BY <1>2, <3>1 DEF Recorded
    <3>6. \A b \in Controllers :
              /\ Stamped(cache'[b].lastScaleTime, clock')
              /\ Stamped(held'[b].lastScaleTime, clock')
              /\ now'[b] <= clock'
              /\ pc'[b] \in {"query", "write", "record"} => Stamped(held'[b].lastScaleTime, now'[b])
      BY <1>2, <3>1, <3>2 DEF Recorded
    <3>7. Stamped(resource'.lastScaleTime, clock') /\ \A b \in cacheCurrent' : cache'[b] = resource'
      BY <1>2, <3>1 DEF Recorded
    <3> QED
      BY <3>3, <3>4, <3>5, <3>6, <3>7 DEF Recorded
  <2>2. ASSUME NEW c \in Controllers, ReadTarget(c) PROVE Recorded'
    <3>1. /\ \/ pc'[c] = "query" /\ now'[c] = clock
             \/ pc'[c] = "status" /\ now'[c] = now[c]
          /\ \A b \in Controllers : b # c =>
                pc'[b] = pc[b] /\ decision'[b] = decision[b] /\ now'[b] = now[b]
          /\ UNCHANGED <<clock, resource, cache, cacheCurrent, held, heldCurrent, scaleLog>>
      BY <1>2, <2>2 DEF TypeOK, ReadTarget
    <3>2. \A b \in heldCurrent' : held'[b] = resource' /\ pc'[b] # "idle"
      BY <1>2, <3>1 DEF TypeOK, Recorded
    <3>3. RecordedScaleHappened'
      BY <1>2, <3>1 DEF Recorded, RecordedScaleHappened
    <3>4. \A b \in Controllers :
              pc'[b] = "record" => [decision |-> decision'[b], at |-> now'[b]] \in scaleLog'
      BY <1>2, <3>1 DEF Recorded
    <3>5. \A b \in Controllers :
              /\ Stamped(cache'[b].lastScaleTime, clock')
              /\ Stamped(held'[b].lastScaleTime, clock')
              /\ now'[b] <= clock'
              /\ pc'[b] \in {"query", "write", "record"} => Stamped(held'[b].lastScaleTime, now'[b])
      BY <1>2, <2>0, <3>1 DEF Recorded
    <3>6. Stamped(resource'.lastScaleTime, clock') /\ \A b \in cacheCurrent' : cache'[b] = resource'
      BY <1>2, <3>1 DEF Recorded
    <3> QED
      BY <3>2, <3>3, <3>4, <3>5, <3>6 DEF Recorded
  <2>3. ASSUME NEW c \in Controllers, NEW n \in DependencyNames, ReadDependency(c, n)
        PROVE  Recorded'
    BY <1>2, <2>3 DEF ReadDependency, Recorded, RecordedScaleHappened
  <2>4. ASSUME NEW c \in Controllers, TakeDecision(c) PROVE Recorded'
    <3>1. /\ pc[c] = "query" /\ pc'[c] \in {"write", "status"}
          /\ \A b \in Controllers : b # c => pc'[b] = pc[b] /\ decision'[b] = decision[b]
      BY <1>2, <2>4, TakenDecision DEF TypeOK, TakeDecision
    <3>2. UNCHANGED <<clock, resource, cache, held, now, scaleLog, cacheCurrent, heldCurrent>>
      BY <2>4 DEF TakeDecision, versions
    <3> QED
      BY <1>2, <3>1, <3>2 DEF TypeOK, Recorded, RecordedScaleHappened
  <2>5. ASSUME NEW c \in Controllers, WriteScale(c) PROVE Recorded'
    <3>1. /\ pc[c] = "write" /\ pc'[c] = "record"
          /\ \A b \in Controllers : b # c => pc'[b] = pc[b]
          /\ scaleLog' = scaleLog \union {[decision |-> decision[c], at |-> now[c]]}
          /\ UNCHANGED <<clock, resource, cache, cacheCurrent, held, heldCurrent, now, decision>>
      BY <1>2, <2>5 DEF TypeOK, WriteScale, ScaleAccepted
    <3> QED
      BY <1>2, <3>1 DEF TypeOK, Recorded, RecordedScaleHappened
  <2>6. ASSUME NEW c \in Controllers, WriteStatus(c) PROVE Recorded'
    <3>1. /\ heldCurrent' = {} /\ cacheCurrent' = {}
          /\ pc'[c] = "idle" /\ held'[c] = InitialResource /\ now'[c] = 0
          /\ \A b \in Controllers : b # c => /\ pc'[b] = pc[b] /\ held'[b] = held[b]
                                             /\ now'[b] = now[b] /\ decision'[b] = decision[b]
          /\ UNCHANGED <<clock, cache, scaleLog>>
      BY <1>2, <2>6 DEF TypeOK, WriteStatus, StatusAccepted, SupersedeResource, Return
    <3>2. Stamped(resource'.lastScaleTime, clock) /\ RecordedScaleHappened'
      BY <1>2, <2>6, StatusFacts
    <3>3. Stamped(InitialResource.lastScaleTime, clock)
      BY UnscaledType DEF Stamped
    <3> QED
      BY <1>2, <2>0, <3>1, <3>2, <3>3 DEF Recorded
  <2>7. ASSUME NEW c \in Controllers, CallFails(c) PROVE Recorded'
    BY <1>2, <2>7, ReturnRecorded DEF CallFails
  <2>8. ASSUME NEW c \in Controllers, Crash(c) PROVE Recorded'
    BY <1>2, <2>8, ReturnRecorded DEF Crash
  <2>9. ASSUME NEW c \in Controllers, SyncCache(c) PROVE Recorded'
    BY <1>2, <2>9 DEF SyncCache, process, TypeOK, Recorded, RecordedScaleHappened
  <2>10. CASE Tick
    <3>1. /\ clock' = clock + 1 /\ clock' \in Nat /\ clock <= clock'
          /\ UNCHANGED <<resource, cache, held, pc, now, decision, scaleLog, cacheCurrent, heldCurrent>>
      BY <2>0, <2>10 DEF Tick, process, versions
    <3>2. \A lastScale : Stamped(lastScale, clock) => Stamped(lastScale, clock')
      BY <2>0, <3>1, StampedLater
    <3> QED
      BY <1>2, <2>0, <3>1, <3>2 DEF Recorded, RecordedScaleHappened
  <2>11. ASSUME NEW spec \in Specs, EditSpec(spec) PROVE Recorded'
    <3>1. /\ resource'.lastScaleTime = resource.lastScaleTime
          /\ resource'.lastScaleDecision = resource.lastScaleDecision
          /\ heldCurrent' = {} /\ cacheCurrent' = {}
          /\ UNCHANGED <<clock, cache, held, pc, now, decision, scaleLog>>
      BY <1>2, <2>11 DEF TypeOK, ResourceType, EditSpec, SupersedeResource, process
    <3> QED
      BY <1>2, <3>1 DEF Recorded, RecordedScaleHappened
  <2>12. ASSUME NEW d \in Deployments, NEW n \in ExternalReplicas, ScaleExternally(d, n)
         PROVE  Recorded'
    BY <1>2, <2>12 DEF ScaleExternally, process, Recorded, RecordedScaleHappened
  <2>13. ASSUME NEW d \in Deployments, UpdateDeploymentStatus(d) PROVE Recorded'
    BY <1>2, <2>13 DEF UpdateDeploymentStatus, process, Recorded, RecordedScaleHappened
  <2>14. CASE UNCHANGED vars
    BY <1>2, <2>14 DEF vars, process, versions, Recorded, RecordedScaleHappened
  <2> QED
    BY <1>2, <2>1, <2>2, <2>3, <2>4, <2>5, <2>6, <2>7, <2>8, <2>9, <2>10, <2>11, <2>12, <2>13, <2>14
    DEF Next, Reconcile, Environment
<1> QED
  BY <1>1, <1>2

\* The inductive invariant of the status.
Faithful == TypeOK /\ Prepared /\ Recorded

\* The inductive invariant behind what the status says of past scales (Reconcile).
THEOREM FaithfulInvariant == Spec => []Faithful
<1>1. Init => Faithful
  BY TypeInductive, RecordedInductive DEF Faithful
<1>2. Faithful /\ [Next]_vars => Faithful'
  BY TypeInductive, RecordedInductive DEF Faithful
<1> QED
  BY <1>1, <1>2, PTL DEF Spec

\* The status never claims a scale operation that did not happen.
THEOREM StatusIsTrue == Spec => []RecordedScaleHappened
<1>1. Faithful => RecordedScaleHappened
  BY DEF Faithful, Recorded
<1> QED
  BY <1>1, FaithfulInvariant, PTL

\* Only a status update moves the time of the last scale operation.
LEMMA OthersKeepLastScaleTime ==
    ASSUME TypeOK, [Next]_vars
    PROVE  \/ \E c \in Controllers : WriteStatus(c)
           \/ resource'.lastScaleTime = resource.lastScaleTime
<1>1. ASSUME NEW spec \in Specs, EditSpec(spec)
      PROVE  resource'.lastScaleTime = resource.lastScaleTime
  BY <1>1 DEF EditSpec, TypeOK, ResourceType
<1>2. \/ \E c \in Controllers : WriteStatus(c)
      \/ \E spec \in Specs : EditSpec(spec)
      \/ UNCHANGED resource
  BY DEF Next, Reconcile, Environment, Start, ReadTarget, ReadDependency, TakeDecision,
         WriteScale, ScaleAccepted, CallFails, Crash, SyncCache, Tick,
         ScaleExternally, UpdateDeploymentStatus, vars
<1> QED
  BY <1>1, <1>2

\* Recorded scale operations are a cooldown apart, whoever made them.
THEOREM RecordedCooldown == Spec => RecordedScalesRespectCooldown
<1> DEFINE Apart ==
        resource'.lastScaleTime # resource.lastScaleTime =>
            /\ resource'.spec = resource.spec
            /\ resource.lastScaleTime # Never =>
                  resource'.lastScaleTime >= resource.lastScaleTime + resource.spec.cooldown
<1>1. Faithful /\ [Next]_vars => [Apart]_vars
  <2> SUFFICES ASSUME Faithful, [Next]_vars PROVE Apart
    OBVIOUS
  <2>1. ASSUME NEW c \in Controllers, WriteStatus(c) PROVE Apart
    BY <2>1, StatusFacts DEF Faithful
  <2> QED
    BY <2>1, OthersKeepLastScaleTime DEF Faithful
<1> QED
  BY <1>1, FaithfulInvariant, PTL DEF RecordedScalesRespectCooldown, Spec

=============================================================================
