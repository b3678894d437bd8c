------------------------------- MODULE Policy -------------------------------
(***************************************************************************)
(* The deterministic policy (internal/policy): EvaluateCapacity turns an   *)
(* analysis into a decision about one component, EvaluatePrescale may      *)
(* replace a healthy hold by a prescale.                                   *)
(*                                                                         *)
(* A component is a record [name, current, min, max, scalable]; a decision *)
(* is [action, component, current, desired].  Reasons are left out.        *)
(***************************************************************************)
EXTENDS Integers

CONSTANTS
    \* @int32: the largest replica count the program can hold (2^31 - 1).
    MaxInt

ASSUME MaxIntAssumption == MaxInt \in Nat \ {0}

ReplicaCounts == 0..MaxInt
Int32 == -(MaxInt + 1)..MaxInt

\* No scale operation has been recorded: a nil LastScaleTime.
Never == -1

Actions == {"SCALE_TARGET", "SCALE_DEPENDENCY", "PRESCALE_TARGET", "HOLD", "PROTECTED_MODE"}
ScaleActions == {"SCALE_TARGET", "SCALE_DEPENDENCY", "PRESCALE_TARGET"}

\* Two's-complement addition of two int32 values that are not negative.
Add32(a, b) == IF a + b > MaxInt THEN a + b - 2 * (MaxInt + 1) ELSE a + b

Decision(action, c, desired) ==
    [action |-> action, component |-> c.name, current |-> c.current, desired |-> desired]

\* Every decision that leaves the component as it is.
Keep(action, c) == Decision(action, c, c.current)

validateComponent(c, up, down) ==
    /\ c.min >= 1 /\ c.max >= c.min
    /\ c.current \in c.min..c.max
    /\ up >= 1 /\ down >= 1

\* Mutant: a cooldown is over before it is.
MutCooldownActive(in) ==
    in.lastScale # Never /\ in.now < in.lastScale

\* Mutant: the cooldown includes the instant it ends.
MutCooldownInclusive(in) ==
    /\ in.lastScale # Never
    /\ in.cooldown > 0
    /\ in.now <= in.lastScale + in.cooldown

\* Mutant: a scale operation recorded in the future is none.
MutCooldownElapsed(in) ==
    /\ in.lastScale # Never
    /\ in.cooldown > 0
    /\ in.now \in in.lastScale..in.lastScale + in.cooldown - 1

\* now.Before(lastScale + cooldown)
CooldownActive(in) ==
    /\ in.lastScale # Never
    /\ in.cooldown > 0
    /\ in.now < in.lastScale + in.cooldown

\* Mutant: the step is not clamped to the maximum.
MutUnclampedStep(c, up) == Add32(c.current, up)

\* Mutant: a step that would pass the maximum is not taken at all.
MutWholeSteps(c, up) ==
    LET sum == Add32(c.current, up)
    IN  IF sum > c.max THEN c.current ELSE sum

\* One bounded step up.  The clamp compares the wrapped sum.
StepUp(c, up) ==
    LET sum == Add32(c.current, up)
    IN  IF sum > c.max THEN c.max ELSE sum

\* in: [analysis, target, deps, up, down, cooldown, lastScale, now], deps a
\* function from names to components.
EvaluateCapacity(in) ==
    LET named      == in.analysis.component \in DOMAIN in.deps
        dependency == in.deps[in.analysis.component]
        protected  == Keep("PROTECTED_MODE", in.target)
        scaleUp(action, c) ==
            IF StepUp(c, in.up) = c.current THEN Keep("HOLD", c)
            ELSE Decision(action, c, StepUp(c, in.up))
    IN  IF \/ in.analysis.class = "UNCERTAIN"
           \/ ~validateComponent(in.target, in.up, in.down)
          THEN protected
        ELSE IF in.analysis.class = "CAPACITY_BLOCKED"
          THEN IF /\ named
                  /\ ~dependency.scalable
                  /\ validateComponent(dependency, in.up, in.down)
               THEN Keep("HOLD", dependency)
               ELSE protected
        ELSE IF CooldownActive(in) \/ in.analysis.class = "HEALTHY"
          THEN Keep("HOLD", in.target)
        ELSE IF in.analysis.class = "DEPENDENCY_SATURATED"
          THEN IF ~named
                 THEN protected
               ELSE IF dependency.scalable /\ validateComponent(dependency, in.up, in.down)
                 THEN scaleUp("SCALE_DEPENDENCY", dependency)
               ELSE Keep("PROTECTED_MODE", dependency)
        ELSE IF in.analysis.class = "TARGET_SATURATED"
          THEN scaleUp("SCALE_TARGET", in.target)
        ELSE protected

\* What must hold of the predictor's evidence, in the order EvaluatePrescale
\* asks for it.  f: [telemetry, demand, errors : BOOLEAN (rates complete,
\* predictive demand usable, error rate acceptable), rejected : BOOLEAN (the
\* predictor gave a reason of its own), quality, horizon, rate, capacity, slope];
\* healthy, unsaturated, realized: what the snapshot says.
ForecastTrusted(in) ==
    /\ in.forecast.telemetry /\ in.forecast.demand /\ in.forecast.errors
    /\ in.healthy /\ in.unsaturated /\ in.realized
    /\ ~in.forecast.rejected
    /\ in.forecast.quality = "HIGH"
    /\ in.forecast.horizon > 0
    /\ in.forecast.rate >= 0 /\ in.forecast.capacity > 0 /\ in.forecast.slope > 0

\* in: [decision, class, forecast, healthy, unsaturated, realized, target, up,
\* cooldown, lastScale, now].  Every rejection holds the component the reactive
\* decision was about.
EvaluatePrescale(in) ==
    LET reject  == [in.decision EXCEPT !.desired = in.decision.current]
        desired == StepUp(in.target, in.up)
    IN  IF in.decision.action # "HOLD" \/ in.class # "HEALTHY"
          THEN in.decision
        ELSE IF /\ ForecastTrusted(in)
                /\ ~CooldownActive(in)
                /\ in.forecast.rate > in.forecast.capacity
                /\ validateComponent(in.target, in.up, 1)
                /\ desired # in.target.current
          THEN Decision("PRESCALE_TARGET", in.target, desired)
        ELSE reject

=============================================================================
