----------------------------- MODULE OneDecision -----------------------------
(***************************************************************************)
(* The decision pipeline over everything a reconcile may have read.  One   *)
(* behavior per input: the input, then its decision.                       *)
(*                                                                         *)
(* An input is a record [spec, telemetry, read, forecast, lastScale] of    *)
(* the arguments of Decide.                                                *)
(***************************************************************************)
EXTENDS CapacityDecision

CONSTANTS
    Deployments, DependencyNames, Forecasts,    \* as in Reconciler
    Inputs,                                     \* what a reconcile may have read
    Now                                         \* when it decides

Readings == [valid : BOOLEAN, fresh : BOOLEAN, value : Int]

TelemetryOver(declared) ==
    [p95 : Readings, hottest : Readings, serving : Readings, aggregate : Readings,
     ready : Nat, pods : Nat,
     deps : [declared -> [latency : Readings, utilization : Readings]]]

InputOver(declared) ==
    [spec      : SpecOver(declared, DependencyNames, Deployments),
     telemetry : TelemetryOver(declared),
     read      : [{"target"} \union declared -> ReplicaCounts \union {Unread}],
     forecast  : Forecasts,
     lastScale : Nat \union {Never}]

\* Reconcile decides on valid specs only, and a spec declares finitely many
\* dependencies, by names that are not empty.
ASSUME InputAssumption ==
    /\ Now \in Nat
    /\ NoComponent \notin DependencyNames
    /\ \A i \in Inputs :
          LET declared == DOMAIN i.spec.deps
          IN  /\ declared \subseteq DependencyNames /\ IsFiniteSet(declared)
              /\ i \in InputOver(declared)
              /\ validateSpec(i.spec)

VARIABLES in, decision

vars == <<in, decision>>

Undecided == [action |-> "HOLD", component |-> NoComponent, current |-> 0, desired |-> 0]

\* The decision with other telemetry, and with what the reconcile has.
DecidedOn(i, t) == Decide(i.spec, t, i.read, i.forecast, i.lastScale, Now)
Decided(i) == DecidedOn(i, i.telemetry)

Init == in \in Inputs /\ decision = Undecided

DecideOnce ==
    /\ decision' = Decided(in)
    /\ UNCHANGED in

Next == DecideOnce

Spec == Init /\ [][Next]_vars

-----------------------------------------------------------------------------
Bounds(component) ==
    IF component = "target" THEN in.spec ELSE in.spec.deps[component]

\* A decision that is written starts inside the bounds of the component it
\* names, from the count that was read, and ends inside them, at most one step
\* higher (README.md, Safety; "one bounded mutation", policy.go) - or it asks for
\* a negative count, the wrapped sum of policy.go:234 that the API server refuses.
BoundedMutation ==
    Writes(decision) =>
        LET b == Bounds(decision.component)
        IN  /\ decision.current = in.read[decision.component]
            /\ decision.current \in b.min..b.max
            /\ \/ decision.desired < 0
               \/ /\ decision.desired \in decision.current + 1..decision.current + in.spec.up
                  /\ decision.desired <= b.max

\* What the same evidence decides at another time, once this decision is carried
\* out and recorded as the last scale operation.
DecidedAgain(recorded, time) ==
    Decide(in.spec, in.telemetry, [in.read EXCEPT ![decision.component] = decision.desired],
           in.forecast, recorded, time)

\* Scaling settles: what made the controller write once makes it write nothing, of
\* any component, at any time before the cooldown is over - nor by a clock that is
\* behind the record, lastScaleTime being in its future.  At the instant the cooldown
\* is over the record has no say any more (now.Before(last + cooldown), policy.go:192).
SettlesUntilCooldown ==
    Writes(decision) =>
        LET over == Now + in.spec.cooldown
        IN  /\ in.spec.cooldown > 0 => \A time \in 0..over - 1 : ~Writes(DecidedAgain(Now, time))
            /\ DecidedAgain(Now, over) = DecidedAgain(Never, over)

\* Losing one reading never starts a scale operation or redirects one to
\* another component: missing evidence can only make the controller hold.  The
\* hottest occupancy of a target without serving replicas is the exception the
\* code makes, although README.md:119 allows none.
Losses(t) ==
    {[t EXCEPT !.p95 = m] : m \in {InvalidMetric, [t.p95 EXCEPT !.fresh = FALSE]}}
        \union {[t EXCEPT !.serving = m] :
                   m \in {InvalidMetric, [t.serving EXCEPT !.fresh = FALSE]}}
        \union {[t EXCEPT !.aggregate = InvalidMetric]}
        \union {[t EXCEPT !.deps[n].utilization = InvalidMetric] : n \in DOMAIN t.deps}
        \union {[t EXCEPT !.deps[n].latency = InvalidMetric] : n \in DOMAIN t.deps}

HottestLost(t) == [t EXCEPT !.hottest = InvalidMetric]

OnlyHolds(t) == Writes(DecidedOn(in, t)) => DecidedOn(in, t) = decision

LossNeverActs ==
    decision # Undecided =>
        /\ \A t \in Losses(in.telemetry) : OnlyHolds(t)
        /\ in.telemetry.serving.value # 0 => OnlyHolds(HottestLost(in.telemetry))

\* The telemetry of a dependency against its thresholds.
Exceeds(n) ==
    \/ in.telemetry.deps[n].latency.value > in.spec.deps[n].latencyThreshold
    \/ in.telemetry.deps[n].utilization.value > in.spec.deps[n].utilizationThreshold

Hot == {n \in DOMAIN in.spec.deps : Exceeds(n)}

\* The target is never enlarged on a forecast before every replica already
\* requested is Ready and serving, nor while a reactive cause to scale exists or a
\* dependency is saturated (EvaluatePrescale, evaluatePrediction).
PrescaleIsLastResort ==
    decision.action = "PRESCALE_TARGET" =>
        /\ in.telemetry.serving.value = Unit * in.read["target"]
        /\ in.telemetry.ready = in.read["target"]
        /\ in.telemetry.pods = in.read["target"]
        /\ ~Writes(Decided([in EXCEPT !.spec.prediction = FALSE]))
        /\ Hot = {}

Blamed == decision.component \in DOMAIN in.spec.deps

Callee(n) == in.spec.deps[n].dependsOn

\* Sets of saturated dependencies that hold the saturated callees of their members.
ClosedUnderCalls(S) == \A m \in S : Callee(m) \in Hot => Callee(m) \in S

\* b is reached from a by one or more calls, all of saturated dependencies: every
\* closed set with the first of them has it.
LeadsTo(a, b) ==
    /\ Callee(a) \in Hot
    /\ \A S \in SUBSET Hot : ClosedUnderCalls(S) /\ Callee(a) \in S => b \in S

OnCycle(m) == LeadsTo(m, m)

\* A dependency a decision is about is saturated, and from every other saturated
\* one an unbroken chain of saturated callees leads to it: no saturation is left over
\* that the blamed one does not explain (Analyze keeps root candidates and refuses to
\* choose between two).  Only where calls form a cycle, which validateSpec allows,
\* does the chain end in that instead: its members excuse each other.
SoleRoot ==
    Blamed =>
        /\ decision.component \in Hot
        /\ \A n \in Hot \ {decision.component} :
              \/ LeadsTo(n, decision.component)
              \/ \E m \in Hot : OnCycle(m) /\ (m = n \/ LeadsTo(n, m))

\* The telemetry with one dependency's utilization above its threshold.
Heated(n) ==
    [in.telemetry EXCEPT !.deps[n].utilization =
        Derived(in.spec.deps[n].utilizationThreshold + 1)]

\* One more dependency running hot never moves the blame sideways or upstream: it
\* stays, is given up without a write, or passes to the newly hot dependency when the
\* blamed one calls it directly (ExplainedByDownstream looks one call down).
BlameMovesDownstream ==
    Blamed =>
        \A n \in DOMAIN in.spec.deps :
            LET hotter == DecidedOn(in, Heated(n))
            IN  \/ hotter.component = decision.component
                \/ hotter.component = "target" /\ ~Writes(hotter)
                \/ hotter.component = n /\ Callee(decision.component) = n

\* docs/architecture.md:38: "If requested or Ready replicas exceed the
\* effective-serving count, ... a target scale-up or prescale is held."
HeldWhileUnrealized ==
    decision.action \in {"SCALE_TARGET", "PRESCALE_TARGET"} =>
        in.telemetry.serving.value >= Unit * in.read["target"]

=============================================================================
