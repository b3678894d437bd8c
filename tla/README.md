# A specification of the OptiScaler controller

This directory holds a TLA+ model of the OptiScaler controller (Go sources under
`internal/`, `api/` and `cmd/optiscaler`) and of the workload it is demonstrated on
(`cmd/demo-app`, `cmd/inventory-service`), the TLC configurations that check it on small
instances, and proofs, checked by TLAPS, of theorems about it for every value of its
constants. Paths below are relative to the repository's root.

## The system

OptiScaler is a Kubernetes controller. A custom resource names a target Deployment, its
dependencies (also Deployments) with the queries that measure them, replica bounds, a
policy and whether to predict. Every 15 s, and on every change of the spec, the
controller reads the replicas of all of them, asks Prometheus, decides where the
bottleneck is, and raises the replicas of at most one Deployment by at most one step. It
never scales down. It keeps what it needs between two reconciles in two places: the
status of the resource, and a table of samples in the memory of its process.

| Component | State | Operations | Talks to |
|---|---|---|---|
| reconcile loop (`internal/controller/optiscaler_controller.go`) | none of its own between reconciles; a copy of the resource, the Scales it has read and one decision within one | `Reconcile`, `reconcileCapacity`, `updateStatus`, `protectedStatus` | API server (live reads and writes of Scale, status), informer cache, Prometheus |
| decision pipeline (same file) | none | `validateSpec`, snapshot, guard for unrealized capacity | analyzer, policy, predictor (calls) |
| capacity analyzer (`internal/capacity`) | none | `Analyze` | - |
| capacity policy (`internal/policy`) | none | `EvaluateCapacity`, `EvaluatePrescale`; the threshold policy `Evaluate` | - |
| observations (`internal/observation`) | none | usability, `EffectiveReplicaCount`, rates, mean occupancy | - |
| demand forecast, capacity estimate (`internal/forecast`) | none | `AppendSample`, `AppendCapacitySample`, `LinearForecast`, `SafePerReplicaCapacity` | - |
| prediction memory (`internal/controller/prediction.go`) | table from resource to demand and capacity samples, under a mutex, in the process | `updatePredictionHistory`, eviction, loss at restart | forecast (calls) |
| readiness evidence (same file) | the `learnedReadiness*` fields of the status | `targetReadiness`, `currentTargetTemplateRevision`, `resolveReadinessLead`, `persistReadinessEvidence` | caches of Deployments, ReplicaSets, Pods |
| prediction composition (same file) | none | `evaluatePrediction`, `capacitySampleEligibility` | all of the above |
| Prometheus client, decision record, API types | none | one HTTP query; building of a status entry; declarations | - |
| manager (`cmd/optiscaler`) | flags | starts one worker; leader election off by default | - |
| demo-api (`cmd/demo-app`) | a channel of concurrency slots; gauges and counters under a mutex | the request handler `root` | calls inventory-service; Prometheus scrapes it |
| inventory-service (`cmd/inventory-service`) | a channel of worker slots; gauges and counters under a mutex | the request handler `inventory` | PostgreSQL; Prometheus scrapes it |

What makes each part correct, and what is hard about it:

- **Reconcile loop.** The bounds, the step and the cooldown must hold although reads and
  writes are separate calls: other controllers, users and the Deployment controller write
  in between; caches lag; the process dies between the Scale write and the status write;
  two processes overlap; either write may be refused or fail.
- **Analyzer and policy.** A component is blamed only if it explains every other
  saturation; missing telemetry never starts a scale operation; a decision is one bounded
  step in int32; after a recorded step the same evidence writes nothing until the cooldown is
  over, and is not held back a moment longer.
- **Forecast and memory.** Late, repeated and early samples; bounded memory and eviction;
  no trust after a restart; no extrapolation further than was observed.
- **Readiness evidence.** A lead time is only used for the revision it was measured of,
  although Deployment, ReplicaSets and Pods are read from caches of different ages while a
  rollout runs.
- **Prediction composition.** A prescale must wait for the Pods of the one before, rest on
  enough observations of this process, and exceed what the replicas carry by evidence that
  is still current, although readings, restarts and edits come in any order.
- **Workload.** The gauges and counters are what the controller scales by. They are updated
  apart from the channels they describe, while clients leave, calls time out and queries
  hang; none may leak, and nobody may wait for ever.

The full list of hazards, each at its line and with the properties that cover it, is in
`PROJECT.json`.

## The modules

```
Observation <- Capacity --+
                 Policy --+- CapacityDecision <- Reconciler --(refines)--> Governor
                              ^     ^               ^
                              |     |               +--- ReconcilerProofs
                              |     OneDecision <- DecisionProofs
                          Prediction --- PredictionProofs
                              |
Forecast <- PredictionHistory +   (Prediction refines PredictionHistory)
    ^                ^--- PredictionHistoryProofs
    +- OneForecast <------+

Readiness <- ReadinessProofs

SlotPool <- DemoApp <--- Workload          (Workload refines DemoApp and Inventory)
        ^-- Inventory <-(INSTANCE)-+
        ^-- SlotPoolProofs <- InventoryProofs, WorkloadProofs
```

| Module | Models | Checked by |
|---|---|---|
| `Observation` | `observation.Metric`, its usability, the serving-replica count, `DeriveRequestRates` | through the others |
| `Capacity` | `capacity.Analyze` | `MCDecision` |
| `Policy` | `policy.EvaluateCapacity`, `policy.EvaluatePrescale`, int32 arithmetic | `MCDecision` |
| `CapacityDecision` | the pure part of `reconcileCapacity` between the last query and the first write, and `validateSpec` | through the next |
| `OneDecision` | the decision of one reconcile, of anything it may have read | `MCDecision`, `DecisionProofs` |
| `Reconciler` | `Reconcile` as steps between API calls; the API server, caches, crashes, other writers | `MCReconciler`, `ReconcilerProofs` |
| `Governor` | the abstract specification: an atomic, bounded raise | refined by `Reconciler` |
| `Forecast` | `internal/forecast/model.go` | through the next two |
| `OneForecast` | one forecast and one capacity estimate, of any history | `MCForecast`, `PredictionHistoryProofs` |
| `PredictionHistory` | `updatePredictionHistory` and the life of the table | `MCPredictionHistory`, `PredictionHistoryProofs` |
| `Prediction` | `evaluatePrediction`, `capacitySampleEligibility`, and the reconciles that run them | `MCPrediction`, `PredictionProofs` |
| `Readiness` | `targetReadiness`, `resolveReadinessLead`, `persistReadinessEvidence` against a cluster with rollouts | `MCReadiness`, `ReadinessProofs` |
| `SlotPool` | a buffered channel as a counting semaphore | through the next three, `SlotPoolProofs` |
| `DemoApp` | the handler of demo-api | `MCWorkload`, `WorkloadProofs` |
| `Inventory` | the handler of inventory-service | `MCWorkload`, `InventoryProofs` |
| `Workload` | both, and the connection and the timeouts between them | `MCWorkload`, `WorkloadProofs` |

Operators named `Mut...` are deliberately wrong forms of the operator that follows them.
They are used by nothing else: each documents a plausible bug and the property that would
find it.

### OneDecision and OneForecast

The decision pipeline and the forecast are pure: a specification of them has a behavior for each
input, which begins with the input and takes one step to the answer. The properties are about the
pair. `SettlesUntilCooldown`, `LossNeverActs` and `BlameMovesDownstream` relate the decision to the
one the code makes of another input: at any later time up to the end of the cooldown, with this
decision on record; with a reading lost; with another dependency hot. Three properties say what a
forecast is worth without repeating how it is made: it is never below the mean of what it was
fitted to (`NeverBelowTheMean`), a trusted one never exceeds the highest fitted rate by more than
two ranges of the fitted rates (`BoundedExtrapolation`), and a trusted trend shows in the first and
the last rate themselves, however the samples bunch (`TrendIsInTheRates`). `InputAssumption` gives
the readings their types, and keeps to what a reconcile decides on: a spec that `validateSpec`
accepts, which declares finitely many dependencies. Their runs and their proofs are of the same two
modules; only what `Inputs` and `SampleHistories` hold differs.

### Reconciler

A process is sequential (controller-runtime's default of one worker), so a reconcile is
a sequence of steps, one per call to the API server that others can come between:

| Action | Code |
|---|---|
| `Start` | the cached `Get` and `validateSpec` |
| `ReadTarget` | the live GET of the target's Scale, the Prometheus address, `now` |
| `ReadDependency` | the live GET of one dependency's Scale, between the queries |
| `TakeDecision` | all queries have answered; everything up to the first write is local |
| `WriteScale` | the Scale update, with the resourceVersion of the Scale that was read |
| `WriteStatus` | the status update, with the resourceVersion of the held copy; ends the reconcile |
| `CallFails` | an error of any call ends the reconcile |
| `Crash`, `SyncCache`, `Tick`, `EditSpec`, `ScaleExternally`, `UpdateDeploymentStatus` | the environment |

Design decisions:

- *Versions are tokens.* A resourceVersion is only ever compared with the current one, so
  the model keeps, instead of numbers, the sets of copies that are still current
  (`cacheCurrent`, `heldCurrent`, `readCurrent`). Every write to an object empties its set.
- *The informer* jumps to the latest version. A cache that stops at one in between is a
  cache that was synchronised earlier.
- *A lost reply* is a write followed by `Crash` (or by a new reconcile after one).
- *The API server* refuses a negative count (its own validation), which is what becomes of
  a step that wraps. This is not in the repository and the map marks it as external.
- *Only what outlives a reconcile* is kept of the status: the last scale time and decision.
  Everything else in it is rewritten by every update and steers nothing, except the learned
  lead time, which `Readiness` models.
- *No deletion.* The resource and the Deployments exist throughout; not-found ends a
  reconcile as any failing call does.
- *One clock* for all processes. The cooldown compares a stored time with a local clock,
  so skew between two hosts is outside the model.
- *`MaxInt`* stands for 2^31 - 1; addition wraps at it.

`Telemetry` and `Forecasts` are the answers of Prometheus and the verdicts of the
predictor; any combination may occur at any reconcile. `Prediction` computes the verdict
instead, with the writes and their failures left to `Reconciler`.

### PredictionHistory and Forecast

Arithmetic is exact, where the code uses float64: the model compares cross-multiplied
integers instead of quotients. That leaves out rounding and the tests for NaN and
infinity that guard it. Times are integers in units the configuration chooses. A sample
value of -1 stands for every number the code rejects.

The forecast of an update is part of the action that makes it, as in the code, where the
history is copied under the mutex and fitted after it.

### Readiness

A template stands for its hash and its ReplicaSet. Lagging caches are modelled by letting
a reconcile read the Deployment first and the Pods later or the other way around, and any
subset of the ReplicaSets that exist. Pods are created of any template that has a
ReplicaSet, which over-approximates a rolling update. A container may restart once; its
count matters only as zero or not.

### Prediction

`Reconcile(reading, demandLag, capacityLag)` is one reconcile of the resource, each sample
as late or early as its metric: it derives the rates, decides whether this minute is
evidence of capacity (`capacitySampleEligibility`), extends the memory (`Update` of
`PredictionHistory`, whose forecast is made with the planning horizon of the lead time), and
passes the verdict to `Decide` of `CapacityDecision`.

- *Readings are free.* What Pods, Prometheus and dependencies do between two reconciles is
  not assumed, so the serving count may lag, run ahead or go back. `pods` are the Ready
  Pods counted one by one (`targetReadiness`), `ready` those the Deployment reports; the
  code compares both with the requested replicas.
- *The lead time is an input.* `Readiness` models where it comes from.
- *Scales succeed at once.* A write that is lost is a reading of the old count at the next
  reconcile, which `MCOverlap` and the proofs about `Reconciler` cover; here the question is
  what a decision rests on.
- *An edit* changes the target or a query while the key of the memory, the name of the
  resource, stays the same: `edited` remembers when, and the samples do not.
- *Two histories* measure what properties compare and no guard reads: `unserved`, the replicas
  prescales have added since all were last seen serving, and `planned`, the horizon of the
  last decision.
- *Efficiencies are whole.* Successful requests per slot are a quotient; the assumption of
  the module lets a configuration use only readings where it divides.

### DemoApp, Inventory and Workload

One step per access to what requests share, which is a channel or the telemetry behind its
mutex. What a handler does between two such accesses is local to it.

| Action | Code (`cmd/demo-app`) |
|---|---|
| `Arrive` | `begin`, `beginSlotQueue` |
| `TakeSlot` | the send on the channel; it waits without looking at the context |
| `BeginWork`, `EndWork` | `acquiredSlot` and `beginWork`; `endWork`, and the return of `?fail=1` |
| `CallInventory`, `CallRefused`, `CallEnds` | `httpClient.Do`, as it sends, fails before sending, and returns |
| `FreeSlot`, `RecordRelease` | the deferred functions: time, receive, `releasedSlot`, `observe`, `end` |

| Action | Code (`cmd/inventory-service`) |
|---|---|
| `Receives`, `TakeWorker`, `BeginWork` | `begin`; the send; `beginWork` |
| `SelectTimer`, `SelectCanceled` | the two branches of the select, both open when both are ready |
| `BeginQuery`, `DatabaseAnswers`, `QueryTimesOut` | `inventoryItems`, with its context of five seconds |
| `FreeWorker`, `Observe` | the deferred functions |

- *A blocked send* is a place in a queue: the Go runtime serves blocked senders in order, and
  a receive hands its slot to the first of them (`SlotPool`).
- *`Workload`* joins the two over a connection (`wire`) that may lose a call or break
  (`Lost`, `Disconnect`). `CallAbandoned` is every way in which `Do` returns without an
  answer, the two seconds of the `http.Client` among them; the call goes on in the service.
- *A request and its call have one name*, since a handler makes one call. The automatic
  retry of a GET by Go's transport, on a reused connection that turns out to be closed, is
  left out: it repeats a call the service has not seen.
- Histograms and the seconds of queue and work are left out: nothing depends on them.

## The runs

All runs say `CHECK_DEADLOCK FALSE`: the clocks and the number of edits are bounded, and the
runs over inputs take one step; the real system never stops.

| Run | Properties | What it shows |
|---|---|---|
| `MCDecision` | `BoundedMutation`, `SettlesUntilCooldown`, `LossNeverActs`, `PrescaleIsLastResort`, `SoleRoot`, `BlameMovesDownstream` | the whole pipeline over every combination of readings of a target and one dependency, and over every topology of three dependencies, with and without cycles, each hot or cool and scalable or not |
| `MCSingle` | `TypeOK`, `Governed` | one process, two dependencies that may share a Deployment, invalid, overflowing and address-less specs: implements the governor |
| `MCOverlap` | `RecordedScaleHappened`, `EveryStepBounded`, `RecordedScalesRespectCooldown` | two processes, edits of spec and count |
| `MCLive` | `TargetReachesMaximum` | a saturated target reaches its maximum and stays |
| `MCForecast` | `NeverBelowTheMean`, `BoundedExtrapolation`, `OnlyTheWindowCounts`, `TrendIsInTheRates`, `CapacityIsConservative` | every history of six samples, evenly spaced or not, for a near, a fitting and a far horizon |
| `MCMemory` | `TypeOK`, `MemoryBounded`, `Chronological`, `NoTrustAfterRestart`, `LeastRecentMakesRoom`, `NoEvidenceLost` | three resources in a memory of two, early and repeated samples, restarts |
| `MCPrediction` | `OneStepAhead`, `WatchedAsLongAsForecast`, `PrescaleIsNeeded`, `EvidenceIsCurrent` | a target that grows from one to three replicas on forecasts, through Pods that do not serve yet, errors, saturation, an edit or a restart |
| `MCReadiness` | `TypeOK`, `EvidenceOfItsRevision`, `LearnsOnlyWhatIsSettled` | one Pod through a rollout and a rollback, and two Pods of one revision |
| `MCWorkload` | `TypeOK`, `GaugesSettle`, `SlotTimeWithinLimit`, `AbandonedIsError`, `NoPhantomLoad`, `CanceledIsError`, `SuccessIsEndToEnd`, `EveryRequestAnswered`, `EveryCallLeaves` | two requests, one slot, one worker: truthful gauges and counters in both services, errors that cannot be hidden, and nobody stuck |

Runs that are expected to find a violation, each of one sentence the repository says of
itself:

| Run | Property | The disagreement |
|---|---|---|
| `MCCooldown` | `ScalesRespectCooldown` | the cooldown does not constrain mutations when the status update after a scale fails: the record of the scale is lost and the next reconcile scales again. What does hold is `RecordedScalesRespectCooldown`. |
| `MCDecisionUnrealized` | `HeldWhileUnrealized` | `docs/architecture.md` holds scale-ups while *requested* or Ready replicas exceed the serving ones; the code compares only the Ready ones |
| `MCReadinessFlap` | `LearnedIsStartup` | a Pod that loses and regains readiness is measured to the last transition, which is not its startup |

Other differences between the code and its documents came up while modelling. They have no
run of their own; the modules follow the code in each:

- `current + maxScaleUpStep` may wrap in int32 (`internal/policy/policy.go:234`; `validateSpec`
  sets no upper limit), and the clamp to the maximum lets the negative sum through. The API
  server refuses it. `MCSingle` includes such a spec, and the proofs cover it.
- Missing hottest-replica telemetry of a target where nothing serves and no slot is held is
  replaced by zero (`optiscaler_controller.go:72`), which `README.md:119` excludes.
- `validateSpec` accepts cyclic `dependsOn`. Two saturated dependencies in a cycle excuse each
  other (`analyzer.go:101`), so a third is blamed alone although `docs/metrics-and-policy.md:56`
  promises `UNCERTAIN`. `SoleRoot` says what does hold: whatever the blamed dependency does not
  explain leads to a cycle. `MCDecision` ranges over cyclic graphs too, and so does the proof.
- The demo workload frees its slot before it decrements the gauge (`cmd/demo-app/main.go:139`),
  so `http_concurrency_slots_in_use` may exceed `DEMO_CONCURRENCY`. `GaugesSettle` says by how
  much, and `SlotTimeWithinLimit` that the seconds the controller divides never do.
- The history of a resource survives an edit of its queries (`prediction.go:160`): for the
  length of a fit window a forecast may join samples of two of them. `EvidenceIsCurrent` is
  what does hold.

### Bounds and why they are enough

- *Decisions.* Readings take the values just below and at the threshold, missing and stale;
  counts run from zero to above the maximum, which includes both sides of every bound; the
  code compares readings with thresholds only, so more values make no new case. `Unit = 2`
  lets a count fail to be whole. The last scale operation is within the cooldown or exactly a
  cooldown ago, and `SettlesUntilCooldown` looks at every time from zero, which is before the
  record, to the end of the cooldown. With `MaxInt = 7` a step of two stays in range and a step of
  seven wraps. The inputs are two families, since their product is too large: all readings and
  counts with one dependency; and, for the attribution, all 27 topologies of three, cyclic ones
  among them, with a slow target, every dependency hot or cool in latency and in utilization,
  scalable or not, and the rest fixed. Three is the fewest that make a chain, a diamond's
  shared callee and a cycle beside a bystander. The proofs cover the rest.
- *MCSingle, MCOverlap.* The bounds 1..3 need two steps of one, so a reconcile decides with
  a scale operation on record. One edit is enough to put any writer between any read and
  write. A second tick is the first moment a cooldown of one second is over; `MCSingle` has
  two ticks a second, so that truncation to seconds shows. The proofs cover the rest.
- *MCLive.* Time passes only while a cooldown runs (`LiveNext`): the target needs three
  steps' worth of cooldowns including the ones an edit adds, fewer than `MaxClock`, so the
  bound is never what ends the waiting.
- *MCForecast.* The constants of the code in units of 5 s: a window of 24, a span of 12, five
  samples, a longest gap of 9. The gaps are one unit (a reconcile that follows an edit), three
  (the interval of the reconciles) and nine. Uneven spacing matters: a forecast strays furthest
  when the samples bunch at one end. Six samples are one more than a fit needs, so the window
  can cut. The horizons are one that any span covers, one equal to the least span, and one that
  exceeds the window. The proofs cover up to the twenty samples of the code.
- *MCMemory.* A memory of two, so the third resource forces an eviction; histories of three
  samples, a window of two ticks, retention of one, and a clock that runs past all of them. A
  fit needs two samples and a span of two, so a trusted forecast is reached, lost at a restart,
  and reached again. Samples are on time or one tick early; with the reconciles of later ticks
  that makes later, equal and earlier ones. `Efficiencies` is empty: the capacity history is
  kept by the same operator with another floor, and the proofs cover both.
- *MCPrediction.* One replica to three, so two prescales can follow each other and the
  second must wait; the readings of `TargetReadings` are each one reason to prescale, or not
  to. The memory holds three samples of three ticks and fits those of the last two, a fit needs
  two that span one. Without a lead time to wait for, the horizon is that span, so two
  consecutive samples may prescale; with a lead of one it is twice as long, and they may not.
  The clock goes on to where the history window after an edit is over
  (`clock > edited + HistoryWindow`), with time left for a forecast. One disturbance: an edit
  or a restart. The proofs cover any number, and any readings, lead times and sizes.
- *MCReadiness.* A rollout and a rollback need two template changes; the clock is long
  enough for a Pod of each revision to become Ready at different ages. The constraint
  `FewPodsOrFewRollouts` lets two Pods exist at a time only before the first rollout and
  until `FleetClock`, which is where the slowest of two matters. The proofs cover the rest.
- *MCWorkload.* Two requests compete for one slot. One worker is enough for two calls to
  compete for it as well: a call whose caller has given up still holds it when the next
  arrives. A clock of two values tells a slot held for no time from one held for some; the
  count in `SlotTimeWithinLimit` is off by one tick where an order is wrong.

### Fairness

`Fairness` in `Reconciler` is weak for what the controller does by itself (start of a due
reconcile, a decision once the queries have answered, delivery by the informer, the error of
a refused call) and strong for calls to the API server that may fail now and then
(`ReadTarget`, `WriteScale`, `WriteStatus`): controller-runtime requeues a failed reconcile
with backoff, forever, so a call made again and again succeeds at last unless the server is
down for good. It is also strong for a decision taken while nobody has written the Scales
read since (`Undisturbed`): without it a Deployment whose status changed inside each of the
controller's windows could refuse every write, and the code has no protection against that.
Time passes while a cooldown runs. No fairness is assumed of users, crashes or failures.

`Fairness` in `Workload` is weak fairness for every request of each handler's own steps
(the Go scheduler runs a goroutine that can run), of the accepting of a call, and of the two
timeouts, `CallAbandoned` after two seconds and `QueryTimesOut` after five (timers fire). The
database, the network and the clients are assumed to do nothing: a query may hang, a call may
be lost, and no client ever has to leave. A request in the queue of a channel is served because the
requests before it leave and the queue is in order.

## What is proved

`DecisionProofs` proves, for any accepted spec, any dependencies and dependsOn graph, any
readings, counts and forecasts, and any `MaxInt`:

| Theorem | Statement |
|---|---|
| `StepsAreBounded` | `Spec => []BoundedMutation` |
| `StepsWaitForCooldown` | `Spec => []SettlesUntilCooldown` |
| `LossesOnlyHold` | `Spec => []LossNeverActs` |
| `PrescalesComeLast` | `Spec => []PrescaleIsLastResort` |
| `BlameIsExplained` | `Spec => []SoleRoot` |
| `BlameFollowsCalls` | `Spec => []BlameMovesDownstream` |

The assumptions are `MaxIntAssumption` and `InputAssumption`. The invariant, `Decides`, says
that the input is one of `Inputs` and the decision none yet or that of the input; all the work
is in lemmas about `Decide`, along the order of the code: what `Analyze` says of whom, what the
policy makes of it, when the predictor may override a hold, when the last guard may hold after
all.

- *Cooldown.* Both policies see of the last scale operation only whether the cooldown is
  active (`DecisionsSeeCooldown`). While it is, at whatever time, no decision is a scale action
  (`CoolingHolds`); at its end the record is as good as none.
- *Losses.* An uncertain analysis writes nothing, whatever is forecast (`UncertainHolds`), and
  without a usable p95, serving count or hottest occupancy, or a usable reading of any
  dependency, the analysis is uncertain. What is left is the aggregate occupancy, which is
  used only to stand in for a missing hottest one: without it the snapshot is the same, or has
  no hottest occupancy.
- *Blame.* The blamed dependency is the one root candidate, so every other saturated dependency
  calls a saturated one. What such a dependency leads to is closed under calls; where the blamed
  one is not in it, a smallest closed part of it that is not empty (strict inclusion of finite
  sets is well-founded) has no member that another one does not lead back to: a cycle.
  `LeadsTo` speaks of closed sets, and not of paths, for this argument.
- *Heating.* A dependency above its utilization threshold is a root candidate itself, and it
  takes away no candidate but one that calls it (`HeatedSnapshot`). Two candidates are
  uncertain, so either the blame ends, or it has passed along that call.

`ReconcilerProofs` proves, for any set of processes, specs (valid or not), Deployments,
telemetry and forecasts, and any `MaxInt`:

| Theorem | Statement |
|---|---|
| `TypeCorrect` | `Spec => []TypeOK` |
| `StepsAreBounded` | `Spec => EveryStepBounded` |
| `Refinement` | `Spec => Governed`: the reconcile loop implements `Governor` |
| `StatusIsTrue` | `Spec => []RecordedScaleHappened` |
| `RecordedCooldown` | `Spec => RecordedScalesRespectCooldown` |

The assumptions are those the modules name: `MaxIntAssumption` (a positive largest integer),
`SpecAssumption` (fields have their Go types, cooldowns are whole seconds),
`ReplicaAssumption` (counts are counts) and `ClockAssumption`.

The argument. `TypeOK` is not inductive: a scale could carry any decision. `Prepared` adds what a
process knows at each step: a decision about to be written is a scale action that changes the
count, is at most a step up within the envelope of a component of the held spec unless it has
wrapped, and its `current` is the count that was read (`DecideFacts`, from lemmas about
`EvaluateCapacity` and `EvaluatePrescale`). `Coherent` adds what the versions are for: a read
that is still current has the value that is in the API server. `Steady == TypeOK /\ Prepared /\
Coherent` is inductive, and the bounded step and the refinement follow from it: an accepted write
starts from the present count, and a wrapped one is refused. For the status the invariant is
`Faithful == TypeOK /\ Prepared /\ Recorded`: `Recorded` relates every copy of the status, in the
server, in a cache or held, to the log of accepted writes, and a held copy that is current to the
status in the server; a recorded time is then a cooldown after the one before because the
decision saw that one.

`PredictionHistoryProofs` proves, for any set of resources, sizes of the memory and of the
histories, window, retention, lag, rate and horizon:

| Theorem | Statement |
|---|---|
| `TypeCorrect` | `Spec => []TypeOK` |
| `BoundedMemory` | `Spec => []MemoryBounded` |
| `OrderedMemory` | `Spec => []Chronological` |
| `TrustIsEarned` | `Spec => []NoTrustAfterRestart` |
| `LeastRecentDropped` | `Spec => LeastRecentMakesRoom` |
| `EvidenceKept` | `Spec => NoEvidenceLost` |
| `WindowDecides` | `ForecastSpec => []OnlyTheWindowCounts` |
| `ForecastAboveMean` | `ForecastSpec => []NeverBelowTheMean` |
| `TrustedForecastIsBounded` | `FewSamples /\ ForecastSpec => []BoundedExtrapolation` |
| `TrustedTrendRises` | `FewSamples /\ ForecastSpec => []TrendIsInTheRates` |
| `EstimateIsConservative` | `ForecastSpec => []CapacityIsConservative` |

The last five are about `OneForecast`, and are here because they rest on the same lemmas. The
assumptions are `ForecastAssumption` (sizes and windows are positive numbers),
`HistoryAssumption` (keys are numbers, which gives them their order; rates are not negative)
and, for those five, `SampleHistoriesAssumption` (histories hold timed numbers) and
`PlanningHorizonsAssumption` (horizons are numbers). `FewSamples` is `MaxSamples <= 20`; the
code's constant is 20. It is a hypothesis of two theorems and not an assumption of the model
because they depend on it: `HIGH` limits the *mean* squared error, so the more samples there
are, the further a single one may stray. Among several hundred rising samples one low sample
before the last spoils neither R^2 nor RMSE. Raising `maxForecastSamples` in the code would
weaken what `HIGH` means.

The argument. What pruning keeps is a `Subsequence` at a set of positions, whose members `Nth`
enumerates; `NthIncreasing` and `NthOnto` say that it is in order and leaves none out. They rest
on `LeastNumber`, which comes from the well-foundedness of the naturals and not from induction.
From them `AppendFacts` says what an update makes of a history, whatever the sample: bounded, in
order, inside the window, and covering every time it covered (`Covers`: a sample of that time, or
full of later ones). `LeastNumber`, applied to update times and then to keys, also shows that
`Oldest` chooses. The invariant `IInv` adds to the four state properties that the process started
before now, that no entry is from the future, and that every sample was taken by this process
(`SampledHere`); the last is what a `HIGH` forecast, whose fit spans `MinimumSpan`, is bounded
by. That an eviction never keeps an idle entry of the key being written beside a memory full of
live ones is a counting argument over `MemoryBounded`. A fit is its own fit window
(`FitIsItsOwnWindow`: the last sample is the last of the history, `NthIncreasing`), and the
forecast looks at nothing else.

The least-squares fit. `SumFunction` of the community modules is a recursion over sets that
takes its elements in an arbitrary order. `SumFacts` shows that it is a sum: one more element
adds its value. The induction over finite sets that this needs (`SubsetInduction`) is stated
for a set of sets and comes from `LeastNumber`, so no operator parameter has to be
instantiated. With `SumCombination` (a sum of multiples is the multiple of sums) follow the two
identities of the fit, for integers scaled by the number of samples n: `CenteredProducts`, and
`ResidualSquares`, by which the sum of the squared residuals is what the code tests in R^2 and
in RMSE. `HIGH` therefore bounds that sum, and any two or four residuals within it
(`TwoErrors`, `FourErrors`, `ErrorBudget`). The first and the last sample, the highest and
the lowest, are near an increasing line, whence `CloseFitRises` and `CloseFitProjects`; the
second also uses that the horizon is no longer than the span. The line, and so the bound of two
ranges, is for spacing of any kind: one and a half ranges is exceeded when
the samples bunch. `ForecastAboveMean` needs no quality: the line passes through
the mean of the times, which the last sample is not before, and a line that does not rise is
not projected. So the last test of the code, that the forecast is not negative
(`model.go:201`), never refuses, floating-point overflow apart.

That some value has
the rank of the percentile, with any values repeated (`RankedValue`), is an argument about
greatest and least values of a finite set (`GreatestPosition`, again from `LeastNumber`): the
least value that enough samples do not exceed. Without it the `CHOOSE` of `ConservativeValue`
would say nothing.

`PredictionProofs` proves, for any resource with prediction, any readings, intervals and
sizes of the memory, and any number of edits and restarts:

| Theorem | Statement |
|---|---|
| `MemoryImplemented` | `PredictionSpec => Spec`: the predictor implements `PredictionHistory` |
| `NeverTwoStepsAhead` | `PredictionSpec => []OneStepAhead` |
| `WatchedBeforePrescale` | `PredictionSpec => []WatchedAsLongAsForecast` |
| `OnlyNeededPrescales` | `PredictionSpec => []PrescaleIsNeeded` |
| `EvidenceWearsOff` | `PredictionSpec => []EvidenceIsCurrent` |

`PredictionAssumption` gives readings their types and says that the constants of
`PredictionHistory` cover what reconciles bring. The inductive invariant `PInv` is that of
the memory together with the four properties. A prescale is traced back through the guard
for unrealized capacity, `EvaluatePrescale` and `Evidence` to a `HIGH` forecast and to
`CapacityRealized`: the latter resets `unserved` in the same step, which gives the first
property, and makes the serving count the requested one, which gives the third;
`HighIsWatched` and `FitIsRecent` say of the fit of such a forecast that it spans the horizon,
the one in `planned`, and how old it may be.

`ReadinessProofs` proves, for any number of Pods, revisions and rollouts and every clock:

| Theorem | Statement |
|---|---|
| `EvidenceShape` | `Spec => []TypeOK` |
| `EvidenceMatchesRevision` | `Spec => []EvidenceOfItsRevision` |
| `LearningIsConservative` | `Spec => LearnsOnlyWhatIsSettled` |

The invariant says that Pods, as they are and as they were read, are `Witnessed`: one that is
Ready and has not restarted made the transition it shows. That the slowest fresh Pod exists
needs a greatest element (`Greatest`), which comes from the well-foundedness of the naturals
applied to the distances from a bound. `ReadinessAssumption` says that the bounds are numbers.

`SlotPoolProofs` holds what the two services share: what a send and a receive do to a proper
channel (`SendFacts`, `ReceiveFacts`: no request twice, in the queue or with a slot, never
more than the capacity), and how a step of one request changes a count of requests by place
(`MoveCounts`). On them rest, for any finite set of requests and any number of slots and
workers:

| Module | Theorem | Statement |
|---|---|---|
| `InventoryProofs` | `LoadIsReal` | `FiniteService /\ Spec => []NoPhantomLoad` |
| | `CancellationCounted` | `FiniteService /\ Spec => []CanceledIsError` |
| `WorkloadProofs` | `GaugesAreCounts` | `Spec => []TypeOK`, of `DemoApp`; no gauge is negative |
| | `GaugesAgree` | `Spec => []GaugesSettle` |
| | `SlotTimeIsLimited` | `Spec => []SlotTimeWithinLimit` |
| | `AbandonedCounted` | `Spec => []AbandonedIsError` |
| | `DemoImplemented` | `WorkloadSpec => Spec` of `DemoApp` |
| | `DemoHolds` | `WorkloadSpec => [](TypeOK /\ GaugesSettle /\ SlotTimeWithinLimit /\ AbandonedIsError)` |
| | `ServiceImplemented` | `WorkloadSpec => I!Spec` of `Inventory` |
| | `LoadIsReal` | `WorkloadSpec => []NoPhantomLoad` |
| | `CancellationCounted` | `WorkloadSpec => []CanceledIsError` |
| | `SuccessNeedsTheService` | `WorkloadSpec => []SuccessIsEndToEnd` |

The invariants of the two services have the same parts: `ChannelInv` ties the place of a
request to its part in the channel, `GaugeInv` makes every gauge the number of requests at
some places. `GaugesSettle` then follows by splitting these sets. `SlotTimeWithinLimit` counts
unrecorded slot time tick by tick, as a set of pairs of a request and a tick, because the
cardinality of a set can be reasoned about here and a sum cannot: a tick of the clock adds one
pair for each request with a slot (`TicksGrow`), of which there are no more than slots, and a
release takes away exactly the pairs it records (`TicksDrop`). `ErrorInv` of `Inventory`
counts the requests that erred, of which those already done are in the counter. `FiniteService`
(finitely many requests, a number of workers) is a hypothesis of the theorems about
`Inventory`, which declares no assumptions because `Workload` instantiates it; there it
follows from `DemoAssumption` and `WorkloadAssumption`. The two instances of `Inventory` in
`WorkloadProofs`, one from the model and one from its theorems, are shown equal step by step.

## What is only model-checked

- Liveness (`TargetReachesMaximum`, `EveryRequestAnswered`, `EveryCallLeaves`): a proof from
  fairness needs `ENABLED`, which this version of TLAPS does not reason about.

Every safety property of the passing runs, invariant or action property, is a theorem as well.

## What is not modelled, and why

- `Evaluate`, the threshold policy, and its branch of `Reconcile`: `validateSpec` requires
  `metric.utilizationQuery`, so no accepted spec reaches them.
- `MeanSlotOccupancy`: it only feeds the text of a status.
- The Prometheus client (one request, its parsing, no state), the decision record and the
  texts of the status (they steer nothing), the CRD (declarations), flags and probes of the
  manager, manifests and load scripts.
- Of the demo workloads: graceful shutdown, the readiness delay and the other probes,
  histograms, the seconds of queue and work, the retry of a GET by Go's transport on a reused
  connection, and the text of `/metrics`. The queries that turn their metrics into readings
  are in the custom resource, not in the program, so the controller's readings remain free.
- Deletion of resources, several resources that manage one Deployment (the second is one of
  the outside writers of `Reconciler`), skew between the clocks of hosts, float64 rounding.
- `Reconciler` with the memory of `Prediction` in one model: each is checked, and proved,
  against everything the other could do to it, and their product is out of TLC's reach.

## Order of work

Done, in this order: the decision pipeline, the reconcile loop with its abstract
specification and proofs, forecast and memory with proofs, readiness evidence; then the
predictor composed with memory and policy, the two services of the workload and their
composition, and proofs for these and for the readiness evidence; then the proofs of the
decision pipeline, of the fit window, of the percentile and of slot time; last, sums and the
least-squares fit. With them every safety property of the passing runs is proved.
