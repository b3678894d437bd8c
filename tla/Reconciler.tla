----------------------------- MODULE Reconciler -----------------------------
(***************************************************************************)
(* The reconcile loop of the OptiScaler controller (internal/controller)   *)
(* against the Kubernetes API server.                                      *)
(*                                                                         *)
(* A controller process holds an informer cache of the OptiScaler          *)
(* resource.  One reconcile copies the resource from the cache, reads the  *)
(* Scale of the target and of every dependency from the API server, takes  *)
(* a decision (CapacityDecision), writes at most one Scale and then the    *)
(* status.  The manager runs one worker per process, so a process is       *)
(* sequential; but leader election is off by default (cmd/optiscaler), so  *)
(* there may be several processes: a rolling update of the manager         *)
(* Deployment overlaps two.                                                *)
(*                                                                         *)
(* Both writes carry the resourceVersion of what was read and the API      *)
(* server refuses them once the object has changed.  Versions are not      *)
(* counted: a copy is current until the next write to its object, whoever  *)
(* writes it.  cacheCurrent, heldCurrent and readCurrent say which are.    *)
(*                                                                         *)
(* An error of any call ends the reconcile; controller-runtime starts a    *)
(* new one, as it does 15 s after a reconcile that ended well and on every *)
(* new generation of the resource, so Start needs no trigger.  A call that *)
(* takes effect but whose reply is lost is a write followed by Crash.      *)
(***************************************************************************)
EXTENDS CapacityDecision

CONSTANTS
    Controllers,        \* controller processes
    Deployments,        \* Deployments of the namespace
    DependencyNames,    \* names a spec may give its dependencies
    Specs,              \* specs a user may apply, the first among them:
    InitialSpec,
    InitialReplicas,    \* Deployment -> spec.replicas at the start
    ExternalReplicas,   \* counts kubectl scale or another autoscaler may set
    Telemetry,          \* what the queries of a reconcile may answer
    Forecasts,          \* what the predictor may conclude
    TicksPerSecond,     \* clock ticks in one second, the precision of metav1.Time
    MaxClock,           \* bound: the last tick
    MaxEdits            \* bound: edits by users and other autoscalers

ComponentNames == {"target"} \union DependencyNames

\* Counts are int32 and cooldowns whole seconds; a spec need not be valid.
ASSUME SpecAssumption ==
    /\ InitialSpec \in Specs
    /\ \A spec \in Specs :
          /\ \E names \in SUBSET DependencyNames : spec \in SpecOver(names, DependencyNames, Deployments)
          /\ spec.cooldown % TicksPerSecond = 0

ASSUME ReplicaAssumption ==
    /\ InitialReplicas \in [Deployments -> ReplicaCounts]
    /\ ExternalReplicas \subseteq ReplicaCounts

ASSUME ClockAssumption == TicksPerSecond \in Nat \ {0}

VARIABLES
    clock,          \* time.Now(), one clock for all processes
    edits,          \* bound: edits made so far
    resource,       \* the OptiScaler in the API server, as Reconcile reads it
    replicas,       \* Deployment -> spec.replicas in the API server
    cache,          \* process -> its informer's copy of the resource
    cacheCurrent,   \* processes whose copy is the latest version
    pc,             \* process -> the step its reconcile is at
    held,           \* process -> the copy Reconcile took from the cache
    heldCurrent,    \* processes whose held copy is the latest version
    read,           \* process -> component -> replicas of the Scale read
    readCurrent,    \* <<process, component>> whose Scale has not changed since
    now,            \* process -> the time captured before the first query
    decision,       \* process -> the decision taken
    scaleLog        \* history: [decision, at] of every Scale write accepted

process == <<pc, held, read, now, decision>>
versions == <<cacheCurrent, heldCurrent, readCurrent>>
vars == <<clock, edits, resource, replicas, cache, process, versions, scaleLog>>

-----------------------------------------------------------------------------
Unscaled == [action |-> "HOLD", component |-> "target", current |-> 0, desired |-> 0]
Protected == [Unscaled EXCEPT !.action = "PROTECTED_MODE"]
AllUnread == [n \in ComponentNames |-> Unread]

\* The spec and the part of the status that outlives a reconcile: every status
\* update carries these two over unless it records a new scale operation.  The
\* rest (last decision, replicas, control mode, conditions) is written anew by
\* every update and steers no later step; it is left out.
InitialResource ==
    [spec |-> InitialSpec, lastScaleTime |-> Never, lastScaleDecision |-> Unscaled]

\* metav1.Time is stored in whole seconds.
Stored(t) == t - (t % TicksPerSecond)

Init ==
    /\ clock = 0
    /\ edits = 0
    /\ resource = InitialResource
    /\ replicas = InitialReplicas
    /\ cache = [c \in Controllers |-> InitialResource]
    /\ cacheCurrent = Controllers
    /\ pc = [c \in Controllers |-> "idle"]
    /\ held = [c \in Controllers |-> InitialResource]
    /\ heldCurrent = {}
    /\ read = [c \in Controllers |-> AllUnread]
    /\ readCurrent = {}
    /\ now = [c \in Controllers |-> 0]
    /\ decision = [c \in Controllers |-> Unscaled]
    /\ scaleLog = {}

-----------------------------------------------------------------------------
\* Versions.

ReadsOf(c) == {r \in readCurrent : r[1] = c}

\* Reads of a Deployment's Scale, through whatever component.
ReadsOfDeployment(d) ==
    {r \in readCurrent : DeploymentOf(held[r[1]].spec, r[2]) = d}

\* A write to the resource: every copy of it is now old.
SupersedeResource == cacheCurrent' = {} /\ heldCurrent' = {}

\* The reconcile of c returns: its locals are gone.
Return(c) ==
    /\ pc' = [pc EXCEPT ![c] = "idle"]
    /\ held' = [held EXCEPT ![c] = InitialResource]
    /\ read' = [read EXCEPT ![c] = AllUnread]
    /\ now' = [now EXCEPT ![c] = 0]
    /\ decision' = [decision EXCEPT ![c] = Unscaled]

-----------------------------------------------------------------------------
\* One reconcile.

\* Reconcile: the resource from the cache.  An invalid spec is protected
\* without reading anything.
Start(c) ==
    /\ pc[c] = "idle"
    /\ held' = [held EXCEPT ![c] = cache[c]]
    /\ heldCurrent' = IF c \in cacheCurrent THEN heldCurrent \union {c} ELSE heldCurrent
    /\ IF validateSpec(cache[c].spec)
       THEN /\ pc' = [pc EXCEPT ![c] = "readTarget"]
            /\ UNCHANGED decision
       ELSE /\ pc' = [pc EXCEPT ![c] = "status"]
            /\ decision' = [decision EXCEPT ![c] = Protected]
    /\ UNCHANGED <<clock, edits, resource, replicas, cache, cacheCurrent,
                   read, readCurrent, now, scaleLog>>

\* The target's Scale, live.  An address that is no URL is protected; the other
\* reconciles capture the time and go on to the queries.
ReadTarget(c) ==
    LET spec == held[c].spec
    IN  /\ pc[c] = "readTarget"
        /\ read' = [read EXCEPT ![c]["target"] = replicas[spec.deployment]]
        /\ readCurrent' = readCurrent \union {<<c, "target">>}
        /\ IF spec.addressParses
           THEN /\ pc' = [pc EXCEPT ![c] = "query"]
                /\ now' = [now EXCEPT ![c] = clock]
                /\ UNCHANGED decision
           ELSE /\ pc' = [pc EXCEPT ![c] = "status"]
                /\ decision' = [decision EXCEPT ![c] = Protected]
                /\ UNCHANGED now
        /\ UNCHANGED <<clock, edits, resource, replicas, cache, cacheCurrent,
                       held, heldCurrent, scaleLog>>

\* A dependency's Scale, live, between queries.  One that is never read is one
\* whose GET failed.
ReadDependency(c, n) ==
    /\ pc[c] = "query"
    /\ n \in DOMAIN held[c].spec.deps
    /\ read[c][n] = Unread
    /\ read' = [read EXCEPT ![c][n] = replicas[DeploymentOf(held[c].spec, n)]]
    /\ readCurrent' = readCurrent \union {<<c, n>>}
    /\ UNCHANGED <<clock, edits, resource, replicas, cache, cacheCurrent,
                   pc, held, heldCurrent, now, decision, scaleLog>>

\* The last query has answered; the rest up to the first write is local.
TakeDecision(c) ==
    /\ pc[c] = "query"
    /\ \E t \in Telemetry, f \in Forecasts :
          LET d == Decide(held[c].spec, t, read[c], f, held[c].lastScaleTime, now[c])
          IN  /\ decision' = [decision EXCEPT ![c] = d]
              /\ pc' = [pc EXCEPT ![c] = IF Writes(d) THEN "write" ELSE "status"]
    /\ UNCHANGED <<clock, edits, resource, replicas, cache, versions,
                   held, read, now, scaleLog>>

\* The Deployment whose Scale c is about to update.
ScaledDeployment(c) == DeploymentOf(held[c].spec, decision[c].component)

\* An accepted Scale update; the reconcile goes on to record it.
ScaleAccepted(c) ==
    /\ replicas' = [replicas EXCEPT ![ScaledDeployment(c)] = decision[c].desired]
    /\ readCurrent' = readCurrent \ ReadsOfDeployment(ScaledDeployment(c))
    /\ scaleLog' = scaleLog \union {[decision |-> decision[c], at |-> now[c]]}
    /\ pc' = [pc EXCEPT ![c] = "record"]
    /\ UNCHANGED <<clock, edits, resource, cache, cacheCurrent,
                   held, heldCurrent, read, now, decision>>

\* Mutant: the update carries no resourceVersion.
MutBlindScale(c) ==
    /\ pc[c] = "write"
    /\ decision[c].desired >= 0
    /\ ScaleAccepted(c)

\* Mutant: a negative count is accepted.
MutNegativeScale(c) ==
    /\ pc[c] = "write"
    /\ <<c, decision[c].component>> \in readCurrent
    /\ ScaleAccepted(c)

\* Mutant: the error of the update is dropped and the scale recorded.
MutScaleErrorDropped(c) ==
    /\ pc[c] = "write"
    /\ IF /\ <<c, decision[c].component>> \in readCurrent
          /\ decision[c].desired >= 0
       THEN ScaleAccepted(c)
       ELSE /\ pc' = [pc EXCEPT ![c] = "record"]
            /\ UNCHANGED <<clock, edits, resource, replicas, cache, versions,
                           held, read, now, decision, scaleLog>>

\* The Scale update.  The API server accepts it if the Deployment has not been
\* written since it was read and the count is not negative.
WriteScale(c) ==
    /\ pc[c] = "write"
    /\ <<c, decision[c].component>> \in readCurrent
    /\ decision[c].desired >= 0
    /\ ScaleAccepted(c)

\* An accepted status update.
StatusAccepted(c) ==
    /\ resource' =
          [resource EXCEPT
              !.lastScaleTime     = IF pc[c] = "record" THEN Stored(now[c]) ELSE held[c].lastScaleTime,
              !.lastScaleDecision = IF pc[c] = "record" THEN decision[c] ELSE held[c].lastScaleDecision]
    /\ SupersedeResource
    /\ readCurrent' = readCurrent \ ReadsOf(c)
    /\ Return(c)
    /\ UNCHANGED <<clock, edits, replicas, cache, scaleLog>>

\* Mutant: the status is patched whatever the version of the resource.
MutBlindStatus(c) ==
    /\ pc[c] \in {"record", "status"}
    /\ StatusAccepted(c)

\* The status update, complete, accepted if the held copy is the latest.  It
\* always writes: each decision record carries the time it was made, so the
\* comparison in updateStatus never finds the status unchanged.
WriteStatus(c) ==
    /\ pc[c] \in {"record", "status"}
    /\ c \in heldCurrent
    /\ StatusAccepted(c)

\* A GET or an update fails: not found, conflict, refused or unreachable.
CallFails(c) ==
    /\ pc[c] \in {"readTarget", "query", "write", "record", "status"}
    /\ heldCurrent' = heldCurrent \ {c}
    /\ readCurrent' = readCurrent \ ReadsOf(c)
    /\ Return(c)
    /\ UNCHANGED <<clock, edits, resource, replicas, cache, cacheCurrent, scaleLog>>

-----------------------------------------------------------------------------
\* Around the reconcile.

\* The process dies at any point; the next one lists the resource afresh.
Crash(c) ==
    /\ cache' = [cache EXCEPT ![c] = resource]
    /\ cacheCurrent' = cacheCurrent \union {c}
    /\ heldCurrent' = heldCurrent \ {c}
    /\ readCurrent' = readCurrent \ ReadsOf(c)
    /\ Return(c)
    /\ UNCHANGED <<clock, edits, resource, replicas, scaleLog>>

\* The informer delivers the latest version.
SyncCache(c) ==
    /\ c \notin cacheCurrent
    /\ cache' = [cache EXCEPT ![c] = resource]
    /\ cacheCurrent' = cacheCurrent \union {c}
    /\ UNCHANGED <<clock, edits, resource, replicas, process, heldCurrent,
                   readCurrent, scaleLog>>

Tick ==
    /\ clock < MaxClock
    /\ clock' = clock + 1
    /\ UNCHANGED <<edits, resource, replicas, cache, process, versions, scaleLog>>

\* A user applies another spec.
EditSpec(spec) ==
    /\ edits < MaxEdits
    /\ edits' = edits + 1
    /\ resource' = [resource EXCEPT !.spec = spec]
    /\ SupersedeResource
    /\ UNCHANGED <<clock, replicas, cache, process, readCurrent, scaleLog>>

\* kubectl scale, or another autoscaler.
ScaleExternally(d, n) ==
    /\ edits < MaxEdits
    /\ edits' = edits + 1
    /\ replicas' = [replicas EXCEPT ![d] = n]
    /\ readCurrent' = readCurrent \ ReadsOfDeployment(d)
    /\ UNCHANGED <<clock, resource, cache, cacheCurrent, process, heldCurrent, scaleLog>>

\* Kubernetes updates the status of a Deployment (pods become Ready or fail):
\* a new resourceVersion, the same replicas.
UpdateDeploymentStatus(d) ==
    /\ ReadsOfDeployment(d) # {}
    /\ readCurrent' = readCurrent \ ReadsOfDeployment(d)
    /\ UNCHANGED <<clock, edits, resource, replicas, cache, cacheCurrent,
                   process, heldCurrent, scaleLog>>

-----------------------------------------------------------------------------
Reconcile(c) ==
    \/ Start(c)
    \/ ReadTarget(c)
    \/ \E n \in DependencyNames : ReadDependency(c, n)
    \/ TakeDecision(c)
    \/ WriteScale(c)
    \/ WriteStatus(c)

Environment ==
    \/ \E c \in Controllers : CallFails(c) \/ Crash(c) \/ SyncCache(c)
    \/ Tick
    \/ \E spec \in Specs : EditSpec(spec)
    \/ \E d \in Deployments, n \in ExternalReplicas : ScaleExternally(d, n)
    \/ \E d \in Deployments : UpdateDeploymentStatus(d)

Next ==
    \/ \E c \in Controllers : Reconcile(c)
    \/ Environment

Spec == Init /\ [][Next]_vars

\* A recorded scale operation still blocks the next one.
CoolingDown ==
    /\ resource.lastScaleTime # Never
    /\ clock < resource.lastScaleTime + resource.spec.cooldown

\* An update the API server refuses, if it is up.
Refused(c) ==
    /\ pc[c] \in {"write", "record", "status"}
    /\ pc[c] = "write" =>
          \/ <<c, decision[c].component>> \notin readCurrent
          \/ decision[c].desired < 0
    /\ pc[c] # "write" => c \notin heldCurrent

\* Nobody has written a Deployment since this reconcile read its Scale.
Undisturbed(c) ==
    \A k \in ComponentNames : read[c][k] # Unread => <<c, k>> \in readCurrent

\* The work queue starts every reconcile that is due; a call that is made again
\* and again (requeue, backoff) succeeds at last, because the API server is not
\* down forever and nobody writes the Deployment inside every one of the
\* controller's windows; a refused one returns its error; the informer delivers;
\* a cooldown passes.
Fairness ==
    /\ \A c \in Controllers :
          /\ WF_vars(Start(c)) /\ WF_vars(TakeDecision(c)) /\ WF_vars(SyncCache(c))
          /\ WF_vars(Refused(c) /\ CallFails(c))
          /\ SF_vars(ReadTarget(c)) /\ SF_vars(TakeDecision(c) /\ Undisturbed(c))
          /\ SF_vars(WriteScale(c)) /\ SF_vars(WriteStatus(c))
    /\ WF_vars(Tick /\ CoolingDown)

FairSpec == Spec /\ Fairness

-----------------------------------------------------------------------------
\* Types.

DecisionType ==
    [action : Actions, component : ComponentNames, current : Int, desired : Int]

ResourceType ==
    [spec : Specs, lastScaleTime : Int, lastScaleDecision : DecisionType]

\* Every variable keeps to the values the program can hold (Go's static types).
TypeOK ==
    /\ clock \in Nat /\ edits \in Nat
    /\ resource \in ResourceType
    /\ replicas \in [Deployments -> ReplicaCounts]
    /\ cache \in [Controllers -> ResourceType]
    /\ pc \in [Controllers -> {"idle", "readTarget", "query", "write", "record", "status"}]
    /\ held \in [Controllers -> ResourceType]
    /\ read \in [Controllers -> [ComponentNames -> ReplicaCounts \union {Unread}]]
    /\ now \in [Controllers -> Nat]
    /\ decision \in [Controllers -> DecisionType]
    /\ cacheCurrent \subseteq Controllers
    /\ heldCurrent \subseteq Controllers
    /\ readCurrent \subseteq Controllers \X ComponentNames
    /\ scaleLog \subseteq [decision : DecisionType, at : Nat]

-----------------------------------------------------------------------------
\* The abstraction.

Envelope(spec, component) ==
    LET b == IF component = "target" THEN spec ELSE spec.deps[component]
    IN  [deployment |-> b.deployment, min |-> b.min, max |-> b.max, up |-> spec.up]

Envelopes == UNION {{Envelope(spec, k) : k \in Components(spec)} : spec \in Specs}

G == INSTANCE Governor WITH MaxCount <- MaxInt

\* The reconcile loop implements the governor: seen from the replica counts,
\* read, decision and write are one atomic bounded step, whatever interleaves.
Governed == G!Spec

-----------------------------------------------------------------------------
\* Properties.

\* A change of a Deployment's replicas that no user and no other autoscaler
\* made is one bounded step of one component a controller holds in its spec:
\* from the count that is in the API server when the write lands, inside that
\* component's bounds, up, by at most maxScaleUpStep.  Two processes, stale
\* caches and edits between read and write do not add up to a bigger step
\* (README.md, Safety: bounds and maximum steps constrain mutations).
BoundedStep(d, e) ==
    /\ e.deployment = d
    /\ replicas[d] >= e.min
    /\ replicas[d] < replicas'[d]
    /\ replicas'[d] <= e.max
    /\ replicas'[d] <= replicas[d] + e.up

EveryStepBounded ==
    [][\A d \in Deployments :
          \/ replicas'[d] = replicas[d]
          \/ edits' # edits
          \/ \E c \in Controllers : \E k \in Components(held[c].spec) :
                BoundedStep(d, Envelope(held[c].spec, k))]_vars

\* Scale operations that reach the status are a cooldown of the current spec
\* apart, whoever made them: the status update of a reconcile that decided on
\* an older lastScaleTime is refused, so recorded times never move back either.
RecordedScalesRespectCooldown ==
    [][resource'.lastScaleTime # resource.lastScaleTime =>
          /\ resource'.spec = resource.spec
          /\ resource.lastScaleTime # Never =>
                resource'.lastScaleTime >= resource.lastScaleTime + resource.spec.cooldown]_vars

\* The status never claims a scale operation that did not happen: what it
\* records as the last one, some accepted Scale write did at that time.
RecordedScaleHappened ==
    resource.lastScaleTime # Never =>
        \E e \in scaleLog :
            /\ e.decision = resource.lastScaleDecision
            /\ Stored(e.at) = resource.lastScaleTime

\* While the target stays saturated the controller takes it to its maximum and
\* keeps it there, in spite of conflicts, failing calls, crashes, stale caches
\* and an edit that sets it back inside the bounds.
TargetReachesMaximum ==
    <>[](replicas[InitialSpec.deployment] = InitialSpec.max)

\* README.md:123: cooldown constrains mutations.  Any two Scale writes are a
\* cooldown apart, by the times their reconciles captured.
ScalesRespectCooldown ==
    \A e, f \in scaleLog :
        e # f => \/ e.at >= f.at + resource.spec.cooldown
                 \/ f.at >= e.at + resource.spec.cooldown

=============================================================================
