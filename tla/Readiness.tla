----------------------------- MODULE Readiness -----------------------------
(***************************************************************************)
(* Readiness evidence: how long a Pod of the target takes from creation to *)
(* Ready, measured by the controller and persisted in the status of the    *)
(* OptiScaler for the template revision it was measured of                 *)
(* (internal/controller/prediction.go).                                    *)
(*                                                                         *)
(* The Deployment, its Pods and its ReplicaSets are read one after the     *)
(* other from three informer caches that lag independently.  A read of a   *)
(* cache that lags is a read of the cluster at an earlier time: here the   *)
(* Deployment and the Pods are read in either order, the second when the   *)
(* reconcile resolves its evidence, and the ReplicaSets, which only grow   *)
(* in number, as any that exist by then.                                   *)
(*                                                                         *)
(* A revision stands for a Pod template, for the pod-template-hash that    *)
(* the Deployment controller derives from it and for the one ReplicaSet    *)
(* that has it.  The containers of a Pod are one container.  A Pod being   *)
(* deleted is skipped by every test of the code and is modelled as gone.   *)
(* What the selector and the owner references filter out is left out, as   *)
(* are the errors of a Deployment without selector, UID or labels.         *)
(***************************************************************************)
EXTENDS Integers, FiniteSets

CONSTANTS
    Revisions,      \* Pod templates of the target
    PodNames,
    MaxClock,       \* bound: the last tick
    MaxRollouts     \* bound: template changes

ASSUME ReadinessAssumption == MaxClock \in Nat /\ MaxRollouts \in Nat

VARIABLES
    clock,
    rollouts,       \* bound: template changes so far
    deployment,     \* [template, observed]: observedGeneration has caught up
    replicaSets,    \* templates that have a ReplicaSet
    pods,           \* name -> Pod
    first,          \* what the reconcile has read: nothing yet, the Deployment
                    \* or the Pods
    learned,        \* the learnedReadiness fields of the status
    transitions     \* history: <<template, creation-to-Ready time>> of every
                    \* transition to Ready of a Pod that has not restarted

cluster == <<deployment, replicaSets, pods>>
controller == <<first, learned>>
vars == <<clock, rollouts, cluster, first, learned, transitions>>

Never == -1
NoTemplate == "none"

NoPod == [template |-> NoTemplate, created |-> Never, readyAt |-> Never,
          startup |-> Never, restarted |-> FALSE]

\* Its Ready condition is True.
Ready(pod) == pod.readyAt # Never

NoDeployment == [template |-> NoTemplate, observed |-> FALSE]
NoPods == [p \in PodNames |-> NoPod]

NothingRead == [what |-> "nothing", deployment |-> NoDeployment, pods |-> NoPods]

NotLearned == [template |-> NoTemplate, lead |-> Never]

Unavailable == [source |-> "none", template |-> NoTemplate, lead |-> Never]

\* A Deployment just applied.
Init ==
    /\ clock = 0
    /\ rollouts = 0
    /\ \E template \in Revisions : deployment = [template |-> template, observed |-> FALSE]
    /\ replicaSets = {}
    /\ pods = NoPods
    /\ first = NothingRead
    /\ learned = NotLearned
    /\ transitions = {}

-----------------------------------------------------------------------------
\* The cluster.

Tick ==
    /\ clock < MaxClock
    /\ clock' = clock + 1
    /\ UNCHANGED <<rollouts, cluster, controller, transitions>>

\* A new template, or an old one again.
Rollout(template) ==
    /\ rollouts < MaxRollouts
    /\ template # deployment.template
    /\ rollouts' = rollouts + 1
    /\ deployment' = [template |-> template, observed |-> FALSE]
    /\ UNCHANGED <<clock, replicaSets, pods, controller, transitions>>

\* The Deployment controller creates the ReplicaSet, then reports the generation.
CreateReplicaSet ==
    /\ deployment.template \notin replicaSets
    /\ replicaSets' = replicaSets \union {deployment.template}
    /\ UNCHANGED <<clock, rollouts, deployment, pods, controller, transitions>>

ObserveGeneration ==
    /\ ~deployment.observed
    /\ deployment.template \in replicaSets
    /\ deployment' = [deployment EXCEPT !.observed = TRUE]
    /\ UNCHANGED <<clock, rollouts, replicaSets, pods, controller, transitions>>

CreatePod(p, template) ==
    /\ pods[p] = NoPod
    /\ template \in replicaSets
    /\ pods' = [pods EXCEPT ![p] = [NoPod EXCEPT !.template = template, !.created = clock]]
    /\ UNCHANGED <<clock, rollouts, deployment, replicaSets, controller, transitions>>

\* The readiness probe succeeds: the Ready condition changes to True now.
BecomeReady(p) ==
    LET lead == clock - pods[p].created
    IN  /\ pods[p] # NoPod /\ ~Ready(pods[p])
        /\ pods' = [pods EXCEPT ![p].readyAt = clock,
                                ![p].startup = IF @ = Never THEN lead ELSE @]
        /\ transitions' = IF pods[p].restarted THEN transitions
                          ELSE transitions \union {<<pods[p].template, lead>>}
        /\ UNCHANGED <<clock, rollouts, deployment, replicaSets, controller>>

\* The probe of a running container fails.
BecomeUnready(p) ==
    /\ Ready(pods[p])
    /\ pods' = [pods EXCEPT ![p].readyAt = Never]
    /\ UNCHANGED <<clock, rollouts, deployment, replicaSets, controller, transitions>>

\* The container exits and is started again.
RestartContainer(p) ==
    /\ pods[p] # NoPod /\ ~pods[p].restarted
    /\ pods' = [pods EXCEPT ![p].restarted = TRUE, ![p].readyAt = Never]
    /\ UNCHANGED <<clock, rollouts, deployment, replicaSets, controller, transitions>>

DeletePod(p) ==
    /\ pods[p] # NoPod
    /\ pods' = [pods EXCEPT ![p] = NoPod]
    /\ UNCHANGED <<clock, rollouts, deployment, replicaSets, controller, transitions>>

Cluster ==
    \/ Tick
    \/ \E template \in Revisions : Rollout(template)
    \/ CreateReplicaSet
    \/ ObserveGeneration
    \/ \E p \in PodNames :
          \/ \E template \in Revisions : CreatePod(p, template)
          \/ BecomeReady(p) \/ BecomeUnready(p) \/ RestartContainer(p)
          \/ DeletePod(p)

-----------------------------------------------------------------------------
\* One reconcile.

\* currentTargetTemplateRevision: the ReplicaSet of the current template, if the
\* Deployment controller has seen that template.
Revision(d, sets) ==
    IF d.observed /\ d.template \in sets THEN d.template ELSE NoTemplate

ReadyPods(ps) == {p \in PodNames : Ready(ps[p])}

\* The Ready Pods that measure a startup of the revision.
Fresh(ps, revision) ==
    {p \in ReadyPods(ps) : ps[p].template = revision /\ ~ps[p].restarted}

\* Mutant: the operands swapped.
MutLead(pod) == pod.created - pod.readyAt

Lead(pod) == pod.readyAt - pod.created

\* Mutant: the fastest Pod is taken.
MutFastest(ps, fresh) ==
    CHOOSE lead \in {Lead(ps[p]) : p \in fresh} : \A p \in fresh : Lead(ps[p]) >= lead

Slowest(ps, fresh) ==
    CHOOSE lead \in {Lead(ps[p]) : p \in fresh} : \A p \in fresh : Lead(ps[p]) <= lead

\* Mutant: what was learned of any revision is reused.
MutReusable(revision) == learned # NotLearned

Reusable(revision) == learned # NotLearned /\ learned.template = revision

\* targetReadiness and resolveReadinessLead, from a Deployment, ReplicaSets and
\* Pods as they were read.
Resolve(d, sets, ps) ==
    LET revision == Revision(d, sets)
        fresh    == Fresh(ps, revision)
    IN  IF ReadyPods(ps) = {} \/ revision = NoTemplate
          THEN Unavailable
        ELSE IF fresh # {}
          THEN [source |-> "CURRENT_FRESH_SAMPLE", template |-> revision, lead |-> Slowest(ps, fresh)]
        ELSE IF Reusable(revision)
          THEN [source |-> "PERSISTED_LEARNED_SAMPLE", template |-> revision, lead |-> learned.lead]
        ELSE Unavailable

\* The Deployment and the Pods of the reconcile that would end now.
DeploymentRead == IF first.what = "deployment" THEN first.deployment ELSE deployment
PodsRead == IF first.what = "deployment" THEN pods ELSE first.pods

\* Its evidence.
Evidence(sets) == Resolve(DeploymentRead, sets, PodsRead)

\* persistReadinessEvidence: only a fresh measurement replaces what was learned.
Persisted(e) ==
    IF e.source = "CURRENT_FRESH_SAMPLE" THEN [template |-> e.template, lead |-> e.lead] ELSE learned

ReadDeployment ==
    /\ first.what = "nothing"
    /\ first' = [NothingRead EXCEPT !.what = "deployment", !.deployment = deployment]
    /\ UNCHANGED <<clock, rollouts, cluster, learned, transitions>>

ReadPods ==
    /\ first.what = "nothing"
    /\ first' = [NothingRead EXCEPT !.what = "pods", !.pods = pods]
    /\ UNCHANGED <<clock, rollouts, cluster, learned, transitions>>

\* The evidence is resolved and the status update that persists it succeeds.
Evaluate ==
    /\ first.what # "nothing"
    /\ \E sets \in SUBSET replicaSets : learned' = Persisted(Evidence(sets))
    /\ first' = NothingRead
    /\ UNCHANGED <<clock, rollouts, cluster, transitions>>

\* The reconcile fails, at a list, at the Scale or at the status update.
Fail ==
    /\ first.what # "nothing"
    /\ first' = NothingRead
    /\ UNCHANGED <<clock, rollouts, cluster, learned, transitions>>

Reconcile == ReadDeployment \/ ReadPods \/ Evaluate \/ Fail

Next == Cluster \/ Reconcile

Spec == Init /\ [][Next]_vars

-----------------------------------------------------------------------------
\* The shape of the state.
TypeOK ==
    /\ clock \in 0..MaxClock
    /\ deployment \in [template : Revisions, observed : BOOLEAN]
    /\ replicaSets \subseteq Revisions
    /\ learned = NotLearned \/ learned \in [template : Revisions, lead : 0..MaxClock]

\* Through rollouts, rollbacks, restarts and reads of different ages, the lead
\* time a plan is made with was measured on a Pod of the very revision it is
\* used for, one that had not restarted; so is the one that is persisted
\* (README.md: "Ambiguous target rollout/readiness evidence blocks prescaling";
\* docs/architecture.md: "reused only for that same target revision").
EvidenceOfItsRevision ==
    /\ first.what # "nothing" =>
          \A sets \in SUBSET replicaSets :
              LET e == Evidence(sets)
              IN  e # Unavailable => <<e.template, e.lead>> \in transitions
    /\ learned # NotLearned => <<learned.template, learned.lead>> \in transitions

\* What was learned of a revision is replaced only while the Deployment, as it
\* was read, was at a template its controller had caught up with, and never by a
\* shorter time than some Ready Pod of it took (currentTargetTemplateRevision,
\* targetReadiness, persistReadinessEvidence).
LearnsOnlyWhatIsSettled ==
    [][learned' # learned =>
        /\ DeploymentRead = [template |-> learned'.template, observed |-> TRUE]
        /\ \A p \in PodNames :
              LET pod == PodsRead[p]
              IN  pod.template = learned'.template /\ Ready(pod) /\ ~pod.restarted
                    => pod.readyAt - pod.created <= learned'.lead]_vars

\* optiscaler_types.go:256: the learned lead time "is the last valid conservative
\* startup sample for the identified target revision": some Pod took that long
\* from its creation to the first time it was Ready.
LearnedIsStartup ==
    [][learned' # learned => \E p \in PodNames : PodsRead[p].startup = learned'.lead]_vars

=============================================================================
