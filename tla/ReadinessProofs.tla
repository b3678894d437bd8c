--------------------------- MODULE ReadinessProofs ---------------------------
(***************************************************************************)
(* Theorems about the readiness evidence, for any number of Pods, template *)
(* revisions and rollouts and every time, and their proofs.                *)
(***************************************************************************)
EXTENDS Readiness, WellFoundedInduction, TLAPS

-----------------------------------------------------------------------------
\* The slowest of the fresh Pods.

\* A set of natural numbers below a bound has a greatest element.
LEMMA Greatest ==
    ASSUME NEW bound \in Nat, NEW S, S \subseteq 0..bound, S # {}
    PROVE  \E m \in S : \A x \in S : x <= m
<1> DEFINE Below == {bound - x : x \in S}
           Less  == OpToRel(<, Nat)
<1>1. Below \subseteq Nat /\ Below # {}
  <2>1. \A x \in S : bound - x \in Nat
    OBVIOUS
  <2>2. Below \subseteq Nat
    BY <2>1
  <2> QED
    BY <2>2
<1>2. IsWellFoundedOn(Less, Nat)
  BY NatLessThanWellFounded
<1>3. \A x, y \in Nat : x < y => <<x, y>> \in Less
  BY DEF OpToRel
<1> HIDE DEF Less, Below
<1>4. PICK least \in Below : \A y \in Below : ~(<<y, least>> \in Less)
  BY <1>1, <1>2, WFMin
<1>5. PICK m \in S : least = bound - m
  BY <1>4 DEF Below
<1>6. ASSUME NEW x \in S PROVE x <= m
  <2>1. bound - x \in Below /\ bound - x \in Nat /\ least \in Nat
    BY <1>1, <1>4 DEF Below
  <2>2. ~(bound - x < least)
    BY <1>3, <1>4, <2>1
  <2>3. x \in Int /\ m \in Int
    OBVIOUS
  <2> QED
    BY <1>5, <2>2, <2>3
<1> QED
  BY <1>6

-----------------------------------------------------------------------------
\* The inductive invariant.

Pods(now) ==
    [template : Revisions, created : 0..now, readyAt : {Never} \union 0..now,
     startup : Int, restarted : BOOLEAN] \union {NoPod}

\* Pods as they are now, or were: a Pod that is Ready and has not restarted made the
\* transition that it shows, one of those seen.
Witnessed(ps, now, seen) ==
    /\ ps \in [PodNames -> Pods(now)]
    /\ \A p \in PodNames :
          Ready(ps[p]) => /\ ps[p].created <= ps[p].readyAt
                          /\ ~ps[p].restarted => <<ps[p].template, Lead(ps[p])>> \in seen

Deployments == [template : Revisions, observed : BOOLEAN]

\* What the reconcile has read was true once.
ReadInv ==
    \/ first = NothingRead
    \/ /\ first.what = "deployment"
       /\ first.deployment \in Deployments
    \/ /\ first.what = "pods"
       /\ Witnessed(first.pods, clock, transitions)

LearnedInv ==
    \/ learned = NotLearned
    \/ /\ learned \in [template : Revisions, lead : 0..MaxClock]
       /\ <<learned.template, learned.lead>> \in transitions

IInv ==
    /\ clock \in 0..MaxClock
    /\ deployment \in Deployments
    /\ replicaSets \subseteq Revisions
    /\ Witnessed(pods, clock, transitions)
    /\ ReadInv
    /\ LearnedInv

-----------------------------------------------------------------------------
\* The evidence.

\* What a reconcile that would end now has read.
LEMMA WhatIsRead ==
    ASSUME IInv, first.what # "nothing"
    PROVE  DeploymentRead \in Deployments /\ Witnessed(PodsRead, clock, transitions)
<1>1. first # NothingRead
  BY DEF NothingRead
<1>2. \/ first.what = "deployment" /\ first.deployment \in Deployments
      \/ first.what = "pods" /\ Witnessed(first.pods, clock, transitions)
  BY <1>1 DEF IInv, ReadInv
<1>3. /\ DeploymentRead = IF first.what = "deployment" THEN first.deployment ELSE deployment
      /\ PodsRead = IF first.what = "deployment" THEN pods ELSE first.pods
  BY DEF DeploymentRead, PodsRead
<1> QED
  BY <1>2, <1>3 DEF IInv

\* Among fresh Pods there is one that is as slow as any.
LEMMA SlowestFacts ==
    ASSUME clock \in 0..MaxClock, NEW ps, Witnessed(ps, clock, transitions), NEW revision,
           Fresh(ps, revision) # {}
    PROVE  LET slowest == Slowest(ps, Fresh(ps, revision))
           IN  /\ slowest \in 0..clock
               /\ <<revision, slowest>> \in transitions
               /\ \A p \in Fresh(ps, revision) : Lead(ps[p]) <= slowest
<1> DEFINE fresh   == Fresh(ps, revision)
           leads   == {Lead(ps[p]) : p \in fresh}
           slowest == Slowest(ps, fresh)
<1>1. ASSUME NEW p \in fresh
      PROVE  /\ Lead(ps[p]) \in 0..clock
             /\ <<revision, Lead(ps[p])>> \in transitions
  <2>1. /\ p \in PodNames /\ Ready(ps[p]) /\ ps[p].template = revision /\ ~ps[p].restarted
        /\ ps[p].created <= ps[p].readyAt
        /\ <<ps[p].template, Lead(ps[p])>> \in transitions
        /\ ps[p] \in Pods(clock)
    BY <1>1 DEF Fresh, ReadyPods, Witnessed
  <2>2. ps[p] # NoPod /\ ps[p].readyAt # Never
    BY <2>1 DEF Ready, NoPod
  <2>3. ps[p].created \in 0..clock /\ ps[p].readyAt \in 0..clock
    BY <2>1, <2>2 DEF Pods
  <2>4. clock \in Nat
    OBVIOUS
  <2>5. ps[p].readyAt - ps[p].created \in 0..clock
    BY <2>1, <2>3, <2>4
  <2> QED
    BY <2>1, <2>5 DEF Lead
<1>2. leads \subseteq 0..clock /\ leads # {} /\ clock \in Nat
  <2>1. \A p \in fresh : Lead(ps[p]) \in 0..clock
    BY <1>1
  <2>2. fresh # {} /\ clock \in Nat
    OBVIOUS
  <2> HIDE DEF fresh
  <2> QED
    BY <2>1, <2>2
<1> HIDE DEF fresh, leads
<1>3. \E m \in leads : \A x \in leads : x <= m
  BY <1>2, Greatest
<1> USE DEF fresh, leads
<1>4. \E m \in leads : \A p \in fresh : Lead(ps[p]) <= m
  BY <1>3
<1>5. slowest = CHOOSE m \in leads : \A p \in fresh : Lead(ps[p]) <= m
  BY DEF Slowest
<1>6. slowest \in leads /\ \A p \in fresh : Lead(ps[p]) <= slowest
  <2> HIDE DEF fresh, leads, slowest
  <2> QED
    BY <1>4, <1>5
<1> QED
  BY <1>1, <1>6

\* Evidence was measured on its revision; a fresh measurement is of a template the
\* Deployment controller has caught up with, and as slow as any.
LEMMA EvidenceFacts ==
    ASSUME IInv, first.what # "nothing", NEW sets \in SUBSET replicaSets
    PROVE  LET e == Evidence(sets)
           IN  /\ e # Unavailable => <<e.template, e.lead>> \in transitions
               /\ e.source = "CURRENT_FRESH_SAMPLE"
                    => /\ e.template \in Revisions /\ e.lead \in 0..clock
                       /\ e # Unavailable
                       /\ DeploymentRead = [template |-> e.template, observed |-> TRUE]
                       /\ \A p \in Fresh(PodsRead, e.template) : Lead(PodsRead[p]) <= e.lead
<1> DEFINE e        == Evidence(sets)
           d        == DeploymentRead
           ps       == PodsRead
           revision == Revision(d, sets)
           fresh    == Fresh(ps, revision)
<1>1. d \in Deployments /\ Witnessed(ps, clock, transitions) /\ clock \in 0..MaxClock
  BY WhatIsRead DEF IInv
<1>2. e = Resolve(d, sets, ps)
  BY DEF Evidence
<1>3. CASE ReadyPods(ps) = {} \/ revision = NoTemplate
  <2>1. e = Unavailable
    BY <1>2, <1>3 DEF Resolve
  <2>2. Unavailable.source # "CURRENT_FRESH_SAMPLE"
    BY DEF Unavailable
  <2> QED
    BY <2>1, <2>2
<1>4. CASE ReadyPods(ps) # {} /\ revision # NoTemplate /\ fresh # {}
  <2> DEFINE slowest == Slowest(ps, fresh)
  <2>1. e = [source |-> "CURRENT_FRESH_SAMPLE", template |-> revision, lead |-> slowest]
    BY <1>2, <1>4 DEF Resolve
  <2>2. /\ e.template = revision /\ e.lead = slowest /\ e.source = "CURRENT_FRESH_SAMPLE"
        /\ e # Unavailable
    <3> HIDE DEF e, slowest, revision
    <3> QED
      BY <2>1 DEF Unavailable
  <2>3. /\ d.observed /\ d.template \in sets /\ revision = d.template
    BY <1>4 DEF Revision
  <2>4. d = [template |-> revision, observed |-> TRUE] /\ revision \in Revisions
    <3> HIDE DEF d, revision
    <3> QED
      BY <1>1, <2>3 DEF Deployments
  <2>5. /\ slowest \in 0..clock /\ <<revision, slowest>> \in transitions
        /\ \A p \in fresh : Lead(ps[p]) <= slowest
    BY <1>1, <1>4, SlowestFacts
  <2> HIDE DEF e, slowest, revision, fresh, d, ps
  <2>6. fresh = Fresh(ps, e.template)
    BY <2>2 DEF fresh
  <2> QED
    BY <2>2, <2>4, <2>5, <2>6 DEF e, d, ps
<1>5. CASE ReadyPods(ps) # {} /\ revision # NoTemplate /\ fresh = {}
  <2>1. CASE Reusable(revision)
    <3>1. e = [source |-> "PERSISTED_LEARNED_SAMPLE", template |-> revision,
               lead |-> learned.lead]
      BY <1>2, <1>5, <2>1 DEF Resolve
    <3>2. learned # NotLearned /\ learned.template = revision
      BY <2>1 DEF Reusable
    <3>3. e.template = learned.template /\ e.lead = learned.lead
          /\ e.source # "CURRENT_FRESH_SAMPLE"
      <4> HIDE DEF e, revision
      <4> QED
        BY <3>1, <3>2
    <3> QED
      BY <3>2, <3>3 DEF IInv, LearnedInv
  <2>2. CASE ~Reusable(revision)
    <3>1. e = Unavailable
      BY <1>2, <1>5, <2>2 DEF Resolve
    <3>2. Unavailable.source # "CURRENT_FRESH_SAMPLE"
      BY DEF Unavailable
    <3> QED
      BY <3>1, <3>2
  <2> QED
    BY <2>1, <2>2
<1> QED
  BY <1>3, <1>4, <1>5

-----------------------------------------------------------------------------
\* The cluster.

\* Pods that were witnessed stay so, as time passes and Pods become Ready.
LEMMA WitnessedLater ==
    ASSUME NEW ps, NEW now \in Nat, NEW later \in Nat, now <= later,
           NEW seen, NEW more, seen \subseteq more, Witnessed(ps, now, seen)
    PROVE  Witnessed(ps, later, more)
<1>1. Pods(now) \subseteq Pods(later)
  <2>1. 0..now \subseteq 0..later
    OBVIOUS
  <2> QED
    BY <2>1 DEF Pods
<1>2. ps \in [PodNames -> Pods(later)]
  BY <1>1 DEF Witnessed
<1> QED
  BY <1>2 DEF Witnessed

\* A Pod that changes needs a transition only when it is Ready then.
LEMMA WitnessedChange ==
    ASSUME NEW ps, NEW now \in Nat, NEW seen, Witnessed(ps, now, seen),
           NEW p \in PodNames, NEW pod \in Pods(now),
           Ready(pod) => /\ pod.created <= pod.readyAt
                         /\ ~pod.restarted => <<pod.template, Lead(pod)>> \in seen
    PROVE  Witnessed([ps EXCEPT ![p] = pod], now, seen)
<1> DEFINE after == [ps EXCEPT ![p] = pod]
<1>1. after \in [PodNames -> Pods(now)] /\ after[p] = pod
      /\ \A x \in PodNames : x # p => after[x] = ps[x]
  BY DEF Witnessed
<1> HIDE DEF after
<1>2. Witnessed(after, now, seen)
  BY <1>1 DEF Witnessed
<1> QED
  BY <1>2 DEF after

\* Without a word from the controller, the invariant only needs the Pods.
LEMMA ClusterKeeps ==
    ASSUME IInv, clock' \in 0..MaxClock, clock <= clock', transitions \subseteq transitions',
           deployment' \in Deployments, replicaSets' \subseteq Revisions,
           Witnessed(pods', clock', transitions'), UNCHANGED controller
    PROVE  IInv'
<1>1. clock \in Nat /\ clock' \in Nat /\ first' = first /\ learned' = learned
  BY DEF controller, IInv
<1>2. ReadInv'
  <2>1. CASE first = NothingRead
    BY <1>1, <2>1 DEF ReadInv
  <2>2. CASE first.what = "deployment" /\ first.deployment \in Deployments
    BY <1>1, <2>2 DEF ReadInv, Deployments
  <2>3. CASE first.what = "pods" /\ Witnessed(first.pods, clock, transitions)
    <3>1. Witnessed(first.pods, clock', transitions')
      BY <1>1, <2>3, WitnessedLater
    <3> QED
      BY <1>1, <2>3, <3>1 DEF ReadInv
  <2> QED
    BY <2>1, <2>2, <2>3 DEF IInv, ReadInv
<1>3. LearnedInv'
  BY <1>1 DEF IInv, LearnedInv
<1> QED
  BY <1>2, <1>3 DEF IInv, Deployments

\* A change of a Pod that leaves it not Ready, or as it was.
LEMMA PodKeeps ==
    ASSUME IInv, NEW p \in PodNames, NEW pod \in Pods(clock),
           pods' = [pods EXCEPT ![p] = pod], ~Ready(pod),
           UNCHANGED <<clock, deployment, replicaSets, controller, transitions>>
    PROVE  IInv'
<1>1. clock \in Nat /\ Witnessed(pods, clock, transitions)
  BY DEF IInv
<1>2. Witnessed(pods', clock, transitions)
  BY <1>1, WitnessedChange
<1>3. Witnessed(pods', clock', transitions')
  BY <1>2
<1> QED
  BY <1>1, <1>3, ClusterKeeps DEF IInv

\* The step of a Pod to Ready is the one its evidence names.
LEMMA BecomeReadyKeeps ==
    ASSUME IInv, NEW p \in PodNames, BecomeReady(p)
    PROVE  IInv'
<1> DEFINE lead    == clock - pods[p].created
           startup == IF pods[p].startup = Never THEN lead ELSE pods[p].startup
           pod     == [pods[p] EXCEPT !.readyAt = clock, !.startup = startup]
<1>1. /\ pods[p] # NoPod /\ pods' = [pods EXCEPT ![p] = pod]
      /\ transitions' = IF pods[p].restarted THEN transitions
                        ELSE transitions \union {<<pods[p].template, lead>>}
      /\ clock' = clock
      /\ UNCHANGED <<deployment, replicaSets, controller>>
  BY DEF BecomeReady
<1>2. clock \in Nat /\ Witnessed(pods, clock, transitions)
  BY DEF IInv
<1>3. pods[p] \in [template : Revisions, created : 0..clock, readyAt : {Never} \union 0..clock,
                   startup : Int, restarted : BOOLEAN]
  BY <1>1, <1>2 DEF Witnessed, Pods
<1>4. lead \in Int /\ startup \in Int /\ clock \in 0..clock
  BY <1>2, <1>3
<1> HIDE DEF startup
<1>5. /\ pod \in Pods(clock)
      /\ pod.created = pods[p].created /\ pod.readyAt = clock
      /\ pod.restarted = pods[p].restarted /\ pod.template = pods[p].template
  BY <1>3, <1>4 DEF Pods
<1>6. pod.created <= pod.readyAt
  BY <1>3, <1>5
<1>7. ~pod.restarted => <<pod.template, Lead(pod)>> \in transitions'
  BY <1>1, <1>5 DEF Lead
<1>8. transitions \subseteq transitions'
  BY <1>1
<1>9. Witnessed(pods, clock, transitions')
  BY <1>2, <1>8, WitnessedLater
<1> HIDE DEF pod
<1>10. Witnessed(pods', clock, transitions')
  <2>1. Witnessed([pods EXCEPT ![p] = pod], clock, transitions')
    BY <1>2, <1>5, <1>6, <1>7, <1>9, WitnessedChange
  <2> QED
    BY <1>1, <2>1
<1> QED
  BY <1>1, <1>2, <1>8, <1>10, ClusterKeeps DEF IInv

\* Every step of the cluster keeps the invariant.
LEMMA ClusterInv ==
    ASSUME IInv, Cluster
    PROVE  IInv'
<1>1. clock \in Nat /\ Witnessed(pods, clock, transitions)
  BY DEF IInv
<1>2. CASE Tick
  <2>1. /\ clock' \in 0..MaxClock /\ clock <= clock' /\ clock' \in Nat
        /\ UNCHANGED <<deployment, replicaSets, pods, transitions, controller>>
    BY <1>1, <1>2, ReadinessAssumption DEF Tick, cluster, IInv
  <2>2. Witnessed(pods, clock', transitions)
    BY <1>1, <2>1, WitnessedLater
  <2> QED
    BY <2>1, <2>2, ClusterKeeps DEF IInv
<1>3. CASE \/ \E template \in Revisions : Rollout(template)
           \/ CreateReplicaSet \/ ObserveGeneration
  <2>1. /\ UNCHANGED <<clock, pods, transitions, controller>>
        /\ deployment' \in Deployments /\ replicaSets' \subseteq Revisions
    <3>1. deployment \in Deployments /\ replicaSets \subseteq Revisions
      BY DEF IInv
    <3>2. CASE \E template \in Revisions : Rollout(template)
      BY <3>1, <3>2 DEF Rollout, Deployments
    <3>3. CASE CreateReplicaSet
      BY <3>1, <3>3 DEF CreateReplicaSet, Deployments
    <3>4. CASE ObserveGeneration
      BY <3>1, <3>4 DEF ObserveGeneration, Deployments
    <3> QED
      BY <1>3, <3>2, <3>3, <3>4
  <2> QED
    BY <1>1, <2>1, ClusterKeeps DEF IInv
<1>4. ASSUME NEW p \in PodNames,
             \/ \E template \in Revisions : CreatePod(p, template)
             \/ BecomeUnready(p) \/ RestartContainer(p) \/ DeletePod(p)
      PROVE  IInv'
  <2>1. pods[p] \in Pods(clock)
    BY <1>1 DEF Witnessed
  <2>2. ASSUME NEW template \in Revisions, CreatePod(p, template)
        PROVE  IInv'
    <3> DEFINE pod == [NoPod EXCEPT !.template = template, !.created = clock]
    <3>1. pod \in Pods(clock) /\ ~Ready(pod)
      <4>1. /\ NoPod \in [template : {NoTemplate}, created : {Never}, readyAt : {Never},
                          startup : {Never}, restarted : {FALSE}]
            /\ clock \in 0..clock /\ Never \in Int
        BY <1>1 DEF NoPod, Never
      <4>2. /\ pod \in [template : Revisions, created : 0..clock, readyAt : {Never},
                        startup : {Never}, restarted : {FALSE}]
            /\ pod.readyAt = Never
        <5> HIDE DEF NoPod, Never
        <5> QED
          BY <4>1
      <4> HIDE DEF pod
      <4> QED
        BY <4>1, <4>2 DEF Pods, Ready
    <3>2. /\ pods' = [pods EXCEPT ![p] = pod]
          /\ UNCHANGED <<clock, deployment, replicaSets, controller, transitions>>
      BY <2>2 DEF CreatePod
    <3> HIDE DEF pod
    <3> QED
      BY <3>1, <3>2, PodKeeps
  <2>3. CASE BecomeUnready(p)
    <3> DEFINE pod == [pods[p] EXCEPT !.readyAt = Never]
    <3>1. pod \in Pods(clock) /\ ~Ready(pod)
      <4>1. Ready(pods[p])
        BY <2>3 DEF BecomeUnready
      <4>2. pods[p] \in [template : Revisions, created : 0..clock,
                         readyAt : {Never} \union 0..clock, startup : Int, restarted : BOOLEAN]
        BY <2>1, <4>1 DEF Pods, NoPod, Ready
      <4> QED
        BY <4>2 DEF Pods, Ready
    <3>2. /\ pods' = [pods EXCEPT ![p] = pod]
          /\ UNCHANGED <<clock, deployment, replicaSets, controller, transitions>>
      BY <2>3 DEF BecomeUnready
    <3> HIDE DEF pod
    <3> QED
      BY <3>1, <3>2, PodKeeps
  <2>4. CASE RestartContainer(p)
    <3> DEFINE pod == [pods[p] EXCEPT !.restarted = TRUE, !.readyAt = Never]
    <3>1. /\ pods[p] # NoPod /\ pods' = [pods EXCEPT ![p] = pod]
          /\ UNCHANGED <<clock, deployment, replicaSets, controller, transitions>>
      BY <2>4 DEF RestartContainer
    <3>2. pod \in Pods(clock) /\ ~Ready(pod)
      <4>1. pods[p] \in [template : Revisions, created : 0..clock,
                         readyAt : {Never} \union 0..clock, startup : Int, restarted : BOOLEAN]
        BY <2>1, <3>1 DEF Pods
      <4> QED
        BY <4>1 DEF Pods, Ready
    <3> HIDE DEF pod
    <3> QED
      BY <3>1, <3>2, PodKeeps
  <2>5. CASE DeletePod(p)
    <3>1. NoPod \in Pods(clock) /\ ~Ready(NoPod)
      BY DEF Pods, NoPod, Ready
    <3>2. /\ pods' = [pods EXCEPT ![p] = NoPod]
          /\ UNCHANGED <<clock, deployment, replicaSets, controller, transitions>>
      BY <2>5 DEF DeletePod
    <3> QED
      BY <3>1, <3>2, PodKeeps
  <2> QED
    BY <1>4, <2>2, <2>3, <2>4, <2>5
<1>5. ASSUME NEW p \in PodNames, BecomeReady(p)
      PROVE  IInv'
  BY <1>5, BecomeReadyKeeps
<1> QED
  BY <1>2, <1>3, <1>4, <1>5 DEF Cluster

-----------------------------------------------------------------------------
\* The reconcile.

\* What a status update that persists fresh evidence writes is that evidence.
LEMMA EvaluateFacts ==
    ASSUME IInv, Evaluate, learned' # learned
    PROVE  /\ learned' \in [template : Revisions, lead : 0..clock]
           /\ <<learned'.template, learned'.lead>> \in transitions
           /\ DeploymentRead = [template |-> learned'.template, observed |-> TRUE]
           /\ \A p \in Fresh(PodsRead, learned'.template) : Lead(PodsRead[p]) <= learned'.lead
<1>1. PICK sets \in SUBSET replicaSets : learned' = Persisted(Evidence(sets))
  BY DEF Evaluate
<1> DEFINE e == Evidence(sets)
<1>2. first.what # "nothing"
  BY DEF Evaluate
<1>3. /\ e # Unavailable => <<e.template, e.lead>> \in transitions
      /\ e.source = "CURRENT_FRESH_SAMPLE"
           => /\ e.template \in Revisions /\ e.lead \in 0..clock
              /\ e # Unavailable
              /\ DeploymentRead = [template |-> e.template, observed |-> TRUE]
              /\ \A p \in Fresh(PodsRead, e.template) : Lead(PodsRead[p]) <= e.lead
  BY <1>2, EvidenceFacts
<1> HIDE DEF e
<1>4. e.source = "CURRENT_FRESH_SAMPLE" /\ learned' = [template |-> e.template, lead |-> e.lead]
  BY <1>1 DEF Persisted, e
<1>5. learned'.template = e.template /\ learned'.lead = e.lead
  BY <1>4
<1> QED
  BY <1>3, <1>4, <1>5

\* Every step of a reconcile keeps the invariant.
LEMMA ReconcileInv ==
    ASSUME IInv, Reconcile
    PROVE  IInv'
<1>1. UNCHANGED <<clock, deployment, replicaSets, pods, transitions>>
  BY DEF Reconcile, ReadDeployment, ReadPods, Evaluate, Fail, cluster
<1>2. ReadInv'
  <2>1. CASE ReadDeployment
    <3>1. first' = [NothingRead EXCEPT !.what = "deployment", !.deployment = deployment]
      BY <2>1 DEF ReadDeployment
    <3>2. first'.what = "deployment" /\ first'.deployment = deployment
      BY <3>1 DEF NothingRead
    <3> QED
      BY <3>2 DEF ReadInv, IInv, Deployments
  <2>2. CASE ReadPods
    <3>1. first' = [NothingRead EXCEPT !.what = "pods", !.pods = pods]
      BY <2>2 DEF ReadPods
    <3>2. first'.what = "pods" /\ first'.pods = pods
      BY <3>1 DEF NothingRead
    <3> QED
      BY <1>1, <3>2 DEF ReadInv, IInv
  <2>3. CASE Evaluate \/ Fail
    BY <2>3 DEF Evaluate, Fail, ReadInv
  <2> QED
    BY <2>1, <2>2, <2>3 DEF Reconcile
<1>3. LearnedInv'
  <2>1. CASE learned' = learned
    BY <1>1, <2>1 DEF IInv, LearnedInv
  <2>2. CASE learned' # learned
    <3>1. Evaluate
      BY <2>2 DEF Reconcile, ReadDeployment, ReadPods, Fail
    <3>2. /\ learned' \in [template : Revisions, lead : 0..clock]
          /\ <<learned'.template, learned'.lead>> \in transitions
      BY <2>2, <3>1, EvaluateFacts
    <3>3. 0..clock \subseteq 0..MaxClock
      BY ReadinessAssumption DEF IInv
    <3>4. learned' \in [template : Revisions, lead : 0..MaxClock]
      BY <3>2, <3>3
    <3> QED
      BY <1>1, <3>2, <3>4 DEF LearnedInv
  <2> QED
    BY <2>1, <2>2
<1> QED
  BY <1>1, <1>2, <1>3 DEF IInv, Deployments

\* A Deployment just applied, and nothing read or learned.
LEMMA InitInv == Init => IInv
<1> SUFFICES ASSUME Init PROVE IInv
  OBVIOUS
<1>1. clock \in 0..MaxClock /\ deployment \in Deployments /\ replicaSets \subseteq Revisions
  BY ReadinessAssumption DEF Init, Deployments
<1>2. Witnessed(pods, clock, transitions)
  BY DEF Init, Witnessed, NoPods, Pods, Ready, NoPod
<1> QED
  BY <1>1, <1>2 DEF Init, IInv, ReadInv, LearnedInv

\* Every step preserves the invariant.
LEMMA NextInv == IInv /\ [Next]_vars => IInv'
<1> SUFFICES ASSUME IInv, [Next]_vars PROVE IInv'
  OBVIOUS
<1>1. CASE Cluster
  BY <1>1, ClusterInv
<1>2. CASE Reconcile
  BY <1>2, ReconcileInv
<1>3. CASE UNCHANGED vars
  <2>1. UNCHANGED <<clock, deployment, replicaSets, pods, first, learned, transitions>>
    BY <1>3 DEF vars, cluster
  <2> QED
    BY <2>1 DEF IInv, ReadInv, LearnedInv, Deployments
<1> QED
  BY <1>1, <1>2, <1>3 DEF Next

\* The specification keeps it.
LEMMA SpecInv == Spec => []IInv
<1> QED
  BY InitInv, NextInv, PTL DEF Spec

-----------------------------------------------------------------------------
\* The theorems.

\* The state keeps its shape: what was learned is a time of a revision
\* (persistReadinessEvidence).
THEOREM EvidenceShape == Spec => []TypeOK
<1>1. IInv => TypeOK
  BY DEF IInv, LearnedInv, Deployments, TypeOK
<1> QED
  BY <1>1, SpecInv, PTL

\* The lead time a plan is made with, and the one that is persisted, were measured
\* on a Pod of the revision they are used for (targetReadiness,
\* resolveReadinessLead, persistReadinessEvidence).
THEOREM EvidenceMatchesRevision == Spec => []EvidenceOfItsRevision
<1>1. IInv => EvidenceOfItsRevision
  <2>1. ASSUME IInv, first.what # "nothing", NEW sets \in SUBSET replicaSets
        PROVE  Evidence(sets) # Unavailable
                 => <<Evidence(sets).template, Evidence(sets).lead>> \in transitions
    BY <2>1, EvidenceFacts
  <2> QED
    BY <2>1 DEF IInv, LearnedInv, EvidenceOfItsRevision
<1> QED
  BY <1>1, SpecInv, PTL

\* What was learned is replaced only by a time of a settled revision, and by none
\* shorter than a fresh Pod of it took (currentTargetTemplateRevision,
\* persistReadinessEvidence).
THEOREM LearningIsConservative == Spec => LearnsOnlyWhatIsSettled
<1> DEFINE A == learned' # learned =>
                  /\ DeploymentRead = [template |-> learned'.template, observed |-> TRUE]
                  /\ \A p \in PodNames :
                        LET pod == PodsRead[p]
                        IN  pod.template = learned'.template /\ Ready(pod) /\ ~pod.restarted
                              => pod.readyAt - pod.created <= learned'.lead
<1>1. IInv /\ [Next]_vars => [A]_vars
  <2> SUFFICES ASSUME IInv, [Next]_vars PROVE [A]_vars
    OBVIOUS
  <2>1. CASE learned' = learned
    BY <2>1
  <2>2. CASE learned' # learned
    <3>1. Evaluate
      BY <2>2 DEF vars, Next, Cluster, Tick, Rollout, CreateReplicaSet, ObserveGeneration,
                  CreatePod, BecomeReady, BecomeUnready, RestartContainer, DeletePod,
                  controller, Reconcile, ReadDeployment, ReadPods, Fail
    <3>2. /\ DeploymentRead = [template |-> learned'.template, observed |-> TRUE]
          /\ \A p \in Fresh(PodsRead, learned'.template) : Lead(PodsRead[p]) <= learned'.lead
      BY <2>2, <3>1, EvaluateFacts
    <3> QED
      BY <3>2 DEF Fresh, ReadyPods, Lead
  <2> QED
    BY <2>1, <2>2
<1> QED
  BY <1>1, SpecInv, PTL DEF Spec, LearnsOnlyWhatIsSettled

=============================================================================
