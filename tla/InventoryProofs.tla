--------------------------- MODULE InventoryProofs ---------------------------
(***************************************************************************)
(* Theorems about inventory-service, for every finite set of requests and  *)
(* every number of workers, and their proofs: its gauges and its error     *)
(* counters, however cancellations, timeouts and the database interleave.  *)
(***************************************************************************)
EXTENDS Inventory, SlotPoolProofs

\* What the proofs assume of the constants: requests are finitely many, and
\* INVENTORY_CONCURRENCY is a number.
FiniteService == IsFiniteSet(Requests) /\ Workers \in Nat

-----------------------------------------------------------------------------
\* The inductive invariant.

MetricsType == [active : Int, activeWork : Int, dbActive : Int,
                requests : Int, errors : Int, dbRequests : Int, dbErrors : Int]

Shape ==
    /\ FiniteService
    /\ step \in [Requests -> Steps]
    /\ early \subseteq canceled /\ canceled \subseteq Requests
    /\ erred \in [Requests -> BOOLEAN]
    /\ metrics \in MetricsType

\* A request holds a worker from its turn at the channel to its receive from it.
ChannelInv ==
    /\ Proper(workers, Requests, Workers)
    /\ \A r \in Requests :
          /\ r \in workers.holders => step[r] \in {"queued"} \union InSlot
          /\ step[r] \in InSlot => r \in workers.holders
          /\ r \in Queued(workers) => step[r] = "queued"

InFlight == Steps \ {"new", "done"}

\* Every gauge counts the requests at some steps of the handler.
GaugeInv ==
    /\ metrics.activeWork = Counted(step, Requests, {"working"})
    /\ metrics.dbActive = Counted(step, Requests, {"querying"})
    /\ metrics.active = Counted(step, Requests, InFlight)

Erred == {r \in Requests : erred[r]}

\* A request errs once, after its query, and is counted when it is done.
ErrorInv ==
    /\ \A r \in Requests : erred[r] => step[r] \in AfterQuery
    /\ \A r \in early : step[r] \in AfterQuery => erred[r]
    /\ metrics.errors = Cardinality({r \in Erred : step[r] = "done"})
    /\ metrics.dbErrors <= Cardinality(Erred)

IInv == Shape /\ ChannelInv /\ GaugeInv /\ ErrorInv

-----------------------------------------------------------------------------
\* One step of a handler.

\* One step of a handler.
LEMMA GotoFacts ==
    ASSUME Shape, NEW r \in Requests, NEW from, NEW to \in Steps, Goto(r, from, to)
    PROVE  /\ step[r] = from /\ step' \in [Requests -> Steps]
           /\ step'[r] = to
           /\ \A x \in Requests : x # r => step'[x] = step[x]
<1> QED
  BY DEF Goto, Shape

\* It changes the three gauges by the request's going in or out of their steps.
LEMMA GotoGauges ==
    ASSUME Shape, GaugeInv, NEW r \in Requests, NEW from, NEW to, Goto(r, from, to),
           metrics'.activeWork = metrics.activeWork + In(to, {"working"}) - In(from, {"working"}),
           metrics'.dbActive = metrics.dbActive + In(to, {"querying"}) - In(from, {"querying"}),
           metrics'.active = metrics.active + In(to, InFlight) - In(from, InFlight)
    PROVE  GaugeInv'
<1>1. ASSUME NEW places
      PROVE  Counted(step', Requests, places)
               = Counted(step, Requests, places) + In(to, places) - In(from, places)
  <2>1. Moves(r, Requests, step, step') /\ step[r] = from /\ step'[r] = to
    BY DEF Goto, Shape, FiniteService, Moves
  <2> QED
    BY <2>1, MoveCounts
<1>2. Counted(step', Requests, {"working"}) = metrics'.activeWork
  BY <1>1 DEF GaugeInv
<1>3. Counted(step', Requests, {"querying"}) = metrics'.dbActive
  BY <1>1 DEF GaugeInv
<1>4. Counted(step', Requests, InFlight) = metrics'.active
  BY <1>1 DEF GaugeInv
<1> QED
  BY <1>2, <1>3, <1>4 DEF GaugeInv, InFlight

\* The channel stands while the request neither asks for a worker nor returns one.
LEMMA GotoChannel ==
    ASSUME Shape, ChannelInv, NEW r \in Requests, NEW from, NEW to \in Steps, Goto(r, from, to),
           UNCHANGED workers,
           r \in workers.holders <=> to \in InSlot,
           from # "queued" \/ r \in workers.holders
    PROVE  ChannelInv'
<1>1. /\ step[r] = from /\ step'[r] = to
      /\ \A x \in Requests : x # r => step'[x] = step[x]
  BY GotoFacts
<1>2. Proper(workers', Requests, Workers)
  BY DEF ChannelInv
<1>3. Queued(workers') = Queued(workers) /\ workers'.holders = workers.holders
  OBVIOUS
<1>4. Queued(workers) \intersect workers.holders = {}
  BY DEF ChannelInv, Proper
<1>5. ASSUME NEW x \in Requests
      PROVE  /\ x \in workers.holders => step'[x] \in {"queued"} \union InSlot
             /\ step'[x] \in InSlot => x \in workers.holders
             /\ x \in Queued(workers) => step'[x] = "queued"
  <2>1. CASE x # r
    BY <1>1, <2>1 DEF ChannelInv
  <2>2. CASE x = r
    <3>1. x \notin Queued(workers)
      BY <1>1, <1>4, <2>2 DEF ChannelInv
    <3> QED
      BY <1>1, <2>2, <3>1
  <2> QED
    BY <2>1, <2>2
<1> QED
  BY <1>2, <1>3, <1>5 DEF ChannelInv

\* Errors as they are counted when a handler ends, and those that still will be.
LEMMA ErroredParts ==
    ASSUME Shape
    PROVE  /\ IsFiniteSet(Erred) /\ Cardinality(Erred) \in Nat
           /\ \A S \in SUBSET Erred : IsFiniteSet(S) /\ Cardinality(S) \in Nat
<1>1. IsFiniteSet(Requests) /\ Erred \in SUBSET Requests
  BY DEF Shape, FiniteService, Erred
<1>2. IsFiniteSet(Erred)
  BY <1>1, FS_Subset
<1> QED
  BY <1>2, FS_Subset, FS_CardinalityType

\* A step of a handler that errs no one and does not end stands by the counters.
LEMMA GotoErrors ==
    ASSUME Shape, ErrorInv, NEW r \in Requests, NEW from, NEW to \in Steps, Goto(r, from, to),
           UNCHANGED <<early, erred>>,
           to # "done", from # "done",
           from \in AfterQuery <=> to \in AfterQuery,
           metrics'.errors = metrics.errors, metrics'.dbErrors = metrics.dbErrors
    PROVE  ErrorInv'
<1>1. /\ step[r] = from /\ step'[r] = to
      /\ \A x \in Requests : x # r => step'[x] = step[x]
  BY GotoFacts
<1>2. \A x \in Requests : /\ step'[x] \in AfterQuery <=> step[x] \in AfterQuery
                          /\ step'[x] = "done" <=> step[x] = "done"
  BY <1>1
<1>3. Erred' = Erred /\ Erred \subseteq Requests
  BY DEF Erred
<1>4. {x \in Erred' : step'[x] = "done"} = {x \in Erred : step[x] = "done"}
  BY <1>2, <1>3
<1>5. early \subseteq Requests
  BY DEF Shape
<1>6. /\ \A x \in Requests : erred'[x] => step'[x] \in AfterQuery
      /\ \A x \in early' : step'[x] \in AfterQuery => erred'[x]
  BY <1>2, <1>5 DEF ErrorInv
<1> HIDE DEF AfterQuery
<1> QED
  BY <1>3, <1>4, <1>6 DEF ErrorInv

\* A step that ends the query, or the work before it, with or without an error.
LEMMA GotoLeaving ==
    ASSUME Shape, ErrorInv, NEW r \in Requests, NEW from, NEW failed \in BOOLEAN,
           NEW counted \in {0, 1},
           Goto(r, from, "leaving"), from \notin AfterQuery, early' = early,
           erred' = [erred EXCEPT ![r] = failed],
           r \in early => failed, counted = 1 => failed,
           metrics'.errors = metrics.errors, metrics'.dbErrors = metrics.dbErrors + counted
    PROVE  ErrorInv'
<1>1. /\ step[r] = from /\ step'[r] = "leaving"
      /\ \A x \in Requests : x # r => step'[x] = step[x]
  BY GotoFacts DEF Steps, AfterQuery
<1>2. /\ erred'[r] = failed
      /\ \A x \in Requests : x # r => erred'[x] = erred[x]
  BY DEF Shape
<1>3. ~erred[r]
  BY <1>1 DEF ErrorInv
<1>4. Erred' = IF failed THEN Erred \union {r} ELSE Erred
  BY <1>2, <1>3 DEF Erred
<1>5. {x \in Erred' : step'[x] = "done"} = {x \in Erred : step[x] = "done"}
  <2>1. r \notin Erred /\ Erred \subseteq Requests
    BY <1>3 DEF Erred
  <2>2. step'[r] # "done"
    BY <1>1
  <2> QED
    BY <1>1, <1>4, <2>1, <2>2
<1>6. metrics'.dbErrors <= Cardinality(Erred')
  <2>1. IsFiniteSet(Erred) /\ Cardinality(Erred) \in Nat /\ r \notin Erred
    BY <1>3, ErroredParts DEF Erred
  <2>2. metrics.dbErrors \in Int /\ metrics.dbErrors <= Cardinality(Erred)
    BY DEF Shape, MetricsType, ErrorInv
  <2>3. CASE failed
    <3>1. Cardinality(Erred \union {r}) = Cardinality(Erred) + 1
      BY <2>1, FS_AddElement
    <3> QED
      BY <1>4, <2>1, <2>2, <2>3, <3>1
  <2>4. CASE ~failed
    BY <1>4, <2>1, <2>2, <2>4
  <2> QED
    BY <2>3, <2>4
<1>7. /\ \A x \in Requests : erred'[x] => step'[x] \in AfterQuery
      /\ \A x \in early' : step'[x] \in AfterQuery => erred'[x]
  <2>1. early \subseteq Requests /\ "leaving" \in AfterQuery
    BY DEF Shape, AfterQuery
  <2> QED
    BY <1>1, <1>2, <2>1 DEF ErrorInv
<1> QED
  BY <1>5, <1>6, <1>7 DEF ErrorInv

-----------------------------------------------------------------------------
\* The steps of the handler.

\* What a step from one place to another does to the three gauges.
Gauges(from, to) ==
    /\ metrics' \in MetricsType
    /\ metrics'.activeWork = metrics.activeWork + In(to, {"working"}) - In(from, {"working"})
    /\ metrics'.dbActive = metrics.dbActive + In(to, {"querying"}) - In(from, {"querying"})
    /\ metrics'.active = metrics.active + In(to, InFlight) - In(from, InFlight)

\* A step that only moves a request and its gauges.
LEMMA QuietInv ==
    ASSUME IInv, NEW r \in Requests, NEW from, NEW to \in Steps, Goto(r, from, to),
           UNCHANGED <<canceled, early, erred, workers>>, Gauges(from, to),
           metrics'.errors = metrics.errors, metrics'.dbErrors = metrics.dbErrors,
           r \in workers.holders <=> to \in InSlot, from # "queued" \/ r \in workers.holders,
           from # "done", to # "done", from \in AfterQuery <=> to \in AfterQuery
    PROVE  IInv'
<1>1. Shape'
  BY DEF IInv, Shape, Gauges, MetricsType, Goto
<1>2. ChannelInv'
  BY GotoChannel DEF IInv
<1>3. GaugeInv'
  BY GotoGauges DEF IInv, Gauges
<1>4. ErrorInv'
  BY GotoErrors DEF IInv
<1> QED
  BY <1>1, <1>2, <1>3, <1>4 DEF IInv

\* A request that arrives is in flight.
LEMMA ReceivesInv ==
    ASSUME IInv, NEW r \in Requests, Receives(r)
    PROVE  IInv'
<1>1. Goto(r, "new", "begun") /\ step[r] = "new"
  BY DEF Receives, Goto
<1>2. Gauges("new", "begun")
  BY DEF Receives, Gauges, MetricsType, IInv, Shape, In, InFlight, Steps, BeforeQuery, AfterQuery
<1>3. r \notin workers.holders
  BY <1>1 DEF IInv, ChannelInv, InSlot
<1> QED
  BY <1>1, <1>2, <1>3, QuietInv
     DEF Receives, IInv, Shape, InSlot, AfterQuery, Steps, BeforeQuery

\* A request with a worker begins its work.
LEMMA BeginWorkInv ==
    ASSUME IInv, NEW r \in Requests, BeginWork(r)
    PROVE  IInv'
<1>1. Goto(r, "queued", "working") /\ r \in workers.holders
  BY DEF BeginWork
<1>2. Gauges("queued", "working")
  BY DEF BeginWork, Gauges, MetricsType, IInv, Shape, In, InFlight, Steps, BeforeQuery, AfterQuery
<1> QED
  BY <1>1, <1>2, QuietInv
     DEF BeginWork, IInv, Shape, InSlot, AfterQuery, Steps, BeforeQuery

\* The timer ends the work.
LEMMA SelectTimerInv ==
    ASSUME IInv, NEW r \in Requests, SelectTimer(r)
    PROVE  IInv'
<1>1. Goto(r, "working", "ready") /\ r \in workers.holders
  BY DEF SelectTimer, Goto, IInv, ChannelInv, InSlot
<1>2. Gauges("working", "ready")
  BY DEF SelectTimer, Gauges, MetricsType, IInv, Shape, In, InFlight, Steps, BeforeQuery, AfterQuery
<1> QED
  BY <1>1, <1>2, QuietInv
     DEF SelectTimer, IInv, Shape, InSlot, AfterQuery, Steps, BeforeQuery

\* The query begins.
LEMMA BeginQueryInv ==
    ASSUME IInv, NEW r \in Requests, BeginQuery(r)
    PROVE  IInv'
<1>1. Goto(r, "ready", "querying") /\ r \in workers.holders
  BY DEF BeginQuery, Goto, IInv, ChannelInv, InSlot
<1>2. Gauges("ready", "querying")
  BY DEF BeginQuery, Gauges, MetricsType, IInv, Shape, In, InFlight, Steps, BeforeQuery, AfterQuery
<1> QED
  BY <1>1, <1>2, QuietInv
     DEF BeginQuery, IInv, Shape, InSlot, AfterQuery, Steps, BeforeQuery

\* A step after which the request only has to give its worker back.
LEMMA LeavingInv ==
    ASSUME IInv, NEW r \in Requests, NEW from \in {"working", "querying"},
           NEW failed \in BOOLEAN, NEW counted \in {0, 1},
           Goto(r, from, "leaving"), UNCHANGED <<canceled, early, workers>>,
           erred' = [erred EXCEPT ![r] = failed],
           Gauges(from, "leaving"),
           r \in early => failed, counted = 1 => failed,
           metrics'.errors = metrics.errors, metrics'.dbErrors = metrics.dbErrors + counted
    PROVE  IInv'
<1>1. /\ "leaving" \in Steps /\ "leaving" \in InSlot /\ from \in InSlot
      /\ from \notin AfterQuery /\ from # "queued"
  BY DEF Steps, AfterQuery, BeforeQuery, InSlot
<1>2. r \in workers.holders
  BY <1>1 DEF Goto, IInv, ChannelInv
<1>3. Shape'
  BY <1>1 DEF IInv, Shape, Gauges, MetricsType, Goto
<1>4. ChannelInv'
  BY <1>1, <1>2, GotoChannel DEF IInv
<1>5. GaugeInv'
  BY GotoGauges DEF IInv, Gauges
<1>6. ErrorInv'
  BY <1>1, GotoLeaving DEF IInv
<1> QED
  BY <1>3, <1>4, <1>5, <1>6 DEF IInv

\* The cancellation ends the work, and errs.
LEMMA SelectCanceledInv ==
    ASSUME IInv, NEW r \in Requests, SelectCanceled(r)
    PROVE  IInv'
<1>1. Gauges("working", "leaving") /\ metrics'.dbErrors = metrics.dbErrors + 0
      /\ metrics'.errors = metrics.errors
  BY DEF SelectCanceled, Gauges, MetricsType, IInv, Shape, In, InFlight, Steps, BeforeQuery,
         AfterQuery
<1> QED
  BY <1>1, LeavingInv DEF SelectCanceled

\* The query ends, however it ends.
LEMMA EndQueryInv ==
    ASSUME IInv, NEW r \in Requests, NEW dbFailed \in BOOLEAN, NEW encodeFailed \in BOOLEAN,
           EndQuery(r, dbFailed, encodeFailed), r \in early => dbFailed
    PROVE  IInv'
<1> DEFINE failed  == dbFailed \/ encodeFailed
           counted == Count(dbFailed)
<1>1. Gauges("querying", "leaving") /\ metrics'.dbErrors = metrics.dbErrors + counted
      /\ metrics'.errors = metrics.errors
  <2>1. counted \in Int
    BY DEF Count
  <2>2. metrics' = [metrics EXCEPT !.dbActive = @ - 1, !.dbRequests = @ + 1,
                                   !.dbErrors = @ + counted]
    BY DEF EndQuery
  <2> HIDE DEF counted
  <2>3. /\ In("leaving", {"working"}) = 0 /\ In("querying", {"working"}) = 0
        /\ In("leaving", {"querying"}) = 0 /\ In("querying", {"querying"}) = 1
        /\ In("leaving", InFlight) = 1 /\ In("querying", InFlight) = 1
    BY DEF In, InFlight, Steps, BeforeQuery, AfterQuery
  <2>4. metrics \in MetricsType
    BY DEF IInv, Shape
  <2>5. metrics' \in MetricsType
    <3> DEFINE active   == metrics.dbActive - 1
               requests == metrics.dbRequests + 1
               errors   == metrics.dbErrors + counted
    <3>1. active \in Int /\ requests \in Int /\ errors \in Int
      BY <2>1, <2>4 DEF MetricsType
    <3>2. metrics' = [metrics EXCEPT !.dbActive = active, !.dbRequests = requests,
                                     !.dbErrors = errors]
      BY <2>2
    <3> HIDE DEF active, requests, errors
    <3> QED
      BY <2>4, <3>1, <3>2 DEF MetricsType
  <2>6. /\ metrics'.dbActive = metrics.dbActive - 1
        /\ metrics'.activeWork = metrics.activeWork /\ metrics'.active = metrics.active
        /\ metrics'.dbErrors = metrics.dbErrors + counted /\ metrics'.errors = metrics.errors
    BY <2>1, <2>2, <2>4 DEF MetricsType
  <2> QED
    BY <2>3, <2>4, <2>5, <2>6 DEF Gauges, MetricsType
<1>2. /\ failed \in BOOLEAN /\ counted \in {0, 1} /\ (counted = 1 => failed)
      /\ r \in early => failed
  BY DEF Count
<1>3. /\ Goto(r, "querying", "leaving") /\ UNCHANGED <<canceled, early, workers>>
      /\ erred' = [erred EXCEPT ![r] = failed]
  BY DEF EndQuery
<1> HIDE DEF failed, counted
<1> QED
  BY <1>1, <1>2, <1>3, LeavingInv

\* The send puts a request at the channel.
LEMMA TakeWorkerInv ==
    ASSUME IInv, NEW r \in Requests, TakeWorker(r)
    PROVE  IInv'
<1>1. /\ Goto(r, "begun", "queued") /\ "queued" \in Steps
      /\ UNCHANGED <<canceled, early, erred, metrics>>
      /\ workers' = Send(workers, r, Workers)
  BY DEF TakeWorker, Steps, BeforeQuery
<1>2. Shape'
  BY <1>1 DEF IInv, Shape, Goto
<1>3. GaugeInv'
  <2>1. Gauges("begun", "queued")
    BY <1>1 DEF Gauges, MetricsType, IInv, Shape, In, InFlight, Steps, BeforeQuery, AfterQuery
  <2> QED
    BY <1>1, <2>1, GotoGauges DEF IInv, Gauges
<1>4. ErrorInv'
  <2>1. /\ metrics'.errors = metrics.errors /\ metrics'.dbErrors = metrics.dbErrors
        /\ "begun" \notin AfterQuery /\ "queued" \notin AfterQuery
    BY <1>1 DEF AfterQuery
  <2> QED
    BY <1>1, <2>1, GotoErrors DEF IInv
<1>5. ChannelInv'
  <2>1. /\ step[r] = "begun" /\ step'[r] = "queued"
        /\ \A x \in Requests : x # r => step'[x] = step[x]
    BY <1>1, GotoFacts DEF IInv
  <2>2. r \notin workers.holders /\ r \notin Queued(workers)
    BY <2>1 DEF IInv, ChannelInv, InSlot
  <2>3. /\ Proper(workers, Requests, Workers)
        /\ IsFiniteSet(Requests) /\ Workers \in Nat
    BY DEF IInv, ChannelInv, Shape, FiniteService
  <2>4. /\ Proper(workers', Requests, Workers)
        /\ workers'.holders \subseteq workers.holders \union {r}
        /\ workers.holders \subseteq workers'.holders
        /\ Queued(workers') \subseteq Queued(workers) \union {r}
    <3> DEFINE after == Send(workers, r, Workers)
    <3>1. /\ Proper(after, Requests, Workers)
          /\ \/ after.holders = workers.holders \union {r} /\ Queued(after) = Queued(workers)
             \/ after.holders = workers.holders /\ Queued(after) = Queued(workers) \union {r}
      BY <2>2, <2>3, SendFacts
    <3> HIDE DEF after
    <3>2. workers' = after
      BY <1>1 DEF after
    <3> QED
      BY <3>1, <3>2
  <2>5. "queued" \notin InSlot
    BY DEF InSlot
  <2> QED
    BY <2>1, <2>2, <2>4, <2>5 DEF IInv, ChannelInv
<1> QED
  BY <1>2, <1>3, <1>4, <1>5 DEF IInv

\* The receive takes a request away, and gives its worker to one that waits.
LEMMA FreeWorkerInv ==
    ASSUME IInv, NEW r \in Requests, FreeWorker(r)
    PROVE  IInv'
<1>1. /\ Goto(r, "leaving", "freed") /\ "freed" \in Steps
      /\ UNCHANGED <<canceled, early, erred, metrics>>
      /\ workers' = Receive(workers, r)
  BY DEF FreeWorker, Steps, AfterQuery
<1>2. Shape'
  BY <1>1 DEF IInv, Shape, Goto
<1>3. GaugeInv'
  <2>1. Gauges("leaving", "freed")
    BY <1>1 DEF Gauges, MetricsType, IInv, Shape, In, InFlight, Steps, BeforeQuery, AfterQuery
  <2> QED
    BY <1>1, <2>1, GotoGauges DEF IInv, Gauges
<1>4. ErrorInv'
  <2>1. /\ metrics'.errors = metrics.errors /\ metrics'.dbErrors = metrics.dbErrors
        /\ "leaving" \in AfterQuery /\ "freed" \in AfterQuery
    BY <1>1 DEF AfterQuery
  <2> QED
    BY <1>1, <2>1, GotoErrors DEF IInv
<1>5. ChannelInv'
  <2>1. /\ step[r] = "leaving" /\ step'[r] = "freed"
        /\ \A x \in Requests : x # r => step'[x] = step[x]
    BY <1>1, GotoFacts DEF IInv
  <2>2. r \in workers.holders
    BY <2>1 DEF IInv, ChannelInv, InSlot
  <2>3. /\ Proper(workers, Requests, Workers)
        /\ IsFiniteSet(Requests) /\ Workers \in Nat
        /\ Queued(workers) \intersect workers.holders = {}
    BY DEF IInv, ChannelInv, Shape, FiniteService, Proper
  <2>4. /\ Proper(workers', Requests, Workers)
        /\ r \notin workers'.holders
        /\ workers'.holders \subseteq workers.holders \union Queued(workers)
        /\ workers.holders \ {r} \subseteq workers'.holders
        /\ Queued(workers') \subseteq Queued(workers)
    <3> DEFINE after == Receive(workers, r)
    <3>1. /\ Proper(after, Requests, Workers)
          /\ \/ after.holders = workers.holders \ {r} /\ Queued(after) = Queued(workers)
             \/ \E next \in Queued(workers) :
                   /\ after.holders = (workers.holders \ {r}) \union {next}
                   /\ Queued(after) = Queued(workers) \ {next}
      BY <2>2, <2>3, ReceiveFacts
    <3> HIDE DEF after
    <3>2. workers' = after
      BY <1>1 DEF after
    <3> QED
      BY <2>2, <2>3, <3>1, <3>2
  <2>5. "freed" \notin InSlot
    BY DEF InSlot
  <2> QED
    BY <2>1, <2>2, <2>3, <2>4, <2>5 DEF IInv, ChannelInv
<1> QED
  BY <1>2, <1>3, <1>4, <1>5 DEF IInv

\* The error of a request is counted when it is done.
LEMMA ObserveInv ==
    ASSUME IInv, NEW r \in Requests, Observe(r)
    PROVE  IInv'
<1>1. /\ Goto(r, "freed", "done") /\ "done" \in Steps
      /\ UNCHANGED <<canceled, early, erred, workers>>
      /\ metrics' = [metrics EXCEPT !.active = @ - 1, !.requests = @ + 1,
                                    !.errors = @ + Count(erred[r])]
  BY DEF Observe, Steps, AfterQuery
<1>2. /\ step[r] = "freed" /\ step'[r] = "done"
      /\ \A x \in Requests : x # r => step'[x] = step[x]
  BY <1>1, GotoFacts DEF IInv
<1>3. Count(erred[r]) \in {0, 1} /\ (erred[r] <=> Count(erred[r]) = 1)
  BY DEF Count, IInv, Shape
<1>4. /\ Gauges("freed", "done")
      /\ metrics'.dbErrors = metrics.dbErrors /\ metrics'.errors = metrics.errors + Count(erred[r])
  <2> DEFINE k == Count(erred[r])
  <2>1. /\ In("done", {"working"}) = 0 /\ In("freed", {"working"}) = 0
        /\ In("done", {"querying"}) = 0 /\ In("freed", {"querying"}) = 0
        /\ In("done", InFlight) = 0 /\ In("freed", InFlight) = 1
    BY DEF In, InFlight, Steps, BeforeQuery, AfterQuery
  <2>2. metrics \in MetricsType /\ k \in Int
    BY <1>3 DEF IInv, Shape
  <2> HIDE DEF k
  <2>3. metrics' = [metrics EXCEPT !.active = @ - 1, !.requests = @ + 1, !.errors = @ + k]
    BY <1>1 DEF k
  <2>4. metrics' \in MetricsType
    <3> DEFINE active   == metrics.active - 1
               requests == metrics.requests + 1
               errors   == metrics.errors + k
    <3>1. active \in Int /\ requests \in Int /\ errors \in Int
      BY <2>2 DEF MetricsType
    <3>2. metrics' = [metrics EXCEPT !.active = active, !.requests = requests,
                                     !.errors = errors]
      BY <2>3
    <3> HIDE DEF active, requests, errors
    <3> QED
      BY <2>2, <3>1, <3>2 DEF MetricsType
  <2>5. /\ metrics'.dbActive = metrics.dbActive
        /\ metrics'.activeWork = metrics.activeWork /\ metrics'.active = metrics.active - 1
        /\ metrics'.dbErrors = metrics.dbErrors /\ metrics'.errors = metrics.errors + k
    BY <2>2, <2>3 DEF MetricsType
  <2> QED
    BY <2>1, <2>2, <2>4, <2>5 DEF Gauges, MetricsType, k
<1>5. Shape'
  BY <1>1, <1>4 DEF IInv, Shape, Gauges, Goto
<1>6. GaugeInv'
  BY <1>1, <1>4, GotoGauges DEF IInv, Gauges
<1>7. ChannelInv'
  <2>1. r \notin workers.holders /\ "done" \notin InSlot
    BY <1>2 DEF IInv, ChannelInv, InSlot
  <2> QED
    BY <1>1, <2>1, GotoChannel DEF IInv
<1>8. ErrorInv'
  <2>1. Erred' = Erred /\ r \in Requests /\ (r \in Erred <=> erred[r])
    BY <1>1 DEF Erred
  <2> DEFINE D == {x \in Erred : step[x] = "done"}
             E == {x \in Erred : step'[x] = "done"}
  <2>2. IsFiniteSet(D) /\ r \notin D
    BY <1>2, ErroredParts DEF IInv
  <2>3. Cardinality(E) = Cardinality(D) + Count(erred[r])
    <3>1. CASE erred[r]
      <4>1. E = D \union {r}
        BY <1>2, <2>1, <3>1 DEF Erred
      <4> HIDE DEF D, E
      <4> QED
        BY <1>3, <2>2, <3>1, <4>1, FS_AddElement
    <3>2. CASE ~erred[r]
      <4>1. E = D
        BY <1>2, <2>1, <3>2 DEF Erred
      <4>2. Cardinality(D) \in Nat
        BY <2>2, FS_CardinalityType
      <4> HIDE DEF D, E
      <4> QED
        BY <1>3, <3>2, <4>1, <4>2
    <3> QED
      BY <3>1, <3>2
  <2>4. /\ \A x \in Requests : erred'[x] => step'[x] \in AfterQuery
        /\ \A x \in early' : step'[x] \in AfterQuery => erred'[x]
    <3>1. "freed" \in AfterQuery /\ "done" \in AfterQuery /\ early \subseteq Requests
      BY DEF AfterQuery, IInv, Shape
    <3> QED
      BY <1>1, <1>2, <3>1 DEF IInv, ErrorInv
  <2>5. metrics'.errors = Cardinality(E)
    BY <1>4, <2>3 DEF IInv, ErrorInv
  <2> QED
    BY <1>4, <2>1, <2>4, <2>5 DEF IInv, ErrorInv
<1> QED
  BY <1>5, <1>6, <1>7, <1>8 DEF IInv

\* A cancellation moves no one.
LEMMA CancelInv ==
    ASSUME IInv, NEW r \in Requests, Cancel(r)
    PROVE  IInv'
<1>1. Shape'
  BY DEF Cancel, IInv, Shape
<1>2. ChannelInv' /\ GaugeInv'
  BY DEF Cancel, IInv, ChannelInv, GaugeInv
<1>3. ErrorInv'
  <2>1. \A x \in early' : x \in early \/ step[x] \in BeforeQuery
    BY DEF Cancel
  <2>2. BeforeQuery \intersect AfterQuery = {}
    BY DEF BeforeQuery, AfterQuery
  <2>3. Erred' = Erred
    BY DEF Cancel, Erred
  <2> QED
    BY <2>1, <2>2, <2>3 DEF Cancel, IInv, ErrorInv
<1> QED
  BY <1>1, <1>2, <1>3 DEF IInv

-----------------------------------------------------------------------------
\* The invariant, and the theorems.

\* Nobody is there at first.
LEMMA InitInv == FiniteService /\ Init => IInv
<1> SUFFICES ASSUME FiniteService, Init PROVE IInv
  OBVIOUS
<1>1. Shape
  BY DEF Init, Shape, NoMetrics, MetricsType, Steps
<1>2. ChannelInv
  <2>1. Proper(workers, Requests, Workers) /\ workers.holders = {} /\ Queued(workers) = {}
    BY EmptyIsProper DEF Init, FiniteService
  <2> QED
    BY <2>1 DEF Init, ChannelInv, InSlot
<1>3. GaugeInv
  <2>1. \A r \in Requests : step[r] \notin {"working"} /\ step[r] \notin {"querying"}
                            /\ step[r] \notin InFlight
    BY DEF Init, InFlight
  <2>2. /\ Counted(step, Requests, {"working"}) = 0
        /\ Counted(step, Requests, {"querying"}) = 0
        /\ Counted(step, Requests, InFlight) = 0
    BY <2>1, NobodyThere
  <2> QED
    BY <2>2 DEF Init, NoMetrics, GaugeInv
<1>4. ErrorInv
  <2>1. Erred = {} /\ {r \in Erred : step[r] = "done"} = {}
    BY DEF Init, Erred
  <2>2. metrics.errors = 0 /\ metrics.dbErrors = 0 /\ Cardinality({}) = 0
    BY FS_EmptySet DEF Init, NoMetrics
  <2> QED
    BY <2>1, <2>2 DEF Init, ErrorInv
<1> QED
  BY <1>1, <1>2, <1>3, <1>4 DEF IInv

\* Every step preserves the invariant.
LEMMA NextInv == IInv /\ [Next]_vars => IInv'
<1> SUFFICES ASSUME IInv, [Next]_vars PROVE IInv'
  OBVIOUS
<1>1. CASE UNCHANGED vars
  BY <1>1 DEF vars, IInv, Shape, ChannelInv, GaugeInv, ErrorInv, Erred
<1>2. CASE Next
  <2>1. PICK r \in Requests : Receives(r) \/ Handler(r) \/ DatabaseAnswers(r) \/ Cancel(r)
    BY <1>2 DEF Next
  <2>2. CASE Receives(r)
    BY <2>2, ReceivesInv
  <2>3. CASE Handler(r)
    <3>1. CASE TakeWorker(r) \/ BeginWork(r) \/ SelectCanceled(r) \/ SelectTimer(r)
      BY <3>1, TakeWorkerInv, BeginWorkInv, SelectCanceledInv, SelectTimerInv
    <3>2. CASE BeginQuery(r) \/ FreeWorker(r) \/ Observe(r)
      BY <3>2, BeginQueryInv, FreeWorkerInv, ObserveInv
    <3>3. CASE QueryTimesOut(r)
      BY <3>3, EndQueryInv DEF QueryTimesOut
    <3> QED
      BY <2>3, <3>1, <3>2, <3>3 DEF Handler
  <2>4. CASE DatabaseAnswers(r)
    BY <2>4, EndQueryInv DEF DatabaseAnswers
  <2>5. CASE Cancel(r)
    BY <2>5, CancelInv
  <2> QED
    BY <2>1, <2>2, <2>3, <2>4, <2>5
<1> QED
  BY <1>1, <1>2

\* Work, queries and requests are counted where they are, however a cancellation
\* races the timer or the query (begin, beginWork, endWork, beginDB, observeDB,
\* observe).
THEOREM LoadIsReal == FiniteService /\ Spec => []NoPhantomLoad
<1>1. IInv => NoPhantomLoad
  <2> SUFFICES ASSUME IInv PROVE NoPhantomLoad
    OBVIOUS
  <2>1. /\ IsFiniteSet(Requests) /\ Proper(workers, Requests, Workers)
        /\ workers.holders \in SUBSET Requests /\ Cardinality(workers.holders) <= Workers
    BY DEF IInv, Shape, FiniteService, ChannelInv, Proper
  <2>2. IsFiniteSet(workers.holders)
    BY <2>1, FS_Subset
  <2> DEFINE W == {r \in Requests : step[r] \in {"working"}}
             Q == {r \in Requests : step[r] \in {"querying"}}
  <2>3. /\ W \union Q \in SUBSET workers.holders /\ W \intersect Q = {}
        /\ W \in SUBSET Requests /\ Q \in SUBSET Requests
    BY DEF IInv, ChannelInv, InSlot
  <2>4. /\ metrics.activeWork = Cardinality(W) /\ metrics.dbActive = Cardinality(Q)
        /\ metrics.active = Cardinality(At(InFlight))
    BY DEF IInv, GaugeInv, Counted, At
  <2> HIDE DEF W, Q
  <2>5. IsFiniteSet(W) /\ IsFiniteSet(Q)
    BY <2>1, <2>3, FS_Subset
  <2>6. Cardinality(W \union Q) = Cardinality(W) + Cardinality(Q)
    BY <2>3, <2>5, DisjointParts
  <2>7. Cardinality(W \union Q) <= Cardinality(workers.holders)
    BY <2>2, <2>3, FS_Subset
  <2> QED
    BY <2>1, <2>4, <2>6, <2>7 DEF NoPhantomLoad, InFlight
<1> QED
  BY <1>1, InitInv, NextInv, PTL DEF Spec

\* A canceled request is counted as an error whichever branch takes it, and the
\* errors cover the failed queries (processRequest, inventoryItems, observeDB).
THEOREM CancellationCounted == FiniteService /\ Spec => []CanceledIsError
<1>1. IInv => CanceledIsError
  <2> SUFFICES ASSUME IInv PROVE CanceledIsError
    OBVIOUS
  <2> DEFINE D == {r \in Erred : step[r] = "done"}
             L == {r \in At({"leaving", "freed"}) : erred[r]}
  <2>1. D \union L = Erred /\ D \intersect L = {}
    <3>1. \A r \in Erred : r \in Requests /\ erred[r] /\ step[r] \in {"leaving", "freed", "done"}
      BY DEF IInv, ErrorInv, Erred, AfterQuery
    <3> QED
      BY <3>1 DEF Erred, At
  <2>2. D \in SUBSET Erred /\ L \in SUBSET Erred
    BY <2>1
  <2>3. metrics.errors = Cardinality(D) /\ metrics.dbErrors <= Cardinality(Erred)
    BY DEF IInv, ErrorInv
  <2>4. \A r \in early : step[r] \in AfterQuery => erred[r]
    BY DEF IInv, ErrorInv
  <2> HIDE DEF D
  <2>5. IsFiniteSet(D) /\ IsFiniteSet(L)
    BY <2>2, ErroredParts DEF IInv
  <2>6. Cardinality(Erred) = Cardinality(D) + Cardinality(L)
    BY <2>1, <2>5, DisjointParts
  <2> QED
    BY <2>3, <2>4, <2>6 DEF CanceledIsError
<1> QED
  BY <1>1, InitInv, NextInv, PTL DEF Spec

=============================================================================
