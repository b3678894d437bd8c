--------------------------- MODULE WorkloadProofs ---------------------------
(***************************************************************************)
(* Theorems about the workload, for every finite set of requests, every    *)
(* number of slots and every time, and their proofs.                       *)
(*                                                                         *)
(* First the handler of demo-api by itself: the gauges the controller      *)
(* scales by, and requests nobody waits for.  Then the workload as it is   *)
(* deployed: seen from one of its two services the composition does        *)
(* nothing that service alone could not do, so that what is proved of the  *)
(* services holds of the workload, and a success of demo-api is one of     *)
(* inventory-service.                                                      *)
(***************************************************************************)
EXTENDS Workload, SlotPoolProofs

IP == INSTANCE InventoryProofs

-----------------------------------------------------------------------------
\* demo-api: the inductive invariant.

TelemetryType == [active : Int, waiters : Int, slotsInUse : Int, activeWork : Int,
                  requests : Int, errors : Nat, slotSeconds : Nat]

Shape ==
    /\ clock \in Nat
    /\ pc \in [Requests -> Places]
    /\ gone \subseteq Requests /\ leftEarly \subseteq gone
    /\ failed \in [Requests -> BOOLEAN]
    /\ slotStarted \in [Requests -> Nat] /\ held \in [Requests -> Nat]
    /\ \A r \in Requests : slotStarted[r] <= clock
    /\ telemetry \in TelemetryType

\* A request is at the channel from its send to its receive, with a slot from its
\* turn on.
ChannelInv ==
    /\ Proper(concurrency, Requests, Slots)
    /\ \A r \in Requests :
          /\ r \in concurrency.holders => pc[r] \in {"queued"} \union InSlot
          /\ pc[r] \in InSlot => r \in concurrency.holders
          /\ r \in Queued(concurrency) => pc[r] = "queued"
          /\ pc[r] = "queued" => r \in concurrency.holders \union Queued(concurrency)

InFlight == Places \ {"new", "done"}
Recorded == InSlot \union {"freed"}

\* Every gauge counts the requests at some places of the handler.
GaugeInv ==
    /\ telemetry.waiters = Counted(pc, Requests, BeforeSlot)
    /\ telemetry.slotsInUse = Counted(pc, Requests, Recorded)
    /\ telemetry.activeWork = Counted(pc, Requests, {"working"})
    /\ telemetry.active = Counted(pc, Requests, InFlight)
    /\ telemetry.requests = Counted(pc, Requests, {"done"})

IInv == Shape /\ ChannelInv /\ GaugeInv /\ AbandonedIsError

-----------------------------------------------------------------------------
\* The shape, and requests whose client left early.

\* One step of a handler.
LEMMA GotoFacts ==
    ASSUME Shape, NEW r \in Requests, NEW from, NEW to \in Places, Goto(r, from, to)
    PROVE  /\ pc[r] = from /\ pc' \in [Requests -> Places]
           /\ pc'[r] = to
           /\ \A x \in Requests : x # r => pc'[x] = pc[x]
           /\ Moves(r, Requests, pc, pc')
<1>1. /\ pc[r] = from /\ pc' \in [Requests -> Places]
      /\ pc'[r] = to
      /\ \A x \in Requests : x # r => pc'[x] = pc[x]
  BY DEF Goto, Shape
<1> QED
  BY <1>1, DemoAssumption DEF Moves

\* Every place is one of these.
LEMMA PlaceFacts ==
    /\ {"new", "waiting", "queued", "working", "worked", "calling", "leaving", "freed", "done"}
          = Places
    /\ BeforeCall = {"waiting", "queued", "working", "worked"}
    /\ InSlot = {"working", "worked", "calling", "leaving"}
    /\ AfterSlot = {"freed", "done"}
    /\ BeforeSlot = {"waiting", "queued"}
<1> QED
  BY DEF Places, BeforeCall, BeforeSlot, InSlot, AfterSlot

\* Every step of a handler keeps the shape.
LEMMA HandlerShape ==
    ASSUME IInv, NEW r \in Requests,
           \/ \E fail \in BOOLEAN : Arrive(r, fail)
           \/ Local(r) \/ CallInventory(r)
           \/ \E ok \in BOOLEAN : CallEnds(r, ok)
    PROVE  Shape'
<1>1. CASE \E fail \in BOOLEAN : Arrive(r, fail)
  <2> DEFINE active  == telemetry.active + 1
             waiters == telemetry.waiters + 1
  <2>1. active \in Int /\ waiters \in Int
    BY DEF IInv, Shape, TelemetryType
  <2>2. telemetry' = [telemetry EXCEPT !.active = active, !.waiters = waiters]
    BY <1>1 DEF Arrive
  <2> HIDE DEF active, waiters
  <2>3. telemetry' \in TelemetryType
    BY <2>1, <2>2 DEF IInv, Shape, TelemetryType
  <2> QED
    BY <1>1, <2>3, PlaceFacts DEF Arrive, Goto, IInv, Shape
<1>2. CASE TakeSlot(r)
  BY <1>2, PlaceFacts DEF TakeSlot, Goto, IInv, Shape
<1>3. CASE BeginWork(r)
  <2>1. /\ pc' \in [Requests -> Places]
        /\ slotStarted' \in [Requests -> Nat]
        /\ \A x \in Requests : slotStarted'[x] <= clock
    BY <1>3, PlaceFacts DEF BeginWork, Goto, IInv, Shape
  <2>2. telemetry' \in TelemetryType
    <3> DEFINE waiters == telemetry.waiters - 1
               inUse   == telemetry.slotsInUse + 1
               work    == telemetry.activeWork + 1
    <3>1. waiters \in Int /\ inUse \in Int /\ work \in Int
      BY DEF IInv, Shape, TelemetryType
    <3>2. telemetry' = [telemetry EXCEPT !.waiters = waiters, !.slotsInUse = inUse,
                                         !.activeWork = work]
      BY <1>3 DEF BeginWork
    <3> HIDE DEF waiters, inUse, work
    <3> QED
      BY <3>1, <3>2 DEF IInv, Shape, TelemetryType
  <2> QED
    BY <1>3, <2>1, <2>2 DEF BeginWork, IInv, Shape
<1>4. CASE EndWork(r)
  <2>1. pc' \in [Requests -> Places]
    BY <1>4, PlaceFacts DEF EndWork, Goto, IInv, Shape
  <2>2. telemetry' \in TelemetryType
    BY <1>4 DEF EndWork, IInv, Shape, TelemetryType
  <2> QED
    BY <1>4, <2>1, <2>2 DEF EndWork, IInv, Shape
<1>5. CASE CallRefused(r)
  BY <1>5, PlaceFacts DEF CallRefused, Goto, IInv, Shape
<1>6. CASE FreeSlot(r)
  <2>1. clock - slotStarted[r] \in Nat
    BY DEF IInv, Shape
  <2> QED
    BY <1>6, <2>1, PlaceFacts DEF FreeSlot, Goto, IInv, Shape
<1>7. CASE RecordRelease(r)
  <2> DEFINE inUse    == telemetry.slotsInUse - 1
             seconds  == telemetry.slotSeconds + held[r]
             requests == telemetry.requests + 1
             errors   == IF failed[r] THEN telemetry.errors + 1 ELSE telemetry.errors
             active   == telemetry.active - 1
  <2>1. inUse \in Int /\ seconds \in Nat /\ requests \in Int /\ errors \in Nat /\ active \in Int
    BY DEF IInv, Shape, TelemetryType
  <2>2. telemetry' = [telemetry EXCEPT !.slotsInUse = inUse, !.slotSeconds = seconds,
                                       !.requests = requests, !.errors = errors,
                                       !.active = active]
    BY <1>7 DEF RecordRelease, Finish
  <2> HIDE DEF inUse, seconds, requests, errors, active
  <2>3. telemetry' \in TelemetryType
    BY <2>1, <2>2 DEF IInv, Shape, TelemetryType
  <2>4. /\ pc' \in [Requests -> Places]
        /\ slotStarted' \in [Requests -> Nat] /\ held' \in [Requests -> Nat]
        /\ \A x \in Requests : slotStarted'[x] <= clock
    BY <1>7, PlaceFacts DEF RecordRelease, Finish, Goto, IInv, Shape
  <2> QED
    BY <1>7, <2>3, <2>4 DEF RecordRelease, Finish, IInv, Shape
<1>8. CASE CallInventory(r)
  BY <1>8, PlaceFacts DEF CallInventory, Goto, IInv, Shape
<1>9. CASE \E ok \in BOOLEAN : CallEnds(r, ok)
  BY <1>9, PlaceFacts DEF CallEnds, Goto, IInv, Shape
<1> QED
  BY <1>1, <1>2, <1>3, <1>4, <1>5, <1>6, <1>7, <1>8, <1>9 DEF Local

\* No step of a handler turns an abandoned request into a call or a success.
LEMMA HandlerAbandoned ==
    ASSUME IInv, NEW r \in Requests,
           \/ \E fail \in BOOLEAN : Arrive(r, fail)
           \/ Local(r) \/ CallInventory(r)
           \/ \E ok \in BOOLEAN : CallEnds(r, ok)
    PROVE  AbandonedIsError'
<1>1. PICK to \in Places, outcome \in BOOLEAN :
         /\ pc' = [pc EXCEPT ![r] = to] /\ failed' = [failed EXCEPT ![r] = outcome]
         /\ leftEarly' = leftEarly
         /\ r \in leftEarly => to # "calling" /\ (to \in AfterSlot \union {"leaving"} => outcome)
  <2>1. CASE \E fail \in BOOLEAN : Arrive(r, fail)
    BY <2>1, PlaceFacts DEF Arrive, Goto
  <2>2. CASE TakeSlot(r) \/ BeginWork(r) \/ EndWork(r)
    BY <2>2, PlaceFacts DEF TakeSlot, BeginWork, EndWork, Goto, IInv, Shape
  <2>3. CASE CallRefused(r)
    BY <2>3, PlaceFacts DEF CallRefused, Goto
  <2>4. CASE FreeSlot(r) \/ RecordRelease(r)
    BY <2>4, PlaceFacts DEF FreeSlot, RecordRelease, Finish, Goto, IInv, Shape, AbandonedIsError
  <2>5. CASE CallInventory(r)
    BY <2>5, PlaceFacts DEF CallInventory, Goto, IInv, Shape
  <2>6. CASE \E ok \in BOOLEAN : CallEnds(r, ok)
    BY <2>6, PlaceFacts DEF CallEnds, Goto, IInv, AbandonedIsError
  <2> QED
    BY <2>1, <2>2, <2>3, <2>4, <2>5, <2>6 DEF Local
<1>2. /\ pc'[r] = to /\ failed'[r] = outcome
      /\ \A x \in Requests : x # r => pc'[x] = pc[x] /\ failed'[x] = failed[x]
      /\ leftEarly \subseteq Requests
  BY <1>1 DEF IInv, Shape
<1> QED
  BY <1>1, <1>2 DEF IInv, AbandonedIsError

-----------------------------------------------------------------------------
\* The gauges.

\* What a step from one place to another does to the gauges.
Gauges(from, to) ==
    /\ telemetry'.waiters = telemetry.waiters + In(to, BeforeSlot) - In(from, BeforeSlot)
    /\ telemetry'.slotsInUse = telemetry.slotsInUse + In(to, Recorded) - In(from, Recorded)
    /\ telemetry'.activeWork = telemetry.activeWork + In(to, {"working"}) - In(from, {"working"})
    /\ telemetry'.active = telemetry.active + In(to, InFlight) - In(from, InFlight)
    /\ telemetry'.requests = telemetry.requests + In(to, {"done"}) - In(from, {"done"})

\* Gauges that follow a request to its new place still count the requests there.
LEMMA GotoGauges ==
    ASSUME Shape, GaugeInv, NEW r \in Requests, NEW from, NEW to \in Places, Goto(r, from, to),
           Gauges(from, to)
    PROVE  GaugeInv'
<1>1. ASSUME NEW places
      PROVE  Counted(pc', Requests, places)
               = Counted(pc, Requests, places) + In(to, places) - In(from, places)
  <2>1. Moves(r, Requests, pc, pc') /\ pc[r] = from /\ pc'[r] = to
    BY GotoFacts
  <2> QED
    BY <2>1, MoveCounts
<1>2. Counted(pc', Requests, BeforeSlot) = telemetry'.waiters
  BY <1>1 DEF GaugeInv, Gauges
<1>3. Counted(pc', Requests, Recorded) = telemetry'.slotsInUse
  BY <1>1 DEF GaugeInv, Gauges
<1>4. Counted(pc', Requests, {"working"}) = telemetry'.activeWork
  BY <1>1 DEF GaugeInv, Gauges
<1>5. Counted(pc', Requests, InFlight) = telemetry'.active
  BY <1>1 DEF GaugeInv, Gauges
<1>6. Counted(pc', Requests, {"done"}) = telemetry'.requests
  BY <1>1 DEF GaugeInv, Gauges
<1> QED
  BY <1>2, <1>3, <1>4, <1>5, <1>6 DEF GaugeInv, InFlight, Recorded

\* The places each gauge counts, by name.
LEMMA GaugePlaces ==
    /\ InFlight = {"waiting", "queued", "working", "worked", "calling", "leaving", "freed"}
    /\ Recorded = {"working", "worked", "calling", "leaving", "freed"}
    /\ BeforeSlot = {"waiting", "queued"}
<1> QED
  BY PlaceFacts DEF InFlight, Recorded

\* Every step of a handler keeps the gauges.
LEMMA HandlerGauges ==
    ASSUME IInv, NEW r \in Requests,
           \/ \E fail \in BOOLEAN : Arrive(r, fail)
           \/ Local(r) \/ CallInventory(r)
           \/ \E ok \in BOOLEAN : CallEnds(r, ok)
    PROVE  GaugeInv'
<1> USE DEF In
<1>1. PICK from \in Places, to \in Places : Goto(r, from, to) /\ Gauges(from, to)
  <2>1. telemetry \in TelemetryType
    BY DEF IInv, Shape
  <2>2. CASE \E fail \in BOOLEAN : Arrive(r, fail)
    <3>1. Goto(r, "new", "waiting")
      BY <2>2 DEF Arrive
    <3>2. Gauges("new", "waiting")
      BY <2>1, <2>2, GaugePlaces DEF Arrive, Gauges, TelemetryType
    <3> QED
      BY <3>1, <3>2, PlaceFacts
  <2>3. CASE TakeSlot(r)
    <3>1. Goto(r, "waiting", "queued")
      BY <2>3 DEF TakeSlot
    <3>2. Gauges("waiting", "queued")
      BY <2>1, <2>3, GaugePlaces DEF TakeSlot, Gauges, TelemetryType
    <3> QED
      BY <3>1, <3>2, PlaceFacts
  <2>4. CASE BeginWork(r)
    <3>1. Goto(r, "queued", "working")
      BY <2>4 DEF BeginWork
    <3>2. Gauges("queued", "working")
      BY <2>1, <2>4, GaugePlaces DEF BeginWork, Gauges, TelemetryType
    <3> QED
      BY <3>1, <3>2, PlaceFacts
  <2>5. CASE EndWork(r)
    <3>1. \/ Goto(r, "working", "leaving")
          \/ Goto(r, "working", "worked")
      BY <2>5 DEF EndWork
    <3>2. Gauges("working", "leaving") /\ Gauges("working", "worked")
      BY <2>1, <2>5, GaugePlaces DEF EndWork, Gauges, TelemetryType
    <3> QED
      BY <3>1, <3>2, PlaceFacts
  <2>6. CASE CallInventory(r)
    <3>1. Goto(r, "worked", "calling")
      BY <2>6 DEF CallInventory
    <3>2. Gauges("worked", "calling")
      BY <2>1, <2>6, GaugePlaces DEF CallInventory, Gauges, TelemetryType
    <3> QED
      BY <3>1, <3>2, PlaceFacts
  <2>7. CASE CallRefused(r)
    <3>1. Goto(r, "worked", "leaving")
      BY <2>7 DEF CallRefused
    <3>2. Gauges("worked", "leaving")
      BY <2>1, <2>7, GaugePlaces DEF CallRefused, Gauges, TelemetryType
    <3> QED
      BY <3>1, <3>2, PlaceFacts
  <2>8. CASE \E ok \in BOOLEAN : CallEnds(r, ok)
    <3>1. Goto(r, "calling", "leaving")
      BY <2>8 DEF CallEnds
    <3>2. Gauges("calling", "leaving")
      BY <2>1, <2>8, GaugePlaces DEF CallEnds, Gauges, TelemetryType
    <3> QED
      BY <3>1, <3>2, PlaceFacts
  <2>9. CASE FreeSlot(r)
    <3>1. Goto(r, "leaving", "freed")
      BY <2>9 DEF FreeSlot
    <3>2. Gauges("leaving", "freed")
      BY <2>1, <2>9, GaugePlaces DEF FreeSlot, Gauges, TelemetryType
    <3> QED
      BY <3>1, <3>2, PlaceFacts
  <2>10. CASE RecordRelease(r)
    <3>1. Goto(r, "freed", "done")
      BY <2>10 DEF RecordRelease, Finish
    <3>2. /\ telemetry'.slotsInUse = telemetry.slotsInUse - 1
          /\ telemetry'.active = telemetry.active - 1
          /\ telemetry'.requests = telemetry.requests + 1
          /\ telemetry'.waiters = telemetry.waiters
          /\ telemetry'.activeWork = telemetry.activeWork
      BY <2>1, <2>10 DEF RecordRelease, Finish, TelemetryType
    <3>3. Gauges("freed", "done")
      BY <2>1, <3>2, GaugePlaces DEF Gauges, TelemetryType
    <3> QED
      BY <3>1, <3>3, PlaceFacts
  <2> QED
    BY <2>2, <2>3, <2>4, <2>5, <2>6, <2>7, <2>8, <2>9, <2>10 DEF Local
<1> QED
  BY <1>1, GotoGauges DEF IInv

-----------------------------------------------------------------------------
\* The channel.

\* A step that leaves the channel alone, of a request whose place fits what it
\* holds there.
LEMMA GotoChannel ==
    ASSUME Shape, ChannelInv, NEW r \in Requests, NEW from, NEW to \in Places, Goto(r, from, to),
           UNCHANGED concurrency,
           r \in concurrency.holders <=> to \in InSlot,
           from # "queued" \/ r \in concurrency.holders, to # "queued"
    PROVE  ChannelInv'
<1>1. /\ pc[r] = from /\ pc'[r] = to
      /\ \A x \in Requests : x # r => pc'[x] = pc[x]
  BY GotoFacts
<1>2. Proper(concurrency', Requests, Slots)
  BY DEF ChannelInv
<1>3. Queued(concurrency') = Queued(concurrency) /\ concurrency'.holders = concurrency.holders
  OBVIOUS
<1>4. Queued(concurrency) \intersect concurrency.holders = {}
  BY DEF ChannelInv, Proper
<1>5. ASSUME NEW x \in Requests
      PROVE  /\ x \in concurrency.holders => pc'[x] \in {"queued"} \union InSlot
             /\ pc'[x] \in InSlot => x \in concurrency.holders
             /\ x \in Queued(concurrency) => pc'[x] = "queued"
             /\ pc'[x] = "queued" => x \in concurrency.holders \union Queued(concurrency)
  <2>1. CASE x # r
    BY <1>1, <2>1 DEF ChannelInv
  <2>2. CASE x = r
    <3>1. x \notin Queued(concurrency)
      BY <1>1, <1>4, <2>2 DEF ChannelInv
    <3> QED
      BY <1>1, <2>2, <3>1
  <2> QED
    BY <2>1, <2>2
<1> QED
  BY <1>2, <1>3, <1>5 DEF ChannelInv

\* The send puts a request at the channel.
LEMMA TakeSlotChannel ==
    ASSUME IInv, NEW r \in Requests, TakeSlot(r)
    PROVE  ChannelInv'
<1>1. /\ Goto(r, "waiting", "queued") /\ "queued" \in Places
      /\ concurrency' = Send(concurrency, r, Slots)
  BY PlaceFacts DEF TakeSlot
<1>2. /\ pc[r] = "waiting" /\ pc'[r] = "queued"
      /\ \A x \in Requests : x # r => pc'[x] = pc[x]
  BY <1>1, GotoFacts DEF IInv
<1>3. r \notin concurrency.holders /\ r \notin Queued(concurrency)
  BY <1>2, PlaceFacts DEF IInv, ChannelInv
<1>4. /\ Proper(concurrency, Requests, Slots)
      /\ IsFiniteSet(Requests) /\ Slots \in Nat
  BY DemoAssumption DEF IInv, ChannelInv
<1>5. /\ Proper(concurrency', Requests, Slots)
      /\ \/ /\ concurrency'.holders = concurrency.holders \union {r}
            /\ Queued(concurrency') = Queued(concurrency)
         \/ /\ concurrency'.holders = concurrency.holders
            /\ Queued(concurrency') = Queued(concurrency) \union {r}
  <2> DEFINE after == Send(concurrency, r, Slots)
  <2>1. /\ Proper(after, Requests, Slots)
        /\ \/ /\ after.holders = concurrency.holders \union {r}
              /\ Queued(after) = Queued(concurrency)
           \/ /\ after.holders = concurrency.holders
              /\ Queued(after) = Queued(concurrency) \union {r}
    BY <1>3, <1>4, SendFacts
  <2> HIDE DEF after
  <2>2. concurrency' = after
    BY <1>1 DEF after
  <2> QED
    BY <2>1, <2>2
<1>6. "queued" \notin InSlot
  BY DEF InSlot
<1> QED
  BY <1>2, <1>3, <1>5, <1>6 DEF IInv, ChannelInv

\* The receive takes a request away, and gives its slot to one that waits.
LEMMA FreeSlotChannel ==
    ASSUME IInv, NEW r \in Requests, FreeSlot(r)
    PROVE  ChannelInv'
<1>1. /\ Goto(r, "leaving", "freed") /\ "freed" \in Places
      /\ concurrency' = Receive(concurrency, r)
  BY PlaceFacts DEF FreeSlot
<1>2. /\ pc[r] = "leaving" /\ pc'[r] = "freed"
      /\ \A x \in Requests : x # r => pc'[x] = pc[x]
  BY <1>1, GotoFacts DEF IInv
<1>3. r \in concurrency.holders
  BY <1>2, PlaceFacts DEF IInv, ChannelInv
<1>4. /\ Proper(concurrency, Requests, Slots)
      /\ IsFiniteSet(Requests) /\ Slots \in Nat
      /\ Queued(concurrency) \intersect concurrency.holders = {}
  BY DemoAssumption DEF IInv, ChannelInv, Proper
<1>5. /\ Proper(concurrency', Requests, Slots)
      /\ r \notin concurrency'.holders
      /\ concurrency.holders \ {r} \subseteq concurrency'.holders
      /\ Queued(concurrency') \subseteq Queued(concurrency)
      /\ concurrency'.holders \union Queued(concurrency')
            = (concurrency.holders \ {r}) \union Queued(concurrency)
  <2> DEFINE after == Receive(concurrency, r)
  <2>1. /\ Proper(after, Requests, Slots)
        /\ \/ /\ after.holders = concurrency.holders \ {r}
              /\ Queued(after) = Queued(concurrency)
           \/ \E next \in Queued(concurrency) :
                 /\ after.holders = (concurrency.holders \ {r}) \union {next}
                 /\ Queued(after) = Queued(concurrency) \ {next}
    BY <1>3, <1>4, ReceiveFacts
  <2> HIDE DEF after
  <2>2. concurrency' = after
    BY <1>1 DEF after
  <2> QED
    BY <1>3, <1>4, <2>1, <2>2
<1>6. "freed" \notin InSlot
  BY DEF InSlot
<1>7. ASSUME NEW x \in Requests
      PROVE  /\ x \in concurrency'.holders => pc'[x] \in {"queued"} \union InSlot
             /\ pc'[x] \in InSlot => x \in concurrency'.holders
             /\ x \in Queued(concurrency') => pc'[x] = "queued"
             /\ pc'[x] = "queued" => x \in concurrency'.holders \union Queued(concurrency')
  <2>1. CASE x # r
    BY <1>2, <1>5, <2>1 DEF IInv, ChannelInv
  <2>2. CASE x = r
    BY <1>2, <1>3, <1>4, <1>5, <1>6, <2>2
  <2> QED
    BY <2>1, <2>2
<1> QED
  BY <1>5, <1>7 DEF ChannelInv

\* Every step of a handler keeps the channel.
LEMMA HandlerChannel ==
    ASSUME IInv, NEW r \in Requests,
           \/ \E fail \in BOOLEAN : Arrive(r, fail)
           \/ Local(r) \/ CallInventory(r)
           \/ \E ok \in BOOLEAN : CallEnds(r, ok)
    PROVE  ChannelInv'
<1>1. CASE TakeSlot(r)
  BY <1>1, TakeSlotChannel
<1>2. CASE FreeSlot(r)
  BY <1>2, FreeSlotChannel
<1>3. CASE ~TakeSlot(r) /\ ~FreeSlot(r)
  <2>1. PICK from \in Places, to \in Places :
          /\ Goto(r, from, to) /\ UNCHANGED concurrency /\ to # "queued"
          /\ \/ from \in {"new", "freed"} /\ to \notin InSlot
             \/ from \in InSlot /\ to \in InSlot
             \/ from = "queued" /\ r \in concurrency.holders /\ to \in InSlot
    <3>1. CASE \E fail \in BOOLEAN : Arrive(r, fail)
      BY <3>1, PlaceFacts DEF Arrive
    <3>2. CASE BeginWork(r)
      BY <3>2, PlaceFacts DEF BeginWork
    <3>3. CASE EndWork(r)
      <4>1. Goto(r, "working", "leaving") \/ Goto(r, "working", "worked")
        BY <3>3 DEF EndWork
      <4> QED
        BY <3>3, <4>1, PlaceFacts DEF EndWork
    <3>4. CASE CallRefused(r)
      BY <3>4, PlaceFacts DEF CallRefused
    <3>5. CASE RecordRelease(r)
      BY <3>5, PlaceFacts DEF RecordRelease, Finish
    <3>6. CASE CallInventory(r)
      BY <3>6, PlaceFacts DEF CallInventory
    <3>7. CASE \E ok \in BOOLEAN : CallEnds(r, ok)
      BY <3>7, PlaceFacts DEF CallEnds
    <3> QED
      BY <1>3, <3>1, <3>2, <3>3, <3>4, <3>5, <3>6, <3>7 DEF Local
  <2>2. pc[r] = from
    BY <2>1 DEF Goto
  <2>3. /\ r \in concurrency.holders <=> to \in InSlot
        /\ from # "queued" \/ r \in concurrency.holders
    BY <2>1, <2>2, PlaceFacts DEF IInv, ChannelInv
  <2> QED
    BY <2>1, <2>3, GotoChannel DEF IInv
<1> QED
  BY <1>1, <1>2, <1>3

-----------------------------------------------------------------------------
\* The invariant.

\* A client that leaves, and time, disturb no gauge and no slot.
LEMMA EnvironmentInv ==
    ASSUME IInv, (\E r \in Requests : ClientLeaves(r)) \/ Tick
    PROVE  IInv'
<1>1. CASE Tick
  <2>1. Shape'
    BY <1>1 DEF Tick, IInv, Shape
  <2> QED
    BY <1>1, <2>1 DEF Tick, IInv, ChannelInv, GaugeInv, AbandonedIsError
<1>2. ASSUME NEW r \in Requests, ClientLeaves(r)
      PROVE  IInv'
  <2>1. Shape'
    BY <1>2 DEF ClientLeaves, IInv, Shape
  <2>2. ChannelInv' /\ GaugeInv'
    BY <1>2 DEF ClientLeaves, IInv, ChannelInv, GaugeInv
  <2>3. AbandonedIsError'
    <3>1. \A x \in leftEarly' : x \in leftEarly \/ pc[x] \in BeforeCall
      BY <1>2 DEF ClientLeaves
    <3> QED
      BY <1>2, <3>1, PlaceFacts DEF ClientLeaves, IInv, AbandonedIsError
  <2> QED
    BY <2>1, <2>2, <2>3 DEF IInv
<1> QED
  BY <1>1, <1>2

\* Nobody is there at first.
LEMMA InitInv == Init => IInv
<1> SUFFICES ASSUME Init PROVE IInv
  OBVIOUS
<1>1. Shape
  BY PlaceFacts DEF Init, Shape, NoTelemetry, TelemetryType
<1>2. ChannelInv
  <2>1. /\ Proper(concurrency, Requests, Slots)
        /\ concurrency.holders = {} /\ Queued(concurrency) = {}
    BY EmptyIsProper, DemoAssumption DEF Init
  <2> QED
    BY <2>1, PlaceFacts DEF Init, ChannelInv
<1>3. GaugeInv
  <2>1. \A r \in Requests : /\ pc[r] \notin BeforeSlot /\ pc[r] \notin Recorded
                            /\ pc[r] \notin {"working"} /\ pc[r] \notin InFlight
                            /\ pc[r] \notin {"done"}
    BY GaugePlaces DEF Init
  <2>2. /\ Counted(pc, Requests, BeforeSlot) = 0
        /\ Counted(pc, Requests, Recorded) = 0
        /\ Counted(pc, Requests, {"working"}) = 0
        /\ Counted(pc, Requests, InFlight) = 0
        /\ Counted(pc, Requests, {"done"}) = 0
    BY <2>1, NobodyThere
  <2> QED
    BY <2>2 DEF Init, NoTelemetry, GaugeInv
<1>4. AbandonedIsError
  BY DEF Init, AbandonedIsError
<1> QED
  BY <1>1, <1>2, <1>3, <1>4 DEF IInv

\* Every step preserves the invariant.
LEMMA NextInv == IInv /\ [Next]_vars => IInv'
<1> SUFFICES ASSUME IInv, [Next]_vars PROVE IInv'
  OBVIOUS
<1>1. CASE UNCHANGED vars
  BY <1>1 DEF vars, IInv, Shape, ChannelInv, GaugeInv, AbandonedIsError
<1>2. ASSUME NEW r \in Requests,
             \/ \E fail \in BOOLEAN : Arrive(r, fail)
             \/ Local(r) \/ CallInventory(r)
             \/ \E ok \in BOOLEAN : CallEnds(r, ok)
      PROVE  IInv'
  BY <1>2, HandlerShape, HandlerChannel, HandlerGauges, HandlerAbandoned DEF IInv
<1>3. CASE (\E r \in Requests : ClientLeaves(r)) \/ Tick
  BY <1>3, EnvironmentInv
<1> QED
  BY <1>1, <1>2, <1>3 DEF Next

\* The specification keeps it.
LEMMA SpecInv == Spec => []IInv
<1> QED
  BY InitInv, NextInv, PTL DEF Spec

-----------------------------------------------------------------------------
\* The theorems.

\* The state keeps its shape, and no gauge of demo-api is ever negative (telemetry).
THEOREM GaugesAreCounts == Spec => []TypeOK
<1>1. IInv => TypeOK
  <2> SUFFICES ASSUME IInv PROVE TypeOK
    OBVIOUS
  <2>1. /\ telemetry.waiters \in Nat /\ telemetry.slotsInUse \in Nat
        /\ telemetry.activeWork \in Nat /\ telemetry.active \in Nat
        /\ telemetry.requests \in Nat
    <3>1. \A places : Counted(pc, Requests, places) \in Nat
      BY CountType, DemoAssumption
    <3> QED
      BY <3>1 DEF IInv, GaugeInv
  <2>2. telemetry \in [active : Nat, waiters : Nat, slotsInUse : Nat, activeWork : Nat,
                       requests : Nat, errors : Nat, slotSeconds : Nat]
    BY <2>1 DEF IInv, Shape, TelemetryType
  <2>3. concurrency.holders \subseteq Requests /\ concurrency.queue \in Seq(Requests)
    BY DEF IInv, ChannelInv, Proper
  <2> QED
    BY <2>2, <2>3 DEF IInv, Shape, TypeOK
<1> QED
  BY <1>1, SpecInv, PTL

\* The gauges the controller scales by differ from the channel by the requests
\* between an operation on it and its record, and by nothing else (acquiredSlot,
\* releasedSlot, the deferred function of the handler).
THEOREM GaugesAgree == Spec => []GaugesSettle
<1>1. IInv => GaugesSettle
  <2> SUFFICES ASSUME IInv PROVE GaugesSettle
    OBVIOUS
  <2> DEFINE A == {r \in Requests : pc[r] \in InSlot}
             F == {r \in Requests : pc[r] \in {"freed"}}
             W == {r \in Requests : pc[r] \in {"waiting"}}
             K == {r \in Requests : pc[r] \in {"working"}}
             R == {r \in Requests : pc[r] \in Recorded}
             B == {r \in Requests : pc[r] \in BeforeSlot}
             Q == Queued(concurrency)
  <2>1. /\ IsFiniteSet(Requests) /\ Proper(concurrency, Requests, Slots)
        /\ Q \in SUBSET Requests /\ Q \intersect concurrency.holders = {}
        /\ Len(concurrency.queue) = Cardinality(Q)
        /\ concurrency.holders \in SUBSET Requests
    BY DemoAssumption DEF IInv, ChannelInv, Proper, Queued
  <2>2. /\ telemetry.slotsInUse = Cardinality(R) /\ telemetry.waiters = Cardinality(B)
        /\ telemetry.activeWork = Cardinality(K)
    BY DEF IInv, GaugeInv, Counted
  <2>3. /\ telemetry.active = Cardinality(At(Places \ {"new", "done"}))
        /\ telemetry.requests = Cardinality(At({"done"}))
    BY DEF IInv, GaugeInv, Counted, At, InFlight
  <2>4. F = At({"freed"}) /\ W = At({"waiting"})
    BY DEF At
  <2>5. /\ R = A \union F /\ A \intersect F = {} /\ K \in SUBSET R
        /\ A \in SUBSET Requests /\ F \in SUBSET Requests /\ W \in SUBSET Requests
        /\ R \in SUBSET Requests /\ Granted \in SUBSET Requests
    BY PlaceFacts, GaugePlaces DEF Granted, At
  <2>6. concurrency.holders = Granted \union A /\ Granted \intersect A = {}
    BY <2>1, PlaceFacts DEF Granted, At, IInv, ChannelInv
  <2>7. /\ B = W \union (Granted \union Q) /\ W \intersect (Granted \union Q) = {}
        /\ Granted \intersect Q = {} /\ Granted \union Q \in SUBSET Requests
    <3>1. At({"queued"}) = Granted \union Q
      BY <2>1 DEF Granted, At, IInv, ChannelInv
    <3>2. B = W \union At({"queued"}) /\ W \intersect At({"queued"}) = {}
      BY PlaceFacts DEF At
    <3> QED
      BY <2>1, <2>5, <3>1, <3>2 DEF Granted
  <2> HIDE DEF A, F, W, K, R, B, Q
  <2>8. /\ IsFiniteSet(A) /\ IsFiniteSet(F) /\ IsFiniteSet(W) /\ IsFiniteSet(R)
        /\ IsFiniteSet(Granted) /\ IsFiniteSet(Q) /\ IsFiniteSet(Granted \union Q)
    BY <2>1, <2>5, <2>7, FS_Subset
  <2>9. Cardinality(R) = Cardinality(A) + Cardinality(F)
    BY <2>5, <2>8, DisjointParts
  <2>10. Cardinality(concurrency.holders) = Cardinality(Granted) + Cardinality(A)
    BY <2>6, <2>8, DisjointParts
  <2>11. Cardinality(Granted \union Q) = Cardinality(Granted) + Cardinality(Q)
    BY <2>7, <2>8, DisjointParts
  <2>12. Cardinality(B) = Cardinality(W) + Cardinality(Granted \union Q)
    BY <2>7, <2>8, DisjointParts
  <2>13. Cardinality(K) <= Cardinality(R)
    BY <2>5, <2>8, FS_Subset
  <2>14. /\ Cardinality(A) \in Nat /\ Cardinality(F) \in Nat /\ Cardinality(W) \in Nat
         /\ Cardinality(Granted) \in Nat /\ Cardinality(Q) \in Nat
    BY <2>8, FS_CardinalityType
  <2>15. telemetry.slotsInUse + Cardinality(Granted)
           = Cardinality(concurrency.holders) + Cardinality(At({"freed"}))
    BY <2>2, <2>4, <2>9, <2>10, <2>14
  <2>16. telemetry.waiters
           = Len(concurrency.queue) + Cardinality(Granted) + Cardinality(At({"waiting"}))
    BY <2>1, <2>2, <2>4, <2>11, <2>12, <2>14
  <2> QED
    BY <2>2, <2>3, <2>13, <2>15, <2>16 DEF GaugesSettle
<1> QED
  BY <1>1, SpecInv, PTL

-----------------------------------------------------------------------------
\* Slot time.

\* The ticks below a number for every request.
Ticks(f) == {tick \in Requests \X Nat : tick[2] < f[tick[1]]}

Times == [r \in Requests |-> SlotTime(r)]

\* Finitely many ticks lie below bounded numbers.
LEMMA TicksFinite ==
    ASSUME NEW f \in [Requests -> Nat], NEW m \in Nat, \A r \in Requests : f[r] <= m
    PROVE  /\ Ticks(f) = {tick \in Requests \X (0..m) : tick[2] < f[tick[1]]}
           /\ IsFiniteSet(Ticks(f)) /\ Cardinality(Ticks(f)) \in Nat
<1>1. ASSUME NEW tick \in Requests \X Nat, tick[2] < f[tick[1]]
      PROVE  tick \in Requests \X (0..m)
  <2>1. PICK r \in Requests, t \in Nat : tick = <<r, t>>
    OBVIOUS
  <2>2. t < f[r] /\ f[r] <= m /\ f[r] \in Nat
    BY <1>1, <2>1
  <2>3. t \in 0..m
    BY <2>2
  <2> QED
    BY <2>1, <2>3
<1>2. Requests \X (0..m) \subseteq Requests \X Nat
  OBVIOUS
<1>3. Ticks(f) = {tick \in Requests \X (0..m) : tick[2] < f[tick[1]]}
  BY <1>1, <1>2, Zenon DEF Ticks
<1>4. IsFiniteSet(Requests \X (0..m))
  <2>1. IsFiniteSet(0..m)
    BY FS_Interval
  <2>2. IsFiniteSet(Requests)
    BY DemoAssumption
  <2> QED
    BY <2>1, <2>2, FS_Product
<1>5. Ticks(f) \in SUBSET (Requests \X (0..m))
  BY <1>3
<1> QED
  BY <1>3, <1>4, <1>5, FS_Subset, FS_CardinalityType

\* Numbers that grow by one for some requests have at most one tick more for each.
LEMMA TicksGrow ==
    ASSUME NEW f \in [Requests -> Nat], NEW g \in [Requests -> Nat],
           NEW m \in Nat, \A r \in Requests : f[r] <= m,
           NEW B, B \subseteq Requests,
           \A r \in Requests : g[r] = IF r \in B THEN f[r] + 1 ELSE f[r]
    PROVE  Cardinality(Ticks(g)) <= Cardinality(Ticks(f)) + Cardinality(B)
<1> DEFINE D == {<<r, f[r]>> : r \in B}
           new == [r \in B |-> <<r, f[r]>>]
<1>1. IsFiniteSet(B) /\ Cardinality(B) \in Nat
  <2>1. B \in SUBSET Requests
    OBVIOUS
  <2> QED
    BY <2>1, DemoAssumption, FS_Subset, FS_CardinalityType
<1>2. IsFiniteSet(D) /\ Cardinality(D) <= Cardinality(B)
  <2>1. new \in Surjection(B, D)
    BY DEF Surjection
  <2> HIDE DEF new, D
  <2> QED
    BY <1>1, <2>1, FS_Surjection
<1>3. Cardinality(D) \in Nat
  BY <1>2, FS_CardinalityType
<1>4. IsFiniteSet(Ticks(f)) /\ Cardinality(Ticks(f)) \in Nat
  BY TicksFinite
<1>5. Ticks(g) \subseteq Ticks(f) \union D
  <2> SUFFICES ASSUME NEW tick \in Ticks(g) PROVE tick \in Ticks(f) \union D
    OBVIOUS
  <2>1. PICK r \in Requests, t \in Nat : tick = <<r, t>> /\ t < g[r]
    BY DEF Ticks
  <2>2. f[r] \in Nat /\ g[r] = IF r \in B THEN f[r] + 1 ELSE f[r]
    OBVIOUS
  <2>3. CASE t < f[r]
    BY <2>1, <2>3 DEF Ticks
  <2>4. CASE ~(t < f[r])
    <3>1. r \in B /\ t = f[r]
      BY <2>1, <2>2, <2>4
    <3> QED
      BY <2>1, <3>1
  <2> QED
    BY <2>3, <2>4
<1> HIDE DEF D
<1>6. /\ IsFiniteSet(Ticks(f) \union D)
      /\ Cardinality(Ticks(f) \union D)
           = Cardinality(Ticks(f)) + Cardinality(D) - Cardinality(Ticks(f) \intersect D)
  BY <1>2, <1>4, FS_Union
<1>7. Cardinality(Ticks(f) \intersect D) \in Nat
  <2>1. Ticks(f) \intersect D \in SUBSET D
    OBVIOUS
  <2> QED
    BY <1>2, <2>1, FS_Subset, FS_CardinalityType
<1>8. /\ Cardinality(Ticks(g)) <= Cardinality(Ticks(f) \union D)
      /\ Cardinality(Ticks(g)) \in Nat
  <2>1. Ticks(g) \in SUBSET (Ticks(f) \union D)
    BY <1>5
  <2> QED
    BY <1>6, <2>1, FS_Subset, FS_CardinalityType
<1> QED
  BY <1>1, <1>2, <1>3, <1>4, <1>6, <1>7, <1>8

\* A number that becomes zero takes its ticks along.
LEMMA TicksDrop ==
    ASSUME NEW f \in [Requests -> Nat], NEW g \in [Requests -> Nat],
           NEW m \in Nat, \A x \in Requests : f[x] <= m,
           NEW r \in Requests, g[r] = 0, \A x \in Requests : x # r => g[x] = f[x]
    PROVE  f[r] + Cardinality(Ticks(g)) <= Cardinality(Ticks(f))
<1> DEFINE D == {tick \in Ticks(f) : tick[1] = r}
           number == [tick \in D |-> tick[2] + 1]
<1>1. IsFiniteSet(Ticks(f)) /\ Cardinality(Ticks(f)) \in Nat
  BY TicksFinite
<1>2. f[r] \in Nat /\ \A x \in Requests : f[x] \in Nat /\ g[x] \in Nat
  OBVIOUS
<1>3. IsFiniteSet(D)
  <2>1. D \in SUBSET Ticks(f)
    OBVIOUS
  <2> QED
    BY <1>1, <2>1, FS_Subset
<1>4. f[r] <= Cardinality(D)
  <2>1. ASSUME NEW tick \in D PROVE number[tick] \in 1..f[r]
    <3>1. PICK t \in Nat : tick = <<r, t>> /\ t < f[r]
      BY DEF Ticks
    <3>2. number[tick] = t + 1
      BY <3>1
    <3> QED
      BY <1>2, <3>1, <3>2
  <2>2. ASSUME NEW k \in 1..f[r] PROVE \E tick \in D : number[tick] = k
    <3>1. k - 1 \in Nat /\ k - 1 < f[r] /\ (k - 1) + 1 = k
      BY <1>2
    <3>2. <<r, k - 1>> \in D
      BY <3>1 DEF Ticks
    <3>3. number[<<r, k - 1>>] = k
      BY <3>1, <3>2
    <3> QED
      BY <3>2, <3>3
  <2>3. number \in [D -> 1..f[r]]
    BY <2>1
  <2> HIDE DEF number, D
  <2>4. number \in Surjection(D, 1..f[r])
    BY <2>2, <2>3 DEF Surjection
  <2>5. Cardinality(1..f[r]) <= Cardinality(D)
    BY <1>3, <2>4, FS_Surjection
  <2>6. Cardinality(1..f[r]) = f[r]
    BY <1>2, FS_Interval
  <2> QED
    BY <2>5, <2>6
<1>5. Ticks(f) = Ticks(g) \union D /\ Ticks(g) \intersect D = {}
  <2>1. \A tick \in Requests \X Nat : tick \in Ticks(f) <=> tick \in Ticks(g) \/ tick \in D
    <3> TAKE tick \in Requests \X Nat
    <3>1. PICK x \in Requests, t \in Nat : tick = <<x, t>>
      OBVIOUS
    <3>2. CASE x = r
      BY <1>2, <3>1, <3>2 DEF Ticks
    <3>3. CASE x # r
      BY <1>2, <3>1, <3>3 DEF Ticks
    <3> QED
      BY <3>2, <3>3
  <2>2. \A tick \in Ticks(g) : tick \notin D
    <3> TAKE tick \in Ticks(g)
    <3>1. PICK x \in Requests, t \in Nat : tick = <<x, t>> /\ t < g[x]
      BY DEF Ticks
    <3> QED
      BY <3>1
  <2>3. Ticks(f) \subseteq Requests \X Nat /\ Ticks(g) \subseteq Requests \X Nat
    BY DEF Ticks
  <2>4. D \subseteq Requests \X Nat
    BY <2>3
  <2> HIDE DEF D
  <2> QED
    BY <2>1, <2>2, <2>3, <2>4
<1> HIDE DEF D
<1>6. IsFiniteSet(Ticks(g))
  <2>1. Ticks(g) \in SUBSET Ticks(f)
    BY <1>5
  <2> QED
    BY <1>1, <2>1, FS_Subset
<1>7. /\ Cardinality(Ticks(f)) = Cardinality(Ticks(g)) + Cardinality(D)
      /\ Cardinality(Ticks(g)) \in Nat /\ Cardinality(D) \in Nat
  BY <1>3, <1>5, <1>6, DisjointParts
<1> QED
  BY <1>2, <1>4, <1>7

\* No request has held a slot for longer than there has been time.
SlotInv ==
    /\ \A r \in Requests : held[r] <= clock
    /\ telemetry.slotSeconds + Cardinality(Ticks(Times)) <= Slots * clock

\* The slot times are numbers no larger than the time, and their ticks finitely many.
LEMMA TimesFacts ==
    ASSUME IInv, \A r \in Requests : held[r] <= clock
    PROVE  /\ Times \in [Requests -> Nat]
           /\ \A r \in Requests : Times[r] = SlotTime(r) /\ Times[r] <= clock
           /\ IsFiniteSet(Ticks(Times)) /\ Cardinality(Ticks(Times)) \in Nat
           /\ Ticks(Times) = Unrecorded
<1>1. ASSUME NEW r \in Requests PROVE SlotTime(r) \in Nat /\ SlotTime(r) <= clock
  <2>1. /\ clock \in Nat /\ held[r] \in Nat /\ held[r] <= clock
        /\ slotStarted[r] \in Nat /\ slotStarted[r] <= clock
    BY DEF IInv, Shape
  <2> QED
    BY <2>1 DEF SlotTime
<1>2. /\ Times \in [Requests -> Nat]
      /\ \A r \in Requests : Times[r] = SlotTime(r) /\ Times[r] <= clock
  BY <1>1 DEF Times
<1>3. clock \in Nat
  BY DEF IInv, Shape
<1>4. /\ Ticks(Times) = {tick \in Requests \X (0..clock) : tick[2] < Times[tick[1]]}
      /\ IsFiniteSet(Ticks(Times)) /\ Cardinality(Ticks(Times)) \in Nat
  BY <1>2, <1>3, TicksFinite
<1>5. \A tick \in Requests \X (0..clock) : Times[tick[1]] = SlotTime(tick[1])
  BY <1>2
<1> QED
  BY <1>2, <1>4, <1>5 DEF Unrecorded

\* A step that adds to no slot time and records none.
LEMMA SameTimes ==
    ASSUME IInv, SlotInv, clock' = clock, telemetry'.slotSeconds = telemetry.slotSeconds,
           \A r \in Requests : SlotTime(r)' = SlotTime(r) /\ held'[r] <= clock
    PROVE  SlotInv'
<1>1. Times' = Times
  BY DEF Times
<1>2. Ticks(Times)' = Ticks(Times)
  BY <1>1 DEF Ticks
<1> QED
  BY <1>2 DEF SlotInv

\* A step of a handler other than its last keeps the slot times.
LEMMA HandlerTimes ==
    ASSUME IInv, SlotInv, NEW r \in Requests,
           \/ \E fail \in BOOLEAN : Arrive(r, fail)
           \/ TakeSlot(r) \/ BeginWork(r) \/ EndWork(r) \/ CallRefused(r) \/ FreeSlot(r)
           \/ CallInventory(r)
           \/ \E ok \in BOOLEAN : CallEnds(r, ok)
    PROVE  SlotInv'
<1>1. /\ clock \in Nat /\ pc \in [Requests -> Places] /\ telemetry \in TelemetryType
      /\ slotStarted \in [Requests -> Nat] /\ held \in [Requests -> Nat]
      /\ \A x \in Requests : slotStarted[x] <= clock /\ held[x] <= clock
  BY DEF IInv, Shape, SlotInv
<1>2. clock' = clock
  BY DEF Arrive, TakeSlot, BeginWork, EndWork, CallRefused, FreeSlot, CallInventory, CallEnds
<1>3. telemetry'.slotSeconds = telemetry.slotSeconds
  <2>1. CASE UNCHANGED telemetry
    BY <2>1
  <2>2. CASE \E fail \in BOOLEAN : Arrive(r, fail)
    BY <1>1, <2>2 DEF Arrive, TelemetryType
  <2>3. CASE BeginWork(r)
    BY <1>1, <2>3 DEF BeginWork, TelemetryType
  <2>4. CASE EndWork(r)
    BY <1>1, <2>4 DEF EndWork, TelemetryType
  <2> QED
    BY <2>1, <2>2, <2>3, <2>4 DEF TakeSlot, CallRefused, FreeSlot, CallInventory, CallEnds
<1>4. ASSUME NEW x \in Requests, x # r
      PROVE  SlotTime(x)' = SlotTime(x) /\ held'[x] <= clock
  <2>1. pc'[x] = pc[x]
    BY <1>1, <1>4 DEF Arrive, TakeSlot, BeginWork, EndWork, CallRefused, FreeSlot,
                      CallInventory, CallEnds, Goto
  <2>2. slotStarted'[x] = slotStarted[x] /\ held'[x] = held[x]
    BY <1>1, <1>4 DEF Arrive, TakeSlot, BeginWork, EndWork, CallRefused, FreeSlot,
                      CallInventory, CallEnds
  <2> QED
    BY <1>1, <1>2, <2>1, <2>2 DEF SlotTime
<1>5. SlotTime(r)' = SlotTime(r) /\ held'[r] <= clock
  <2>1. CASE \/ (\E fail \in BOOLEAN : Arrive(r, fail)) \/ TakeSlot(r)
             \/ CallRefused(r) \/ CallInventory(r) \/ (\E ok \in BOOLEAN : CallEnds(r, ok))
    <3>1. /\ slotStarted' = slotStarted /\ held' = held
          /\ \/ pc[r] \in InSlot /\ pc'[r] \in InSlot
             \/ pc[r] \notin InSlot \union {"freed"} /\ pc'[r] \notin InSlot \union {"freed"}
      BY <1>1, <2>1, PlaceFacts DEF Arrive, TakeSlot, CallRefused, CallInventory, CallEnds, Goto
    <3> QED
      BY <1>1, <1>2, <3>1 DEF SlotTime
  <2>2. CASE EndWork(r)
    <3>1. /\ slotStarted' = slotStarted /\ held' = held
          /\ pc[r] \in InSlot /\ pc'[r] \in InSlot
      BY <1>1, <2>2, PlaceFacts DEF EndWork, Goto
    <3> QED
      BY <1>1, <1>2, <3>1 DEF SlotTime
  <2>3. CASE BeginWork(r)
    <3>1. /\ slotStarted'[r] = clock /\ held' = held
          /\ pc[r] \notin InSlot \union {"freed"} /\ pc'[r] \in InSlot
      BY <1>1, <2>3, PlaceFacts DEF BeginWork, Goto
    <3> QED
      BY <1>1, <1>2, <3>1 DEF SlotTime
  <2>4. CASE FreeSlot(r)
    <3>1. /\ held'[r] = clock - slotStarted[r]
          /\ pc[r] \in InSlot /\ pc'[r] = "freed" /\ "freed" \notin InSlot
      BY <1>1, <2>4, PlaceFacts DEF FreeSlot, Goto
    <3> QED
      BY <1>1, <1>2, <3>1 DEF SlotTime
  <2> QED
    BY <2>1, <2>2, <2>3, <2>4
<1> QED
  BY <1>2, <1>3, <1>4, <1>5, SameTimes

\* The last step of a handler records what it had not recorded.
LEMMA RecordTimes ==
    ASSUME IInv, SlotInv, NEW r \in Requests, RecordRelease(r)
    PROVE  SlotInv'
<1>1. /\ clock \in Nat /\ pc \in [Requests -> Places] /\ telemetry \in TelemetryType
      /\ slotStarted \in [Requests -> Nat] /\ held \in [Requests -> Nat]
      /\ \A x \in Requests : slotStarted[x] <= clock /\ held[x] <= clock
  BY DEF IInv, Shape, SlotInv
<1>2. clock' = clock /\ \A x \in Requests : held'[x] <= clock
  BY <1>1 DEF RecordRelease, Finish
<1>3. telemetry'.slotSeconds = telemetry.slotSeconds + held[r]
  <2> DEFINE inUse    == telemetry.slotsInUse - 1
             seconds  == telemetry.slotSeconds + held[r]
             requests == telemetry.requests + 1
             errors   == IF failed[r] THEN telemetry.errors + 1 ELSE telemetry.errors
             active   == telemetry.active - 1
  <2>1. telemetry' = [telemetry EXCEPT !.slotsInUse = inUse, !.slotSeconds = seconds,
                                       !.requests = requests, !.errors = errors,
                                       !.active = active]
    BY DEF RecordRelease, Finish
  <2> HIDE DEF inUse, seconds, requests, errors, active
  <2>2. telemetry'.slotSeconds = seconds
    BY <1>1, <2>1 DEF TelemetryType
  <2> QED
    BY <2>2 DEF seconds
<1>4. Times[r] = held[r] /\ Times'[r] = 0
  <2>1. pc[r] = "freed" /\ pc'[r] = "done"
    BY <1>1 DEF RecordRelease, Finish, Goto
  <2> QED
    BY <2>1, PlaceFacts DEF Times, SlotTime
<1>5. \A x \in Requests : x # r => Times'[x] = Times[x]
  <2> SUFFICES ASSUME NEW x \in Requests, x # r PROVE SlotTime(x)' = SlotTime(x)
    BY DEF Times
  <2>1. pc'[x] = pc[x] /\ slotStarted'[x] = slotStarted[x] /\ held'[x] = held[x]
    BY <1>1 DEF RecordRelease, Finish, Goto
  <2> QED
    BY <1>2, <2>1 DEF SlotTime
<1>6. /\ Times \in [Requests -> Nat] /\ Times' \in [Requests -> Nat]
      /\ \A x \in Requests : Times[x] <= clock
      /\ Cardinality(Ticks(Times)) \in Nat
  <2>1. /\ Times \in [Requests -> Nat] /\ \A x \in Requests : Times[x] <= clock
        /\ Cardinality(Ticks(Times)) \in Nat
    BY <1>1, TimesFacts
  <2>2. \A x \in Requests : Times'[x] \in Nat
    BY <1>4, <1>5, <2>1
  <2>3. Times' \in [Requests -> Nat]
    BY <2>2 DEF Times
  <2> QED
    BY <2>1, <2>3
<1>7. Times[r] + Cardinality(Ticks(Times')) <= Cardinality(Ticks(Times))
  <2> DEFINE f == Times
             g == Times'
  <2> HIDE DEF f, g
  <2> SUFFICES f[r] + Cardinality(Ticks(g)) <= Cardinality(Ticks(f))
    BY DEF f, g
  <2>1. /\ f \in [Requests -> Nat] /\ g \in [Requests -> Nat]
        /\ \A x \in Requests : f[x] <= clock
        /\ g[r] = 0 /\ \A x \in Requests : x # r => g[x] = f[x]
    BY <1>4, <1>5, <1>6 DEF f, g
  <2> QED
    BY <1>1, <2>1, TicksDrop
<1>8. Ticks(Times') = Ticks(Times)'
  BY DEF Ticks
<1>9. Cardinality(Ticks(Times')) \in Nat
  <2>1. \A x \in Requests : Times'[x] <= clock
    BY <1>1, <1>4, <1>5, <1>6
  <2> QED
    BY <1>1, <1>6, <2>1, TicksFinite
<1>10. /\ telemetry.slotSeconds \in Nat /\ held[r] \in Nat /\ Slots * clock \in Nat
       /\ telemetry.slotSeconds + Cardinality(Ticks(Times)) <= Slots * clock
  BY <1>1, DemoAssumption DEF TelemetryType, SlotInv
<1>11. telemetry'.slotSeconds + Cardinality(Ticks(Times)') <= Slots * clock
  BY <1>3, <1>4, <1>6, <1>7, <1>8, <1>9, <1>10
<1> QED
  BY <1>2, <1>11 DEF SlotInv

\* Time passes for those who hold a slot, and they are no more than the slots.
LEMMA TickTimes ==
    ASSUME IInv, SlotInv, Tick
    PROVE  SlotInv'
<1> DEFINE B == {r \in Requests : pc[r] \in InSlot}
<1>1. /\ clock \in Nat /\ clock' = clock + 1 /\ telemetry' = telemetry
      /\ pc' = pc /\ slotStarted' = slotStarted /\ held' = held
      /\ held \in [Requests -> Nat] /\ slotStarted \in [Requests -> Nat]
      /\ telemetry.slotSeconds \in Nat
      /\ \A x \in Requests : slotStarted[x] <= clock /\ held[x] <= clock
  BY DEF Tick, IInv, Shape, SlotInv, TelemetryType
<1>2. Cardinality(B) \in Nat /\ Cardinality(B) <= Slots
  <2>1. /\ B \in SUBSET concurrency.holders
        /\ concurrency.holders \in SUBSET Requests
        /\ Cardinality(concurrency.holders) <= Slots
    BY DEF IInv, ChannelInv, Proper
  <2> HIDE DEF B
  <2>2. IsFiniteSet(concurrency.holders) /\ IsFiniteSet(B)
    BY <2>1, DemoAssumption, FS_Subset
  <2>3. /\ Cardinality(B) <= Cardinality(concurrency.holders)
        /\ Cardinality(B) \in Nat /\ Cardinality(concurrency.holders) \in Nat
    BY <2>1, <2>2, FS_Subset, FS_CardinalityType
  <2> QED
    BY <2>1, <2>3, DemoAssumption
<1>3. \A r \in Requests : Times'[r] = IF r \in B THEN Times[r] + 1 ELSE Times[r]
  <2> SUFFICES ASSUME NEW r \in Requests
               PROVE  SlotTime(r)' = IF r \in B THEN SlotTime(r) + 1 ELSE SlotTime(r)
    BY DEF Times
  <2> QED
    BY <1>1 DEF SlotTime
<1>4. /\ Times \in [Requests -> Nat] /\ \A r \in Requests : Times[r] <= clock
      /\ Cardinality(Ticks(Times)) \in Nat
  BY <1>1, TimesFacts
<1>5. /\ Times' \in [Requests -> Nat]
      /\ Cardinality(Ticks(Times)') \in Nat
      /\ \A x \in Requests : held'[x] <= clock'
  <2>1. \A r \in Requests : Times[r] \in Nat /\ Times[r] <= clock
    BY <1>4
  <2>2. \A r \in Requests : Times'[r] \in Nat /\ Times'[r] <= clock + 1
    BY <1>1, <1>3, <2>1
  <2>3. Times' \in [Requests -> Nat]
    BY <2>2 DEF Times
  <2>4. Cardinality(Ticks(Times')) \in Nat
    BY <1>1, <2>2, <2>3, TicksFinite
  <2>5. Ticks(Times') = Ticks(Times)'
    BY DEF Ticks
  <2> QED
    BY <1>1, <2>3, <2>4, <2>5
<1>6. Cardinality(Ticks(Times')) <= Cardinality(Ticks(Times)) + Cardinality(B)
  <2> DEFINE f == Times
             g == Times'
  <2> HIDE DEF f, g
  <2> SUFFICES Cardinality(Ticks(g)) <= Cardinality(Ticks(f)) + Cardinality(B)
    BY DEF f, g
  <2>1. /\ f \in [Requests -> Nat] /\ g \in [Requests -> Nat]
        /\ \A x \in Requests : f[x] <= clock
        /\ \A r \in Requests : g[r] = IF r \in B THEN f[r] + 1 ELSE f[r]
    BY <1>3, <1>4, <1>5 DEF f, g
  <2>2. B \subseteq Requests
    OBVIOUS
  <2> HIDE DEF B
  <2> QED
    BY <1>1, <2>1, <2>2, TicksGrow
<1>7. Ticks(Times') = Ticks(Times)'
  BY DEF Ticks
<1>8. Slots * clock' = Slots * clock + Slots /\ Slots * clock \in Nat /\ Slots \in Nat
  BY <1>1, DemoAssumption
<1> HIDE DEF B
<1> QED
  BY <1>1, <1>2, <1>4, <1>5, <1>6, <1>7, <1>8 DEF SlotInv

\* The seconds of slot time demo-api counts never exceed its slots times the time
\* (releasedSlot, http_concurrency_slot_seconds_total).
THEOREM SlotTimeIsLimited == Spec => []SlotTimeWithinLimit
<1>1. Init /\ IInv => SlotInv
  <2> SUFFICES ASSUME Init, IInv PROVE SlotInv
    OBVIOUS
  <2>1. \A r \in Requests : SlotTime(r) = 0 /\ held[r] = 0
    BY PlaceFacts DEF Init, SlotTime
  <2>2. Ticks(Times) = {}
    BY <2>1 DEF Ticks, Times
  <2>3. Cardinality(Ticks(Times)) = 0
    BY <2>2, FS_EmptySet
  <2> QED
    BY <2>1, <2>3, DemoAssumption DEF Init, NoTelemetry, SlotInv
<1>2. IInv /\ SlotInv /\ [Next]_vars => SlotInv'
  <2> SUFFICES ASSUME IInv, SlotInv, [Next]_vars PROVE SlotInv'
    OBVIOUS
  <2>1. CASE UNCHANGED vars
    BY <2>1 DEF vars, SlotInv, Ticks, Times, SlotTime
  <2>2. CASE \E r \in Requests : ClientLeaves(r)
    <3>1. UNCHANGED <<clock, pc, slotStarted, held, telemetry>>
      BY <2>2 DEF ClientLeaves
    <3> QED
      BY <3>1 DEF SlotInv, Ticks, Times, SlotTime
  <2>3. CASE Tick
    BY <2>3, TickTimes
  <2>4. ASSUME NEW r \in Requests,
               \/ \E fail \in BOOLEAN : Arrive(r, fail)
               \/ Local(r) \/ CallInventory(r)
               \/ \E ok \in BOOLEAN : CallEnds(r, ok)
        PROVE  SlotInv'
    BY <2>4, HandlerTimes, RecordTimes DEF Local
  <2> QED
    BY <2>1, <2>2, <2>3, <2>4 DEF Next
<1>3. IInv /\ SlotInv => SlotTimeWithinLimit
  BY TimesFacts DEF SlotInv, SlotTimeWithinLimit
<1> QED
  BY <1>1, <1>2, <1>3, InitInv, SpecInv, PTL DEF Spec

\* A request abandoned before its call makes none, and is counted as an error
\* (NewRequestWithContext with the context of the request).
THEOREM AbandonedCounted == Spec => []AbandonedIsError
<1>1. IInv => AbandonedIsError
  BY DEF IInv
<1> QED
  BY <1>1, SpecInv, PTL

-----------------------------------------------------------------------------
\* The deployed workload: the steps, by what they do to the call and to its request.

\* A step of the service takes a request that is not done, and no other, to its
\* next place.
LEMMA ServiceMoves ==
    ASSUME NEW r \in Requests,
           I!Receives(r) \/ I!Handler(r) \/ I!DatabaseAnswers(r)
    PROVE  \E to \in I!Steps, outcome \in BOOLEAN :
              /\ step[r] # "done"
              /\ step' = [step EXCEPT ![r] = to]
              /\ erred' = erred \/ erred' = [erred EXCEPT ![r] = outcome]
<1>1. {"begun", "queued", "working", "ready", "querying", "leaving", "freed", "done"}
         \subseteq I!Steps
  BY DEF I!Steps, I!BeforeQuery, I!AfterQuery
<1>2. ASSUME I!Receives(r) \/ I!TakeWorker(r) \/ I!BeginWork(r) \/ I!SelectTimer(r)
               \/ I!BeginQuery(r) \/ I!FreeWorker(r) \/ I!Observe(r)
      PROVE  /\ step[r] # "done" /\ erred' = erred
             /\ \E to \in I!Steps : step' = [step EXCEPT ![r] = to]
  BY <1>1, <1>2 DEF I!Receives, I!TakeWorker, I!BeginWork, I!SelectTimer, I!BeginQuery,
                    I!FreeWorker, I!Observe, I!Goto
<1>3. ASSUME I!SelectCanceled(r)
      PROVE  /\ step[r] # "done" /\ erred' = [erred EXCEPT ![r] = TRUE]
             /\ step' = [step EXCEPT ![r] = "leaving"]
  BY <1>3 DEF I!SelectCanceled, I!Goto
<1>4. ASSUME NEW dbFailed \in BOOLEAN, NEW encodeFailed \in BOOLEAN,
             I!EndQuery(r, dbFailed, encodeFailed)
      PROVE  /\ step[r] # "done" /\ erred' = [erred EXCEPT ![r] = dbFailed \/ encodeFailed]
             /\ step' = [step EXCEPT ![r] = "leaving"]
             /\ (dbFailed \/ encodeFailed) \in BOOLEAN
  BY <1>4 DEF I!EndQuery, I!Goto
<1>5. CASE I!QueryTimesOut(r) \/ I!DatabaseAnswers(r)
  <2>1. \E dbFailed, encodeFailed \in BOOLEAN : I!EndQuery(r, dbFailed, encodeFailed)
    BY <1>5 DEF I!QueryTimesOut, I!DatabaseAnswers
  <2> QED
    BY <1>1, <1>4, <2>1
<1> QED
  BY <1>1, <1>2, <1>3, <1>5 DEF I!Handler

\* What the composition does to demo-api, demo-api could do alone.
LEMMA DemoSteps == [WorkloadNext]_allVars => [Next]_vars
<1> SUFFICES ASSUME [WorkloadNext]_allVars PROVE [Next]_vars
  OBVIOUS
<1>1. CASE UNCHANGED allVars
  BY <1>1 DEF allVars
<1>2. CASE Environment
  BY <1>2 DEF Environment, Lost, Disconnect, Next
<1>3. ASSUME NEW r \in Requests,
             DemoStep(r) \/ Calls(r) \/ CallReturns(r) \/ CallAbandoned(r)
      PROVE  Next
  <2>1. CASE DemoStep(r)
    BY <2>1 DEF DemoStep, Next
  <2>2. CASE Calls(r)
    BY <2>2 DEF Calls, Next
  <2>3. CASE CallReturns(r)
    <3>1. (~erred[r]) \in BOOLEAN
      OBVIOUS
    <3> QED
      BY <2>3, <3>1 DEF CallReturns, Next
  <2>4. CASE CallAbandoned(r)
    BY <2>4 DEF CallAbandoned, Next
  <2> QED
    BY <1>3, <2>1, <2>2, <2>3, <2>4
<1>4. ASSUME NEW r \in Requests, Accepts(r) \/ InventoryStep(r)
      PROVE  UNCHANGED vars
  BY <1>4 DEF Accepts, InventoryStep
<1> QED
  BY <1>1, <1>2, <1>3, <1>4 DEF WorkloadNext

\* What the composition does to inventory-service, it could meet alone.
LEMMA ServiceSteps ==
    [WorkloadNext]_allVars
      => UNCHANGED inventory
         \/ \E r \in Requests :
               I!Receives(r) \/ I!Handler(r) \/ I!DatabaseAnswers(r) \/ I!Cancel(r)
<1> SUFFICES ASSUME [WorkloadNext]_allVars
             PROVE  UNCHANGED inventory
                    \/ \E r \in Requests :
                          I!Receives(r) \/ I!Handler(r) \/ I!DatabaseAnswers(r) \/ I!Cancel(r)
  OBVIOUS
<1>1. CASE UNCHANGED allVars
  BY <1>1 DEF allVars
<1>2. CASE Environment
  BY <1>2 DEF Environment, Lost, Disconnect
<1>3. ASSUME NEW r \in Requests,
             DemoStep(r) \/ Calls(r) \/ CallReturns(r) \/ CallAbandoned(r)
      PROVE  UNCHANGED inventory
  BY <1>3 DEF DemoStep, Calls, CallReturns, CallAbandoned
<1>4. ASSUME NEW r \in Requests, Accepts(r) \/ InventoryStep(r)
      PROVE  I!Receives(r) \/ I!Handler(r)
  BY <1>4 DEF Accepts, InventoryStep
<1> QED
  BY <1>1, <1>2, <1>3, <1>4 DEF WorkloadNext

-----------------------------------------------------------------------------
\* The workload implements its two services.

\* demo-api in the deployment behaves as DemoApp says, whatever inventory-service
\* and the network do: what is proved of its gauges holds there.
THEOREM DemoImplemented == WorkloadSpec => Spec
<1>1. WorkloadInit => Init
  BY DEF WorkloadInit
<1> QED
  BY <1>1, DemoSteps, PTL DEF WorkloadSpec, Spec

\* So what is proved of demo-api holds where its calls are lost, time out and are
\* answered by inventory-service: truthful gauges, a slot time within the limit and
\* no abandoned request that passes for a success.
THEOREM DemoHolds ==
    WorkloadSpec => [](TypeOK /\ GaugesSettle /\ SlotTimeWithinLimit /\ AbandonedIsError)
BY DemoImplemented, GaugesAreCounts, GaugesAgree, SlotTimeIsLimited, AbandonedCounted, PTL

\* inventory-service called by demo-api behaves as Inventory says, whatever becomes
\* of its caller: what is proved of its metrics holds there.
THEOREM ServiceImplemented == WorkloadSpec => I!Spec
<1>1. WorkloadInit => I!Init
  BY DEF WorkloadInit
<1>2. [WorkloadNext]_allVars => [I!Next]_I!vars
  BY ServiceSteps DEF inventory, I!vars, I!Next
<1> QED
  BY <1>1, <1>2, PTL DEF WorkloadSpec, I!Spec

-----------------------------------------------------------------------------
\* What is proved of the service alone holds of it in the workload.  I and IP are
\* two instances of the same definitions: these lemmas are their equality.

\* Both count alike.
LEMMA SameCount == \A S : I!Cardinality(S) = IP!Cardinality(S)
<1> QED
  BY Zenon DEF I!Cardinality, IP!Cardinality, I!IsFiniteSet, IP!IsFiniteSet

\* Both take the same steps.
LEMMA SameSteps ==
    ASSUME NEW r \in Requests,
           I!Receives(r) \/ I!Handler(r) \/ I!DatabaseAnswers(r) \/ I!Cancel(r)
    PROVE  IP!Receives(r) \/ IP!Handler(r) \/ IP!DatabaseAnswers(r) \/ IP!Cancel(r)
<1> USE DEF I!Goto, IP!Goto, I!Count, IP!Count
<1>1. I!Receives(r) => IP!Receives(r)
  BY Zenon DEF I!Receives, IP!Receives
<1>2. I!TakeWorker(r) => IP!TakeWorker(r)
  BY Zenon, SameCount DEF I!TakeWorker, IP!TakeWorker, I!Send, IP!Send
<1>3. I!FreeWorker(r) => IP!FreeWorker(r)
  BY Zenon DEF I!FreeWorker, IP!FreeWorker, I!Receive, IP!Receive
<1>4. I!BeginWork(r) => IP!BeginWork(r)
  BY Zenon DEF I!BeginWork, IP!BeginWork
<1>5. I!SelectCanceled(r) => IP!SelectCanceled(r)
  BY Zenon DEF I!SelectCanceled, IP!SelectCanceled
<1>6. I!SelectTimer(r) => IP!SelectTimer(r)
  BY Zenon DEF I!SelectTimer, IP!SelectTimer
<1>7. I!BeginQuery(r) => IP!BeginQuery(r)
  BY Zenon DEF I!BeginQuery, IP!BeginQuery
<1>8. \A dbFailed, encodeFailed : I!EndQuery(r, dbFailed, encodeFailed)
                                    => IP!EndQuery(r, dbFailed, encodeFailed)
  BY Zenon DEF I!EndQuery, IP!EndQuery
<1>9. I!QueryTimesOut(r) => IP!QueryTimesOut(r)
  BY Zenon, <1>8 DEF I!QueryTimesOut, IP!QueryTimesOut
<1>10. I!DatabaseAnswers(r) => IP!DatabaseAnswers(r)
  BY Zenon, <1>8 DEF I!DatabaseAnswers, IP!DatabaseAnswers
<1>11. I!Observe(r) => IP!Observe(r)
  BY Zenon DEF I!Observe, IP!Observe
<1>12. I!Cancel(r) => IP!Cancel(r)
  BY Zenon DEF I!Cancel, IP!Cancel, I!BeforeQuery, IP!BeforeQuery
<1>13. I!Handler(r) => IP!Handler(r)
  BY Zenon, <1>2, <1>3, <1>4, <1>5, <1>6, <1>7, <1>9, <1>11 DEF I!Handler, IP!Handler
<1> QED
  BY Zenon, <1>1, <1>10, <1>12, <1>13

\* The workload behaves as the service its theorems are about.
LEMMA ServiceBehaves == WorkloadSpec => IP!Spec /\ IP!FiniteService
<1>1. IP!FiniteService
  BY DemoAssumption, WorkloadAssumption, Zenon DEF IP!FiniteService, IsFiniteSet, IP!IsFiniteSet
<1>2. WorkloadInit => IP!Init
  BY Zenon DEF WorkloadInit, I!Init, IP!Init, I!NoMetrics, IP!NoMetrics, I!EmptyPool, IP!EmptyPool
<1>3. [WorkloadNext]_allVars => [IP!Next]_IP!vars
  <2> SUFFICES ASSUME [WorkloadNext]_allVars PROVE [IP!Next]_IP!vars
    OBVIOUS
  <2>1. CASE UNCHANGED inventory
    BY <2>1 DEF inventory, IP!vars
  <2>2. ASSUME NEW r \in Requests,
               I!Receives(r) \/ I!Handler(r) \/ I!DatabaseAnswers(r) \/ I!Cancel(r)
        PROVE  IP!Next
    BY <2>2, SameSteps DEF IP!Next
  <2> QED
    BY <2>1, <2>2, ServiceSteps
<1> QED
  BY <1>1, <1>2, <1>3, PTL DEF WorkloadSpec, IP!Spec

\* Work, queries and requests of inventory-service are counted where they are, in
\* the deployment as alone (beginWork, endWork, beginDB, observeDB, observe).
THEOREM LoadIsReal == WorkloadSpec => []NoPhantomLoad
<1>1. IP!NoPhantomLoad => NoPhantomLoad
  BY Zenon, SameCount DEF IP!NoPhantomLoad, NoPhantomLoad, I!NoPhantomLoad, I!At, IP!At, I!Steps,
         IP!Steps, I!BeforeQuery, IP!BeforeQuery, I!AfterQuery, IP!AfterQuery
<1> QED
  BY <1>1, ServiceBehaves, IP!LoadIsReal, PTL

\* A call that was abandoned before its query is counted as an error of
\* inventory-service (processRequest, inventoryItems, observeDB).
THEOREM CancellationCounted == WorkloadSpec => []CanceledIsError
<1>1. IP!CanceledIsError => CanceledIsError
  BY Zenon, SameCount DEF IP!CanceledIsError, CanceledIsError, I!CanceledIsError, I!At, IP!At,
         I!AfterQuery, IP!AfterQuery
<1> QED
  BY <1>1, ServiceBehaves, IP!CancellationCounted, PTL

-----------------------------------------------------------------------------
\* A success is one of both services.

\* The answer of the service, once it is there, is final.
SuccessInv ==
    /\ pc \in [Requests -> Places] /\ failed \in [Requests -> BOOLEAN]
    /\ step \in [Requests -> I!Steps] /\ erred \in [Requests -> BOOLEAN]
    /\ SuccessIsEndToEnd

\* A step of demo-api: alone, or the end of its call with an answer or without one.
DemoAlone(r) ==
    \/ Local(r) \/ CallInventory(r) \/ CallEnds(r, FALSE)
    \/ \E fail \in BOOLEAN : Arrive(r, fail)
    \/ step[r] = "done" /\ CallEnds(r, ~erred[r])

\* No step of demo-api makes a success of its own.
LEMMA DemoKeepsSuccess ==
    ASSUME SuccessInv, NEW r \in Requests, UNCHANGED inventory,
           DemoAlone(r)
    PROVE  SuccessInv'
<1>1. PICK to \in Places, outcome \in BOOLEAN :
        /\ pc' = [pc EXCEPT ![r] = to] /\ failed' = [failed EXCEPT ![r] = outcome]
        /\ to \in AfterSlot \union {"leaving"} /\ ~outcome => step[r] = "done" /\ ~erred[r]
  <2>1. CASE \E fail \in BOOLEAN : Arrive(r, fail)
    BY <2>1, PlaceFacts DEF Arrive, Goto
  <2>2. CASE TakeSlot(r) \/ BeginWork(r) \/ EndWork(r)
    BY <2>2, PlaceFacts DEF TakeSlot, BeginWork, EndWork, Goto, SuccessInv
  <2>3. CASE CallRefused(r) \/ CallEnds(r, FALSE)
    BY <2>3, PlaceFacts DEF CallRefused, CallEnds, Goto
  <2>4. CASE FreeSlot(r) \/ RecordRelease(r)
    BY <2>4, PlaceFacts DEF FreeSlot, RecordRelease, Finish, Goto, SuccessInv,
                            SuccessIsEndToEnd
  <2>5. CASE CallInventory(r)
    BY <2>5, PlaceFacts DEF CallInventory, Goto, SuccessInv
  <2>6. CASE step[r] = "done" /\ CallEnds(r, ~erred[r])
    BY <2>6, PlaceFacts DEF CallEnds, Goto, SuccessInv
  <2> QED
    BY <2>1, <2>2, <2>3, <2>4, <2>5, <2>6 DEF DemoAlone, Local
<1>2. /\ pc'[r] = to /\ failed'[r] = outcome
      /\ \A x \in Requests : x # r => pc'[x] = pc[x] /\ failed'[x] = failed[x]
      /\ pc' \in [Requests -> Places] /\ failed' \in [Requests -> BOOLEAN]
  BY <1>1 DEF SuccessInv
<1>3. step' = step /\ erred' = erred
  BY DEF inventory
<1> QED
  BY <1>1, <1>2, <1>3 DEF SuccessInv, SuccessIsEndToEnd

\* A step of inventory-service changes no answer it has given.
LEMMA ServiceKeepsSuccess ==
    ASSUME SuccessInv, NEW r \in Requests, pc' = pc, failed' = failed,
           I!Receives(r) \/ I!Handler(r) \/ I!DatabaseAnswers(r)
    PROVE  SuccessInv'
<1>1. PICK to \in I!Steps, outcome \in BOOLEAN :
        /\ step[r] # "done"
        /\ step' = [step EXCEPT ![r] = to]
        /\ erred' = erred \/ erred' = [erred EXCEPT ![r] = outcome]
  BY ServiceMoves
<1>2. /\ step' \in [Requests -> I!Steps] /\ erred' \in [Requests -> BOOLEAN]
      /\ \A x \in Requests : x # r => step'[x] = step[x] /\ erred'[x] = erred[x]
  BY <1>1 DEF SuccessInv
<1> QED
  BY <1>1, <1>2 DEF SuccessInv, SuccessIsEndToEnd

\* Every step of the workload keeps it.
LEMMA NextSuccess == SuccessInv /\ [WorkloadNext]_allVars => SuccessInv'
<1> SUFFICES ASSUME SuccessInv, [WorkloadNext]_allVars PROVE SuccessInv'
  OBVIOUS
<1>1. CASE UNCHANGED <<pc, failed, step, erred>>
  BY <1>1 DEF SuccessInv, SuccessIsEndToEnd
<1>2. ASSUME NEW r \in Requests,
             DemoStep(r) \/ Calls(r) \/ CallReturns(r) \/ CallAbandoned(r)
      PROVE  SuccessInv'
  <2>1. DemoAlone(r) /\ UNCHANGED inventory
    BY <1>2 DEF DemoStep, Calls, CallReturns, CallAbandoned, DemoAlone
  <2> QED
    BY <2>1, DemoKeepsSuccess
<1>3. ASSUME NEW r \in Requests, Accepts(r) \/ InventoryStep(r)
      PROVE  SuccessInv'
  BY <1>3, ServiceKeepsSuccess DEF Accepts, InventoryStep, vars
<1>4. CASE Environment
  <2>1. ASSUME NEW r \in Requests, I!DatabaseAnswers(r), UNCHANGED vars
        PROVE  SuccessInv'
    BY <2>1, ServiceKeepsSuccess DEF vars
  <2>2. ASSUME NEW r \in Requests, NEW fail \in BOOLEAN, Arrive(r, fail), UNCHANGED inventory
        PROVE  SuccessInv'
    <3>1. DemoAlone(r)
      BY <2>2 DEF DemoAlone
    <3> QED
      BY <2>2, <3>1, DemoKeepsSuccess
  <2>3. ASSUME NEW r \in Requests, Lost(r) \/ Disconnect(r)
        PROVE  UNCHANGED <<pc, failed, step, erred>>
    BY <2>3 DEF Lost, Disconnect, I!Cancel, vars, inventory
  <2>4. ASSUME NEW r \in Requests, ClientLeaves(r), UNCHANGED inventory
        PROVE  UNCHANGED <<pc, failed, step, erred>>
    BY <2>4 DEF ClientLeaves, inventory
  <2>5. CASE Tick /\ UNCHANGED inventory
    BY <1>1, <2>5 DEF Tick, inventory
  <2> QED
    BY <1>1, <1>4, <2>1, <2>2, <2>3, <2>4, <2>5 DEF Environment
<1>5. CASE UNCHANGED allVars
  BY <1>1, <1>5 DEF allVars, vars, inventory
<1> QED
  BY <1>2, <1>3, <1>4, <1>5 DEF WorkloadNext

\* demo-api counts a success only for a call that inventory-service counted as one,
\* whatever is lost, canceled or timed out in between (callInventory, observe).
THEOREM SuccessNeedsTheService == WorkloadSpec => []SuccessIsEndToEnd
<1>1. WorkloadInit => SuccessInv
  BY PlaceFacts DEF WorkloadInit, Init, I!Init, I!Steps, SuccessInv, SuccessIsEndToEnd
<1>2. SuccessInv => SuccessIsEndToEnd
  BY DEF SuccessInv
<1> QED
  BY <1>1, <1>2, NextSuccess, PTL DEF WorkloadSpec

=============================================================================
