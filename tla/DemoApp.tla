------------------------------ MODULE DemoApp ------------------------------
(***************************************************************************)
(* The demo workload's request handler (cmd/demo-app), whose telemetry the *)
(* controller scales by: every request takes a slot of the concurrency     *)
(* channel, does local work, calls inventory-service and gives the slot    *)
(* back.                                                                   *)
(*                                                                         *)
(* One step per access to what requests share: the channel and the         *)
(* telemetry behind its mutex.  Updates of the telemetry that follow each  *)
(* other directly are one step.  Time passes between any two steps.  The   *)
(* outcome of the call to inventory-service is free here; Workload composes*)
(* this module with the service.  Latency histograms, queue seconds and    *)
(* work seconds are left out: nothing else depends on them.                *)
(***************************************************************************)
EXTENDS Integers, SlotPool

CONSTANTS
    Requests,   \* requests the server may receive
    Slots,      \* DEMO_CONCURRENCY
    MaxClock    \* bound: the last tick

ASSUME DemoAssumption ==
    /\ IsFiniteSet(Requests)
    /\ Slots \in Nat \ {0}
    /\ MaxClock \in Nat

VARIABLES
    clock,
    pc,             \* where the handler of a request is
    gone,           \* requests whose client has left: r.Context() is done
    failed,         \* the local variable of the handler
    slotStarted,    \* its local variables: when it took its slot,
    held,           \* and for how long it held it
    concurrency,    \* the channel
    telemetry,
    leftEarly       \* history: requests whose client left before the call

vars == <<clock, pc, gone, failed, slotStarted, held, concurrency, telemetry, leftEarly>>

\* In the order of the code.  queued: at the channel, with a slot or without.
BeforeSlot == {"waiting", "queued"}
BeforeCall == BeforeSlot \union {"working", "worked"}
InSlot == {"working", "worked", "calling", "leaving"}
AfterSlot == {"freed", "done"}
Places == {"new"} \union BeforeSlot \union InSlot \union AfterSlot

NoTelemetry == [active |-> 0, waiters |-> 0, slotsInUse |-> 0, activeWork |-> 0,
                requests |-> 0, errors |-> 0, slotSeconds |-> 0]

Init ==
    /\ clock = 0
    /\ pc = [r \in Requests |-> "new"]
    /\ gone = {}
    /\ failed = [r \in Requests |-> FALSE]
    /\ slotStarted = [r \in Requests |-> 0]
    /\ held = [r \in Requests |-> 0]
    /\ concurrency = EmptyPool
    /\ telemetry = NoTelemetry
    /\ leftEarly = {}

Goto(r, from, to) == pc[r] = from /\ pc' = [pc EXCEPT ![r] = to]

-----------------------------------------------------------------------------
\* The handler.

\* begin and beginSlotQueue.  fail: whether the URL asks for an error.
Arrive(r, fail) ==
    /\ Goto(r, "new", "waiting")
    /\ failed' = [failed EXCEPT ![r] = fail]
    /\ telemetry' = [telemetry EXCEPT !.active = @ + 1, !.waiters = @ + 1]
    /\ UNCHANGED <<clock, gone, slotStarted, held, concurrency, leftEarly>>

\* The send on the channel.  The handler goes on once it holds a slot.
TakeSlot(r) ==
    /\ Goto(r, "waiting", "queued")
    /\ concurrency' = Send(concurrency, r, Slots)
    /\ UNCHANGED <<clock, gone, failed, slotStarted, held, telemetry, leftEarly>>

\* acquiredSlot and beginWork, then the Sleep of performLocalWork
BeginWork(r) ==
    /\ r \in concurrency.holders
    /\ Goto(r, "queued", "working")
    /\ slotStarted' = [slotStarted EXCEPT ![r] = clock]
    /\ telemetry' = [telemetry EXCEPT !.waiters = @ - 1, !.slotsInUse = @ + 1,
                                      !.activeWork = @ + 1]
    /\ UNCHANGED <<clock, gone, failed, held, concurrency, leftEarly>>

\* Mutant: the early return ends the work once more.
MutEndWork(r) ==
    /\ Goto(r, "working", IF failed[r] THEN "leaving" ELSE "worked")
    /\ telemetry' = [telemetry EXCEPT !.activeWork = @ - (IF failed[r] THEN 2 ELSE 1)]
    /\ UNCHANGED <<clock, gone, failed, slotStarted, held, concurrency, leftEarly>>

\* endWork; a request that asked for an error returns
EndWork(r) ==
    /\ Goto(r, "working", IF failed[r] THEN "leaving" ELSE "worked")
    /\ telemetry' = [telemetry EXCEPT !.activeWork = @ - 1]
    /\ UNCHANGED <<clock, gone, failed, slotStarted, held, concurrency, leftEarly>>

\* Mutant: the request is built without the context of the incoming one.
MutCallInventory(r) ==
    /\ Goto(r, "worked", "calling")
    /\ UNCHANGED <<clock, gone, failed, slotStarted, held, concurrency, telemetry, leftEarly>>

\* Do sends the request, unless its context is done.
CallInventory(r) ==
    /\ r \notin gone
    /\ Goto(r, "worked", "calling")
    /\ UNCHANGED <<clock, gone, failed, slotStarted, held, concurrency, telemetry, leftEarly>>

\* No request is sent: the URL is bad, the connection is refused or the context
\* is done.
CallRefused(r) ==
    /\ Goto(r, "worked", "leaving")
    /\ failed' = [failed EXCEPT ![r] = TRUE]
    /\ UNCHANGED <<clock, gone, slotStarted, held, concurrency, telemetry, leftEarly>>

\* Do returns.  ok: with a response of status 2xx.
CallEnds(r, ok) ==
    /\ Goto(r, "calling", "leaving")
    /\ failed' = [failed EXCEPT ![r] = ~ok]
    /\ UNCHANGED <<clock, gone, slotStarted, held, concurrency, telemetry, leftEarly>>

\* The deferred function takes the time, then receives from the channel.
FreeSlot(r) ==
    /\ Goto(r, "leaving", "freed")
    /\ held' = [held EXCEPT ![r] = clock - slotStarted[r]]
    /\ concurrency' = Receive(concurrency, r)
    /\ UNCHANGED <<clock, gone, failed, slotStarted, telemetry, leftEarly>>

\* The last telemetry of the handler: releasedSlot with the time the slot was held
\* and the number of slots it gives back, observe and end.
Finish(r, seconds, slots) ==
    /\ Goto(r, "freed", "done")
    /\ telemetry' = [telemetry EXCEPT !.slotsInUse = @ - slots, !.slotSeconds = @ + seconds,
                                      !.requests = @ + 1,
                                      !.errors = IF failed[r] THEN @ + 1 ELSE @,
                                      !.active = @ - 1]
    /\ slotStarted' = [slotStarted EXCEPT ![r] = 0] /\ held' = [held EXCEPT ![r] = 0]
    /\ UNCHANGED <<clock, gone, failed, concurrency, leftEarly>>

\* Mutant: the time is taken after the slot is free.
MutRecordLate(r) == Finish(r, clock - slotStarted[r], 1)

\* Mutant: the gauge goes down only with a time that is not zero.
MutRecordRelease(r) == Finish(r, held[r], IF held[r] > 0 THEN 1 ELSE 0)

\* The client has its answer once the handler returns.
RecordRelease(r) == Finish(r, held[r], 1)

\* The steps of the handler that concern no one else.
Local(r) ==
    \/ TakeSlot(r) \/ BeginWork(r) \/ EndWork(r) \/ CallRefused(r)
    \/ FreeSlot(r) \/ RecordRelease(r)

-----------------------------------------------------------------------------
\* The clients and time.

ClientLeaves(r) ==
    /\ r \notin gone /\ pc[r] \notin {"new", "done"}
    /\ gone' = gone \union {r}
    /\ leftEarly' = IF pc[r] \in BeforeCall THEN leftEarly \union {r} ELSE leftEarly
    /\ UNCHANGED <<clock, pc, failed, slotStarted, held, concurrency, telemetry>>

Tick ==
    /\ clock < MaxClock
    /\ clock' = clock + 1
    /\ UNCHANGED <<pc, gone, failed, slotStarted, held, concurrency, telemetry, leftEarly>>

Next ==
    \/ \E r \in Requests :
          \/ \E fail \in BOOLEAN : Arrive(r, fail)
          \/ Local(r)
          \/ CallInventory(r)
          \/ \E ok \in BOOLEAN : CallEnds(r, ok)
          \/ ClientLeaves(r)
    \/ Tick

Spec == Init /\ [][Next]_vars

-----------------------------------------------------------------------------
At(places) == {r \in Requests : pc[r] \in places}

\* At the channel with a slot that is not recorded yet.
Granted == {r \in At({"queued"}) : r \in concurrency.holders}

\* The shape of the state.
TypeOK ==
    /\ clock \in Nat
    /\ pc \in [Requests -> Places]
    /\ gone \subseteq Requests /\ leftEarly \subseteq gone
    /\ failed \in [Requests -> BOOLEAN]
    /\ slotStarted \in [Requests -> Nat] /\ held \in [Requests -> Nat]
    /\ concurrency.holders \subseteq Requests
    /\ concurrency.queue \in Seq(Requests)
    /\ telemetry \in [active : Nat, waiters : Nat, slotsInUse : Nat, activeWork : Nat,
                      requests : Nat, errors : Nat, slotSeconds : Nat]

\* The gauges are not updated together with the channel, so slots_in_use may
\* exceed the slots there are (main.go:139 frees the slot first) or fall short
\* of them.  They are off by exactly the requests between an operation on the
\* channel and its record, and so by none when none is there: no path through
\* the handler leaks a slot, a waiter or a count.
GaugesSettle ==
    /\ telemetry.slotsInUse + Cardinality(Granted)
          = Cardinality(concurrency.holders) + Cardinality(At({"freed"}))
    /\ telemetry.waiters
          = Len(concurrency.queue) + Cardinality(Granted) + Cardinality(At({"waiting"}))
    /\ telemetry.activeWork <= telemetry.slotsInUse
    /\ telemetry.active = Cardinality(At(Places \ {"new", "done"}))
    /\ telemetry.requests = Cardinality(At({"done"}))

\* What the request contributes to slotSeconds, or will.
SlotTime(r) ==
    IF pc[r] \in InSlot THEN clock - slotStarted[r]
    ELSE IF pc[r] = "freed" THEN held[r]
    ELSE 0

\* One by one, the ticks of slot time not recorded yet.
Unrecorded == {tick \in Requests \X (0..clock) : tick[2] < SlotTime(tick[1])}

\* http_concurrency_slot_seconds_total counts "wall-clock seconds requests held a
\* concurrency slot, excluding time queued" (main.go:104): with everything still
\* to be recorded it never exceeds the slots times the time, so that the occupancy
\* the controller compares with physicalConcurrencyLimit cannot pass it in the
\* long run, however requests queue.
SlotTimeWithinLimit ==
    telemetry.slotSeconds + Cardinality(Unrecorded) <= Slots * clock

\* A request whose client left before the call is worked on all the same but never
\* reaches inventory-service, and once counted it is counted as an error
\* (NewRequestWithContext with r.Context()).
AbandonedIsError ==
    \A r \in leftEarly :
        /\ pc[r] # "calling"
        /\ pc[r] \in AfterSlot \union {"leaving"} => failed[r]

=============================================================================
