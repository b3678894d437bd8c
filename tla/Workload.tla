------------------------------ MODULE Workload ------------------------------
(***************************************************************************)
(* The demo workload as it is deployed: demo-api (DemoApp) calls           *)
(* inventory-service (Inventory) once for every request, over a connection *)
(* that may break, with an http.Client whose timeout is two seconds.  A    *)
(* request, and the call made for it, are one and the same r.              *)
(*                                                                         *)
(* The call a gone client or the timeout abandons goes on in the service   *)
(* until the service sees its connection closed, and it stays in the queue *)
(* for a worker even then.                                                 *)
(***************************************************************************)
EXTENDS DemoApp

CONSTANT
    Workers     \* INVENTORY_CONCURRENCY

ASSUME WorkloadAssumption == Workers \in Nat \ {0}

VARIABLES
    step, canceled, early, erred, workers, metrics,     \* of Inventory
    wire        \* calls sent and neither received nor lost

I == INSTANCE Inventory

inventory == <<step, canceled, early, erred, workers, metrics>>

WorkloadInit == Init /\ I!Init /\ wire = {}

-----------------------------------------------------------------------------
\* The handler of demo-api sends the call.
Calls(r) ==
    /\ CallInventory(r)
    /\ wire' = wire \union {r}
    /\ UNCHANGED inventory

\* The service accepts it.
Accepts(r) ==
    /\ r \in wire
    /\ wire' = wire \ {r}
    /\ I!Receives(r)
    /\ UNCHANGED vars

\* Mutant: the handler does not look at the status code.
MutCallReturns(r) ==
    /\ step[r] = "done"
    /\ CallEnds(r, TRUE)
    /\ UNCHANGED <<wire, inventory>>

\* Do returns the service's answer: its status is 2xx unless the request failed.
CallReturns(r) ==
    /\ step[r] = "done"
    /\ CallEnds(r, ~erred[r])
    /\ UNCHANGED <<wire, inventory>>

\* Mutant: http.Client has no Timeout.
MutCallAbandoned(r) ==
    /\ r \in gone
    /\ CallEnds(r, FALSE)
    /\ UNCHANGED <<wire, inventory>>

\* Do returns an error, at any time: the timeout is over, the client of the
\* incoming request is gone or the connection is broken.
CallAbandoned(r) ==
    /\ CallEnds(r, FALSE)
    /\ UNCHANGED <<wire, inventory>>

\* The connection breaks before the service reads the request.
Lost(r) ==
    /\ r \in wire
    /\ wire' = wire \ {r}
    /\ UNCHANGED <<vars, inventory>>

\* The service sees the connection closed: the call is over, or it broke.
Disconnect(r) ==
    /\ I!Cancel(r)
    /\ UNCHANGED <<vars, wire>>

DemoStep(r) == Local(r) /\ UNCHANGED <<wire, inventory>>
InventoryStep(r) == I!Handler(r) /\ UNCHANGED <<vars, wire>>

\* What no part of the program decides.
Environment ==
    \/ \E r \in Requests :
          \/ I!DatabaseAnswers(r) /\ UNCHANGED <<vars, wire>>
          \/ \E fail \in BOOLEAN : Arrive(r, fail) /\ UNCHANGED <<wire, inventory>>
          \/ ClientLeaves(r) /\ UNCHANGED <<wire, inventory>>
          \/ Lost(r)
          \/ Disconnect(r)
    \/ Tick /\ UNCHANGED <<wire, inventory>>

WorkloadNext ==
    \/ \E r \in Requests :
          DemoStep(r) \/ Calls(r) \/ CallReturns(r) \/ CallAbandoned(r)
          \/ Accepts(r) \/ InventoryStep(r)
    \/ Environment

allVars == <<vars, wire, inventory>>

\* The Go scheduler runs every goroutine that can run, and both timeouts expire.
\* The database and the network promise nothing.
Fairness ==
    \A r \in Requests :
        /\ WF_allVars(DemoStep(r))
        /\ WF_allVars(Calls(r))
        /\ WF_allVars(CallAbandoned(r))
        /\ WF_allVars(Accepts(r))
        /\ WF_allVars(InventoryStep(r))

WorkloadSpec == WorkloadInit /\ [][WorkloadNext]_allVars /\ Fairness

-----------------------------------------------------------------------------
NoPhantomLoad == I!NoPhantomLoad
CanceledIsError == I!CanceledIsError

\* demo-api counts a request as a success only when inventory-service counted its
\* call as one: an error of the dependency cannot be hidden in the error ratio the
\* controller reads, whatever is lost, canceled or timed out in between.
SuccessIsEndToEnd ==
    \A r \in Requests :
        pc[r] \in AfterSlot \union {"leaving"} /\ ~failed[r]
            => step[r] = "done" /\ ~erred[r]

\* Every request is answered, in spite of a call that is lost or a dependency that
\* hangs: the client's timeout frees the slot.
EveryRequestAnswered == \A r \in Requests : pc[r] = "waiting" ~> pc[r] = "done"

\* Every call the service accepts leaves it, in spite of a database that hangs and of
\* a caller that is gone: no worker and no place in the queue is lost.
EveryCallLeaves == \A r \in Requests : step[r] = "begun" ~> step[r] = "done"

=============================================================================
