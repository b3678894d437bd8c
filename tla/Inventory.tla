------------------------------ MODULE Inventory ------------------------------
(***************************************************************************)
(* The request handler of inventory-service (cmd/inventory-service), the   *)
(* dependency of the demo workload: every request takes one of the worker  *)
(* slots, does local work for a while, queries the database with a timeout *)
(* and gives the slot back.  http_active_work is what the controller       *)
(* divides by the slots to decide whether the dependency is saturated.     *)
(*                                                                         *)
(* One step per access to what requests share.  A context that ends races  *)
(* the timer, the query and the queue for a slot, each at any time.  The   *)
(* database is external: it answers, fails or hangs.  Histograms are left  *)
(* out: nothing else depends on them.                                      *)
(***************************************************************************)
EXTENDS Integers, SlotPool

CONSTANTS
    Requests,   \* requests the server may receive
    Workers     \* INVENTORY_CONCURRENCY

VARIABLES
    step,       \* where the handler of a request is
    canceled,   \* requests whose context is done
    early,      \* those of them whose context was done before the query was made
    erred,      \* the local variable failed of the handler
    workers,    \* the channel
    metrics     \* the telemetry

vars == <<step, canceled, early, erred, workers, metrics>>

\* In the order of the code.  queued: at the channel, with a slot or without.
BeforeQuery == {"begun", "queued", "working", "ready"}
InSlot == {"working", "ready", "querying", "leaving"}
AfterQuery == {"leaving", "freed", "done"}
Steps == {"new"} \union BeforeQuery \union {"querying"} \union AfterQuery

NoMetrics == [active |-> 0, activeWork |-> 0, dbActive |-> 0,
              requests |-> 0, errors |-> 0, dbRequests |-> 0, dbErrors |-> 0]

Init ==
    /\ step = [r \in Requests |-> "new"]
    /\ canceled = {} /\ early = {}
    /\ erred = [r \in Requests |-> FALSE]
    /\ workers = EmptyPool
    /\ metrics = NoMetrics

Goto(r, from, to) == step[r] = from /\ step' = [step EXCEPT ![r] = to]

Count(outcome) == IF outcome THEN 1 ELSE 0

-----------------------------------------------------------------------------
\* The handler.

\* begin
Receives(r) ==
    /\ Goto(r, "new", "begun")
    /\ metrics' = [metrics EXCEPT !.active = @ + 1]
    /\ UNCHANGED <<canceled, early, erred, workers>>

\* The send on the channel, which does not look at the context.
TakeWorker(r) ==
    /\ Goto(r, "begun", "queued")
    /\ workers' = Send(workers, r, Workers)
    /\ UNCHANGED <<canceled, early, erred, metrics>>

\* beginWork, and the timer starts
BeginWork(r) ==
    /\ r \in workers.holders
    /\ Goto(r, "queued", "working")
    /\ metrics' = [metrics EXCEPT !.activeWork = @ + 1]
    /\ UNCHANGED <<canceled, early, erred, workers>>

\* Mutant: only the other branch of the select ends the work.
MutSelectCanceled(r) ==
    /\ r \in canceled
    /\ Goto(r, "working", "leaving")
    /\ erred' = [erred EXCEPT ![r] = TRUE]
    /\ UNCHANGED <<canceled, early, workers, metrics>>

\* The branch of the select for a context that is done.
SelectCanceled(r) ==
    /\ r \in canceled
    /\ Goto(r, "working", "leaving")
    /\ erred' = [erred EXCEPT ![r] = TRUE]
    /\ metrics' = [metrics EXCEPT !.activeWork = @ - 1]
    /\ UNCHANGED <<canceled, early, workers>>

\* The branch for the timer: also open to a request whose context is done, for
\* a select takes either of two branches that are ready.
SelectTimer(r) ==
    /\ Goto(r, "working", "ready")
    /\ metrics' = [metrics EXCEPT !.activeWork = @ - 1]
    /\ UNCHANGED <<canceled, early, erred, workers>>

\* beginDB
BeginQuery(r) ==
    /\ Goto(r, "ready", "querying")
    /\ metrics' = [metrics EXCEPT !.dbActive = @ + 1]
    /\ UNCHANGED <<canceled, early, erred, workers>>

\* inventoryItems returns: observeDB, and without an error the encoding of the
\* answer, which can only fail to write to a client that is gone.
EndQuery(r, dbFailed, encodeFailed) ==
    /\ Goto(r, "querying", "leaving")
    /\ erred' = [erred EXCEPT ![r] = dbFailed \/ encodeFailed]
    /\ metrics' = [metrics EXCEPT !.dbActive = @ - 1, !.dbRequests = @ + 1,
                                  !.dbErrors = @ + Count(dbFailed)]
    /\ UNCHANGED <<canceled, early, workers>>

\* Mutant: the context of the query is not derived from the request's.
MutDatabaseAnswers(r) ==
    \E dbFailed, encodeFailed \in BOOLEAN :
        /\ encodeFailed => ~dbFailed /\ r \in canceled
        /\ EndQuery(r, dbFailed, encodeFailed)

\* The database answers or fails, or the context of the query is canceled;
\* QueryContext refuses one that is done already.
DatabaseAnswers(r) ==
    \E dbFailed, encodeFailed \in BOOLEAN :
        /\ r \in early => dbFailed
        /\ encodeFailed => ~dbFailed /\ r \in canceled
        /\ EndQuery(r, dbFailed, encodeFailed)

\* Mutant: the query has no timeout of its own and ends with the request.
MutQueryUntilCanceled(r) ==
    /\ r \in canceled
    /\ EndQuery(r, TRUE, FALSE)

\* The five seconds of dbCtx are over.
QueryTimesOut(r) ==
    EndQuery(r, TRUE, FALSE)

\* The deferred function receives from the channel...
FreeWorker(r) ==
    /\ Goto(r, "leaving", "freed")
    /\ workers' = Receive(workers, r)
    /\ UNCHANGED <<canceled, early, erred, metrics>>

\* ...then observe.  The answer is small enough to leave only once the handler
\* has returned.
Observe(r) ==
    /\ Goto(r, "freed", "done")
    /\ metrics' = [metrics EXCEPT !.active = @ - 1, !.requests = @ + 1,
                                  !.errors = @ + Count(erred[r])]
    /\ UNCHANGED <<canceled, early, erred, workers>>

\* The context of the request ends with its connection.
Cancel(r) ==
    /\ r \notin canceled /\ step[r] \notin {"new", "done"}
    /\ canceled' = canceled \union {r}
    /\ early' = IF step[r] \in BeforeQuery THEN early \union {r} ELSE early
    /\ UNCHANGED <<step, erred, workers, metrics>>

\* The steps of the handler that do not depend on the database.
Handler(r) ==
    \/ TakeWorker(r) \/ BeginWork(r)
    \/ SelectCanceled(r) \/ SelectTimer(r)
    \/ BeginQuery(r) \/ QueryTimesOut(r)
    \/ FreeWorker(r) \/ Observe(r)

Next == \E r \in Requests : Receives(r) \/ Handler(r) \/ DatabaseAnswers(r) \/ Cancel(r)

Spec == Init /\ [][Next]_vars

-----------------------------------------------------------------------------
At(steps) == {r \in Requests : step[r] \in steps}

\* The shape of the state.
TypeOK ==
    /\ step \in [Requests -> Steps]
    /\ early \subseteq canceled /\ canceled \subseteq Requests
    /\ erred \in [Requests -> BOOLEAN]
    /\ workers.holders \subseteq Requests /\ workers.queue \in Seq(Requests)
    /\ metrics \in [active : Nat, activeWork : Nat, dbActive : Nat,
                    requests : Nat, errors : Nat, dbRequests : Nat, dbErrors : Nat]

\* The gauges the dependency analysis reads name requests that are there: work and
\* queries together never exceed the workers that are taken, however a cancellation
\* races the timer or the query (both branches of the select call endWork, main.go:151
\* and :156), and nothing is in flight once every handler has returned.
NoPhantomLoad ==
    /\ metrics.activeWork + metrics.dbActive <= Cardinality(workers.holders)
    /\ Cardinality(workers.holders) <= Workers
    /\ metrics.active = Cardinality(At(Steps \ {"new", "done"}))

\* A request canceled before its query counts as an error whichever branch of the
\* select took it, and the error counter covers the failed queries: every one of them
\* is counted as a failed request or still will be.
CanceledIsError ==
    /\ \A r \in early : step[r] \in AfterQuery => erred[r]
    /\ metrics.dbErrors <= metrics.errors
                           + Cardinality({r \in At({"leaving", "freed"}) : erred[r]})

=============================================================================
