------------------------------ MODULE SlotPool ------------------------------
(***************************************************************************)
(* A buffered Go channel used as a counting semaphore: a send takes one of *)
(* its slots, a receive gives one back (the concurrency channels of        *)
(* cmd/demo-app and cmd/inventory-service).  The runtime queues blocked    *)
(* senders in order and a receive hands its slot to the first of them      *)
(* before that sender runs again, so no later sender can overtake it.      *)
(* Neither operation looks at a context.                                   *)
(***************************************************************************)
EXTENDS Naturals, Sequences, FiniteSets

EmptyPool == [holders |-> {}, queue |-> <<>>]

\* channel <- struct{}{} by r: a slot, or a place in the queue.
Send(pool, r, capacity) ==
    IF Cardinality(pool.holders) < capacity
    THEN [pool EXCEPT !.holders = @ \union {r}]
    ELSE [pool EXCEPT !.queue = Append(@, r)]

\* <-channel by the holder r.
Receive(pool, r) ==
    IF pool.queue = <<>>
    THEN [pool EXCEPT !.holders = @ \ {r}]
    ELSE [holders |-> (pool.holders \ {r}) \union {Head(pool.queue)},
          queue   |-> Tail(pool.queue)]

=============================================================================
