--------------------------- MODULE SlotPoolProofs ---------------------------
(***************************************************************************)
(* What the channel of concurrency slots promises, for every capacity and  *)
(* every set of requests, and the counting that the proofs about the two   *)
(* services rest on.                                                       *)
(***************************************************************************)
EXTENDS SlotPool, Integers, FiniteSetTheorems, TLAPS

Queued(pool) == {pool.queue[i] : i \in DOMAIN pool.queue}

\* No request is at the channel twice, and the slots are not exceeded.
Proper(pool, requests, capacity) ==
    /\ pool = [holders |-> pool.holders, queue |-> pool.queue]
    /\ pool.holders \subseteq requests
    /\ pool.queue \in Seq(requests)
    /\ \A i, j \in DOMAIN pool.queue : pool.queue[i] = pool.queue[j] => i = j
    /\ Len(pool.queue) = Cardinality(Queued(pool))
    /\ Queued(pool) \intersect pool.holders = {}
    /\ Cardinality(pool.holders) <= capacity

\* The empty channel is proper.
LEMMA EmptyIsProper ==
    ASSUME NEW requests, NEW capacity \in Nat
    PROVE  /\ Proper(EmptyPool, requests, capacity)
           /\ EmptyPool.holders = {} /\ Queued(EmptyPool) = {}
<1>1. Queued(EmptyPool) = {}
  BY DEF EmptyPool, Queued
<1>2. Len(EmptyPool.queue) = 0 /\ EmptyPool.holders = {} /\ EmptyPool.queue \in Seq(requests)
  BY DEF EmptyPool
<1>3. \A i, j \in DOMAIN EmptyPool.queue : EmptyPool.queue[i] = EmptyPool.queue[j] => i = j
  BY DEF EmptyPool
<1>4. EmptyPool = [holders |-> EmptyPool.holders, queue |-> EmptyPool.queue]
  BY DEF EmptyPool
<1> QED
  BY <1>1, <1>2, <1>3, <1>4, FS_EmptySet DEF Proper

\* A send by a request that is not at the channel puts it there, with a slot or in
\* the queue, and moves no one else.
LEMMA SendFacts ==
    ASSUME NEW requests, IsFiniteSet(requests), NEW capacity \in Nat, NEW pool,
           Proper(pool, requests, capacity),
           NEW r \in requests, r \notin pool.holders, r \notin Queued(pool)
    PROVE  LET after == Send(pool, r, capacity)
           IN  /\ Proper(after, requests, capacity)
               /\ \/ after.holders = pool.holders \union {r} /\ Queued(after) = Queued(pool)
                  \/ after.holders = pool.holders /\ Queued(after) = Queued(pool) \union {r}
<1> DEFINE after == Send(pool, r, capacity)
           q     == pool.queue
<1>1. /\ pool = [holders |-> pool.holders, queue |-> q]
      /\ pool.holders \subseteq requests /\ q \in Seq(requests)
      /\ \A i, j \in DOMAIN q : q[i] = q[j] => i = j
      /\ Len(q) = Cardinality(Queued(pool))
      /\ Queued(pool) \intersect pool.holders = {}
      /\ Cardinality(pool.holders) <= capacity
  BY DEF Proper
<1>2. IsFiniteSet(pool.holders) /\ Cardinality(pool.holders) \in Nat
  BY <1>1, FS_Subset, FS_CardinalityType
<1>3. CASE Cardinality(pool.holders) < capacity
  <2>1. /\ after = [holders |-> pool.holders \union {r}, queue |-> q]
        /\ after.holders = pool.holders \union {r} /\ after.queue = q
    BY <1>1, <1>3 DEF Send
  <2>2. Queued(after) = Queued(pool)
    BY <2>1 DEF Queued
  <2>3. Cardinality(after.holders) = Cardinality(pool.holders) + 1
    BY <1>2, <2>1, FS_AddElement
  <2>4. Cardinality(after.holders) <= capacity
    BY <1>2, <1>3, <2>3
  <2> HIDE DEF after
  <2>5. Proper(after, requests, capacity)
    BY <1>1, <2>1, <2>2, <2>4 DEF Proper
  <2> QED
    BY <2>1, <2>2, <2>5 DEF after
<1>4. CASE ~(Cardinality(pool.holders) < capacity)
  <2> DEFINE s == Append(q, r)
  <2>1. /\ after = [holders |-> pool.holders, queue |-> s]
        /\ after.holders = pool.holders /\ after.queue = s
    BY <1>1, <1>4 DEF Send
  <2>2. /\ s \in Seq(requests) /\ Len(s) = Len(q) + 1 /\ Len(q) \in Nat
        /\ s[Len(s)] = r
        /\ \A i \in 1..Len(q) : s[i] = q[i]
    BY <1>1
  <2>3. DOMAIN s = DOMAIN q \union {Len(s)} /\ DOMAIN q = 1..Len(q) /\ Len(s) \notin DOMAIN q
    BY <1>1, <2>2
  <2> HIDE DEF s
  <2>4. Queued(after) = Queued(pool) \union {r}
    BY <2>1, <2>2, <2>3 DEF Queued
  <2>5. \A i, j \in DOMAIN s : s[i] = s[j] => i = j
    <3>1. \A i \in DOMAIN q : s[i] = q[i] /\ s[i] # r
      BY <2>2, <2>3 DEF Queued
    <3>2. \A i, j \in DOMAIN q : q[i] = q[j] => i = j
      BY <1>1
    <3> QED
      BY <2>2, <2>3, <3>1, <3>2, Zenon
  <2>6. Queued(pool) \in SUBSET requests
    BY <1>1 DEF Queued
  <2>7. IsFiniteSet(Queued(pool))
    BY <2>6, FS_Subset
  <2>8. Len(s) = Cardinality(Queued(after))
    BY <1>1, <2>2, <2>4, <2>7, FS_AddElement
  <2> HIDE DEF after
  <2>9. Queued(after) \intersect after.holders = {}
    BY <1>1, <2>1, <2>4
  <2>10. Proper(after, requests, capacity)
    BY <1>1, <2>1, <2>2, <2>5, <2>8, <2>9 DEF Proper
  <2> QED
    BY <2>1, <2>4, <2>10 DEF after
<1> QED
  BY <1>3, <1>4

\* A receive takes the slot of its holder, and hands it to one request of the queue
\* where there is one.
LEMMA ReceiveFacts ==
    ASSUME NEW requests, IsFiniteSet(requests), NEW capacity \in Nat, NEW pool,
           Proper(pool, requests, capacity), NEW r \in pool.holders
    PROVE  LET after == Receive(pool, r)
           IN  /\ Proper(after, requests, capacity)
               /\ \/ after.holders = pool.holders \ {r} /\ Queued(after) = Queued(pool)
                  \/ \E next \in Queued(pool) :
                        /\ after.holders = (pool.holders \ {r}) \union {next}
                        /\ Queued(after) = Queued(pool) \ {next}
<1> DEFINE after == Receive(pool, r)
           q     == pool.queue
<1>1. /\ pool = [holders |-> pool.holders, queue |-> q]
      /\ pool.holders \subseteq requests /\ q \in Seq(requests)
      /\ \A i, j \in DOMAIN q : q[i] = q[j] => i = j
      /\ Len(q) = Cardinality(Queued(pool))
      /\ Queued(pool) \intersect pool.holders = {}
      /\ Cardinality(pool.holders) <= capacity
  BY DEF Proper
<1>2. IsFiniteSet(pool.holders) /\ Cardinality(pool.holders) \in Nat
  BY <1>1, FS_Subset, FS_CardinalityType
<1>3. /\ IsFiniteSet(pool.holders \ {r})
      /\ Cardinality(pool.holders \ {r}) = Cardinality(pool.holders) - 1
  BY <1>2, FS_RemoveElement
<1>4. CASE q = <<>>
  <2>1. /\ after = [holders |-> pool.holders \ {r}, queue |-> q]
        /\ after.holders = pool.holders \ {r} /\ after.queue = q
    BY <1>1, <1>4 DEF Receive
  <2>2. Queued(after) = Queued(pool)
    BY <2>1 DEF Queued
  <2>3. Cardinality(after.holders) <= capacity
    BY <1>1, <1>2, <1>3, <2>1
  <2> HIDE DEF after
  <2>4. Proper(after, requests, capacity)
    BY <1>1, <2>1, <2>2, <2>3 DEF Proper
  <2> QED
    BY <2>1, <2>2, <2>4 DEF after
<1>5. CASE q # <<>>
  <2> DEFINE s    == Tail(q)
             next == Head(q)
  <2>1. /\ after = [holders |-> (pool.holders \ {r}) \union {next}, queue |-> s]
        /\ after.holders = (pool.holders \ {r}) \union {next} /\ after.queue = s
    BY <1>5 DEF Receive
  <2>2. /\ s \in Seq(requests) /\ Len(q) \in Nat /\ Len(q) >= 1 /\ Len(s) = Len(q) - 1
        /\ \A i \in 1..Len(s) : s[i] = q[i + 1]
        /\ next = q[1] /\ next \in requests
    BY <1>1, <1>5
  <2> HIDE DEF s, next
  <2>3. next \in Queued(pool)
    BY <2>2, <1>1 DEF Queued
  <2>4. \A i, j \in DOMAIN s : s[i] = s[j] => i = j
    <3>1. SUFFICES ASSUME NEW i \in DOMAIN s, NEW j \in DOMAIN s, s[i] = s[j] PROVE i = j
      OBVIOUS
    <3>2. /\ i \in 1..Len(s) /\ j \in 1..Len(s)
          /\ i + 1 \in DOMAIN q /\ j + 1 \in DOMAIN q
      BY <1>1, <2>2
    <3>3. q[i + 1] = q[j + 1]
      BY <2>2, <3>1, <3>2
    <3>4. i + 1 = j + 1
      BY <1>1, <3>2, <3>3
    <3> QED
      BY <3>2, <3>4
  <2>5. Queued(after) = Queued(pool) \ {next}
    <3>1. ASSUME NEW x \in Queued(after) PROVE x \in Queued(pool) /\ x # next
      <4>1. PICK i \in DOMAIN s : x = s[i]
        BY <2>1 DEF Queued
      <4>2. i \in 1..Len(s) /\ i + 1 \in DOMAIN q /\ 1 \in DOMAIN q /\ i + 1 # 1
        BY <1>1, <2>2
      <4>3. x = q[i + 1]
        BY <2>2, <4>1, <4>2
      <4> QED
        BY <1>1, <2>2, <4>2, <4>3 DEF Queued
    <3>2. ASSUME NEW x \in Queued(pool), x # next PROVE x \in Queued(after)
      <4>1. PICK i \in DOMAIN q : x = q[i]
        BY DEF Queued
      <4>2. i \in 1..Len(q) /\ i # 1
        BY <1>1, <2>2, <3>2, <4>1
      <4>3. i - 1 \in 1..Len(s) /\ (i - 1) + 1 = i
        BY <2>2, <4>2
      <4>4. DOMAIN s = 1..Len(s)
        BY <2>2
      <4>5. i - 1 \in DOMAIN s
        BY <4>3, <4>4
      <4>6. s[i - 1] = x
        BY <2>2, <4>1, <4>3
      <4> QED
        BY <2>1, <4>5, <4>6 DEF Queued
    <3> QED
      BY <3>1, <3>2
  <2>6. Queued(pool) \in SUBSET requests
    BY <1>1 DEF Queued
  <2>7. IsFiniteSet(Queued(pool))
    BY <2>6, FS_Subset
  <2> HIDE DEF after
  <2>8. Len(s) = Cardinality(Queued(after))
    <3>1. Cardinality(Queued(pool) \ {next}) = Cardinality(Queued(pool)) - 1
      BY <2>3, <2>7, FS_RemoveElement
    <3> QED
      BY <1>1, <2>2, <2>5, <3>1
  <2>9. Cardinality(after.holders) <= capacity
    <3>1. next \notin pool.holders \ {r}
      BY <1>1, <2>3
    <3>2. Cardinality((pool.holders \ {r}) \union {next}) = Cardinality(pool.holders \ {r}) + 1
      BY <1>3, <3>1, FS_AddElement
    <3> QED
      BY <1>1, <1>2, <1>3, <2>1, <3>2
  <2>10. Queued(after) \intersect after.holders = {} /\ after.holders \subseteq requests
    BY <1>1, <2>1, <2>2, <2>5
  <2>11. Proper(after, requests, capacity)
    BY <2>1, <2>2, <2>4, <2>8, <2>9, <2>10 DEF Proper
  <2> QED
    BY <2>1, <2>3, <2>5, <2>11 DEF after
<1> QED
  BY <1>4, <1>5

-----------------------------------------------------------------------------
\* Requests at some of the places of a handler.

Counted(place, requests, places) == Cardinality({r \in requests : place[r] \in places})

\* A count of requests is a natural number.
LEMMA CountType ==
    ASSUME NEW requests, IsFiniteSet(requests), NEW place, NEW places
    PROVE  /\ IsFiniteSet({r \in requests : place[r] \in places})
           /\ Counted(place, requests, places) \in Nat
<1>1. {r \in requests : place[r] \in places} \in SUBSET requests
  OBVIOUS
<1>2. IsFiniteSet({r \in requests : place[r] \in places})
  BY <1>1, FS_Subset
<1> QED
  BY <1>2, FS_CardinalityType DEF Counted

\* Only r moves.
Moves(r, requests, place, moved) ==
    /\ IsFiniteSet(requests)
    /\ r \in requests
    /\ \A x \in requests : x # r => moved[x] = place[x]

\* What a place adds to a count.
In(place, places) == IF place \in places THEN 1 ELSE 0

\* A move changes a count by what its two ends add to it.
LEMMA MoveCounts ==
    ASSUME NEW requests, NEW place, NEW moved, NEW r, Moves(r, requests, place, moved),
           NEW places
    PROVE  Counted(moved, requests, places)
             = Counted(place, requests, places) + In(moved[r], places) - In(place[r], places)
<1> DEFINE S == {x \in requests : place[x] \in places}
           T == {x \in requests : moved[x] \in places}
<1>1. /\ IsFiniteSet(requests) /\ r \in requests
      /\ \A x \in requests : x # r => moved[x] = place[x]
  BY DEF Moves
<1>2. IsFiniteSet(S) /\ Cardinality(S) \in Nat
  <2>1. S \in SUBSET requests
    OBVIOUS
  <2> HIDE DEF S
  <2> QED
    BY <1>1, <2>1, FS_Subset, FS_CardinalityType
<1>3. ASSUME place[r] \notin places, moved[r] \in places
      PROVE  Cardinality(T) = Cardinality(S) + In(moved[r], places) - In(place[r], places)
  <2>1. T = S \union {r} /\ r \notin S
    BY <1>1, <1>3
  <2> HIDE DEF S, T
  <2>2. Cardinality(T) = Cardinality(S) + 1
    BY <1>2, <2>1, FS_AddElement
  <2>3. In(moved[r], places) = 1 /\ In(place[r], places) = 0
    BY <1>3 DEF In
  <2> QED
    BY <1>2, <2>2, <2>3
<1>4. ASSUME place[r] \in places, moved[r] \notin places
      PROVE  Cardinality(T) = Cardinality(S) + In(moved[r], places) - In(place[r], places)
  <2>1. T = S \ {r} /\ r \in S
    BY <1>1, <1>4
  <2> HIDE DEF S, T
  <2>2. Cardinality(T) = Cardinality(S) - 1
    BY <1>2, <2>1, FS_RemoveElement
  <2>3. In(moved[r], places) = 0 /\ In(place[r], places) = 1
    BY <1>4 DEF In
  <2> QED
    BY <1>2, <2>2, <2>3
<1>5. ASSUME place[r] \in places <=> moved[r] \in places
      PROVE  Cardinality(T) = Cardinality(S) + In(moved[r], places) - In(place[r], places)
  <2>1. T = S
    BY <1>1, <1>5
  <2> HIDE DEF S, T
  <2>2. In(moved[r], places) = In(place[r], places) /\ In(place[r], places) \in Nat
    BY <1>5 DEF In
  <2> QED
    BY <1>2, <2>1, <2>2
<1>6. Cardinality(T) = Cardinality(S) + In(moved[r], places) - In(place[r], places)
  <2> HIDE DEF S, T
  <2> QED
    BY <1>3, <1>4, <1>5
<1> QED
  BY <1>6 DEF Counted

\* Nobody is where nobody has been yet.
LEMMA NobodyThere ==
    ASSUME NEW requests, NEW place, NEW places, \A r \in requests : place[r] \notin places
    PROVE  Counted(place, requests, places) = 0
<1>1. {r \in requests : place[r] \in places} = {}
  OBVIOUS
<1> QED
  BY <1>1, FS_EmptySet DEF Counted

\* Two parts of a finite set without a common element.
LEMMA DisjointParts ==
    ASSUME NEW S, IsFiniteSet(S), NEW T, IsFiniteSet(T), S \intersect T = {}
    PROVE  /\ Cardinality(S \union T) = Cardinality(S) + Cardinality(T)
           /\ Cardinality(S) \in Nat /\ Cardinality(T) \in Nat
<1>1. Cardinality(S) \in Nat /\ Cardinality(T) \in Nat
  BY FS_CardinalityType
<1>2. Cardinality(S \union T) = Cardinality(S) + Cardinality(T) - Cardinality({})
  BY FS_Union
<1> QED
  BY <1>1, <1>2, FS_EmptySet

=============================================================================
