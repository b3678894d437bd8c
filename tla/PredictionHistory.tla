------------------------- MODULE PredictionHistory -------------------------
(***************************************************************************)
(* The predictor's memory: OptiScalerReconciler.predictionHistories        *)
(* (internal/controller/prediction.go), a map from the namespace/name of   *)
(* an OptiScaler to the demand and capacity samples of its reconciles.     *)
(* It is kept in the controller process only, shared by the reconciles of  *)
(* every OptiScaler, bounded in entries and in samples, and gone after a   *)
(* restart.                                                                *)
(*                                                                         *)
(* The clock is the time a reconcile captures before its queries.  The     *)
(* timestamp of a sample comes from Prometheus and may lag it or lead it.  *)
(* One worker runs the reconciles of a process, so updates happen in the   *)
(* order of the times they captured.  Keys are numbers in the order of     *)
(* their strings.                                                          *)
(***************************************************************************)
EXTENDS Forecast

CONSTANTS
    Keys,           \* OptiScalers with prediction enabled
    MaxHistories,   \* maxPredictionHistories (128)
    Retention,      \* idle time after which an entry is dropped (10 min)
    DemandRates,    \* values of the predictive request rate
    Efficiencies,   \* values of the capacity samples
    Lags,           \* timestamp of a sample, relative to the clock
    Horizons,       \* planning horizons, 1 s when there is none
    MaxClock        \* bound: the last tick

ASSUME HistoryAssumption ==
    /\ Keys \subseteq Nat
    /\ MaxHistories \in Nat \ {0} /\ Retention \in Nat
    /\ DemandRates \subseteq Nat /\ Efficiencies \subseteq Nat \ {0}
    /\ Lags \subseteq Int /\ Horizons \subseteq Nat

VARIABLES
    clock,
    histories,  \* predictionHistories: key -> [demand, capacity, updated]
    started,    \* history: when the process started
    trend       \* the forecast of the last update

vars == <<clock, histories, started, trend>>

NoHistories == [k \in {} |-> NoSample]

EmptyHistory == [demand |-> <<>>, capacity |-> <<>>, updated |-> 0]

\* Samples a reconcile may bring: none where the query is unusable or, for
\* capacity, the sample is not eligible.
Samples(values) ==
    {NoSample} \union {[at |-> clock + lag, value |-> v] : lag \in Lags, v \in values}

\* The clock leaves room for the samples that lag it.
Init ==
    /\ clock = HistoryWindow
    /\ histories = NoHistories
    /\ started = HistoryWindow
    /\ trend = NoForecast

\* Mutant: the entry updated last makes room.
MutOldest(live) ==
    CHOOSE k \in live : \A j \in live : histories[j].updated <= histories[k].updated

\* The entry that makes room: least recently updated, first by name.
Oldest(live) ==
    CHOOSE k \in live : \A j \in live :
        \/ histories[k].updated < histories[j].updated
        \/ histories[k].updated = histories[j].updated /\ k <= j

\* Mutant: room for one entry more.
MutRoomFor(key, live) ==
    IF key \notin live /\ Cardinality(live) > MaxHistories THEN live \ {Oldest(live)} ELSE live

\* The entries that stay beside the one of key.
RoomFor(key, live) ==
    IF key \notin live /\ Cardinality(live) >= MaxHistories THEN live \ {Oldest(live)} ELSE live

\* Entries not idle for longer than Retention.
Live == {k \in DOMAIN histories : histories[k].updated >= clock - Retention}

\* updatePredictionHistory, under predictionMu, and the forecast evaluatePrediction
\* makes of the copy it returns.
Update(key, demand, capacity, horizon) ==
    LET old   == IF key \in DOMAIN histories THEN histories[key] ELSE EmptyHistory
        entry == [demand   |-> AppendSample(old.demand, demand, clock, DemandFloor),
                  capacity |-> AppendSample(old.capacity, capacity, clock, CapacityFloor),
                  updated  |-> clock]
    IN  /\ histories' = [k \in RoomFor(key, Live) \union {key} |->
                            IF k = key THEN entry ELSE histories[k]]
        /\ trend' = LinearForecast(entry.demand, clock, horizon)
        /\ UNCHANGED <<clock, started>>

\* Mutant: the memory outlives the process.
MutRestart == started' = clock /\ UNCHANGED <<clock, histories, trend>>

\* The process restarts.
Restart ==
    /\ histories' = NoHistories
    /\ started' = clock
    /\ trend' = NoForecast
    /\ UNCHANGED clock

Tick ==
    /\ clock < MaxClock
    /\ clock' = clock + 1
    /\ UNCHANGED <<histories, started, trend>>

Next ==
    \/ \E key \in Keys, horizon \in Horizons :
          \E demand \in Samples(DemandRates), capacity \in Samples(Efficiencies) :
              Update(key, demand, capacity, horizon)
    \/ Restart
    \/ Tick

Spec == Init /\ [][Next]_vars

-----------------------------------------------------------------------------
\* The shape of the memory.
TypeOK ==
    /\ clock \in Nat /\ started \in Nat
    /\ DOMAIN histories \subseteq Keys
    /\ \A k \in DOMAIN histories :
          /\ histories[k].updated \in Nat
          /\ \A field \in {"demand", "capacity"} :
                histories[k][field] \in Seq([at : Int, value : Nat])

\* The memory is bounded whatever resources come and go: at most MaxHistories
\* entries of at most MaxSamples samples (updatePredictionHistory, AppendSample).
MemoryBounded ==
    /\ Cardinality(DOMAIN histories) <= MaxHistories
    /\ \A k \in DOMAIN histories :
          Len(histories[k].demand) <= MaxSamples /\ Len(histories[k].capacity) <= MaxSamples

InOrder(s) == \A i, j \in DOMAIN s : i < j => s[i].at < s[j].at

\* However late, repeated or early samples come, every history is strictly in
\* order of time and inside the window of its last update, so that a fit never
\* sees a sample twice (AppendSample and AppendCapacitySample).
Chronological ==
    \A k \in DOMAIN histories :
        \A s \in {histories[k].demand, histories[k].capacity} :
            /\ InOrder(s)
            /\ \A i \in DOMAIN s :
                  s[i].at \in histories[k].updated - HistoryWindow..histories[k].updated + FutureSkew

\* An entry is dropped by the update of another only when it has been idle for
\* longer than Retention or every entry that stays was updated no earlier.
LeastRecentMakesRoom ==
    [][started' = started =>
        \A k \in DOMAIN histories \ DOMAIN histories' :
            \/ histories[k].updated < clock - Retention
            \/ \A j \in DOMAIN histories \intersect DOMAIN histories' :
                  histories[j].updated >= histories[k].updated]_vars

\* While an entry lives, a demand sample leaves it only when it has fallen out of
\* the window, was replaced by one of the same time, or MaxSamples later ones are
\* held: a late or an invalid sample never costs evidence.
NoEvidenceLost ==
    [][\A k \in DOMAIN histories \intersect DOMAIN histories' :
        LET before == histories[k].demand
            after  == histories'[k].demand
        IN  \A i \in DOMAIN before :
              \/ \E j \in DOMAIN after : after[j].at = before[i].at
              \/ before[i].at < clock - HistoryWindow
              \/ Len(after) = MaxSamples /\ after[1].at > before[i].at]_vars

\* After a restart nothing is trusted until samples of this process cover the
\* minimum span: no forecast is HIGH sooner, less the time by which timestamps
\* differ from the clock (docs/architecture.md: the histories "reset when the
\* controller restarts").
NoTrustAfterRestart ==
    trend.quality = "HIGH" =>
        \E early, late \in Lags : clock + late - (started + early) >= MinimumSpan

=============================================================================
