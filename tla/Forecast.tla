------------------------------ MODULE Forecast ------------------------------
(***************************************************************************)
(* The demand forecast and the capacity estimate (internal/forecast): pure *)
(* functions of a bounded history of timestamped samples.                  *)
(*                                                                         *)
(* A sample is a record [at, value], value a number of requests per second *)
(* (demand) or of successful requests per second and held slot (capacity); *)
(* a negative value stands for every number that is not finite or          *)
(* negative.  Times and rates are integers in units of any size, and the   *)
(* arithmetic is exact: the rounding of float64 is left out, and with it   *)
(* the tests that a computed number is finite.  The reason of a rejection  *)
(* is left out; a rejection is what it leaves unset.                       *)
(***************************************************************************)
EXTENDS Integers, Sequences, FiniteSets, Functions

CONSTANTS
    MaxSamples,             \* samples kept (20)
    HistoryWindow,          \* age of the oldest sample kept (5 min)
    FutureSkew,             \* how far ahead of now a sample may be (30 s)
    TrendFitWindow,         \* age, before the latest, of the oldest fitted (120 s)
    MinimumSamples,         \* samples a fit needs (5)
    MinimumSpan,            \* time a fit needs (60 s)
    MaximumSampleAge,       \* age of the latest sample of a fit (45 s)
    MaximumSampleGap,       \* longest time between two of its samples (45 s)
    MinimumCapacitySamples  \* samples a capacity estimate needs (3)

ASSUME ForecastAssumption ==
    /\ {MaxSamples, HistoryWindow, TrendFitWindow, MinimumSpan, MaximumSampleGap}
          \subseteq Nat \ {0}
    /\ MinimumSamples \in Nat /\ MinimumSamples > 1
    /\ FutureSkew \in Nat /\ MaximumSampleAge \in Nat /\ MinimumCapacitySamples \in Nat \ {0}

\* The zero Sample: nothing was measured.
NoSample == [at |-> 0, value |-> -1]

\* Demand may be zero, a capacity sample may not: the least value accepted.
DemandFloor == 0
CapacityFloor == 1

-----------------------------------------------------------------------------
\* Histories.

\* The j-th smallest of a set of positions.
Nth(positions, j) ==
    CHOOSE i \in positions : Cardinality({k \in positions : k <= i}) = j

\* What s holds at some of its positions, in order: SelectSeq, for a test of
\* positions and without its recursion.
Subsequence(s, positions) ==
    [j \in 1..Cardinality(positions) |-> s[Nth(positions, j)]]

Timely(s, now) == s.at >= now - HistoryWindow /\ s.at <= now + FutureSkew

\* Mutant: what was not measured is kept as a sample too.
MutAcceptable(s, now, floor) == s = NoSample \/ Timely(s, now)

Acceptable(s, now, floor) == s # NoSample /\ Timely(s, now) /\ s.value >= floor

KeepNewest(history) ==
    IF Len(history) > MaxSamples
    THEN SubSeq(history, Len(history) - MaxSamples + 1, Len(history))
    ELSE history

pruneSamples(history, now, floor) ==
    LET kept == {i \in DOMAIN history :
                    Timely(history[i], now) /\ history[i].value >= floor}
    IN  KeepNewest(Subsequence(history, kept))

\* Mutant: a sample that is not newer is appended all the same.
MutAppendUnordered(history, s, now, floor) ==
    LET kept == pruneSamples(history, now, floor)
    IN  IF Acceptable(s, now, floor) THEN KeepNewest(Append(kept, s)) ELSE kept

\* Mutant: one late sample discards the history.
MutAppendResets(history, s, now, floor) ==
    LET kept == pruneSamples(history, now, floor)
    IN  IF ~Acceptable(s, now, floor) THEN kept
        ELSE IF kept = <<>> \/ kept[Len(kept)].at < s.at
          THEN KeepNewest(Append(kept, s))
        ELSE <<s>>

\* AppendSample and AppendCapacitySample: a later sample is appended, one of
\* the same time replaces the last, an earlier one is dropped.
AppendSample(history, s, now, floor) ==
    LET kept == pruneSamples(history, now, floor)
    IN  IF ~Acceptable(s, now, floor) THEN kept
        ELSE IF kept = <<>> \/ kept[Len(kept)].at < s.at
          THEN KeepNewest(Append(kept, s))
        ELSE IF kept[Len(kept)].at = s.at
          THEN [kept EXCEPT ![Len(kept)] = s]
        ELSE kept

-----------------------------------------------------------------------------
\* The forecast.

\* Mutant: the whole history is fitted.
MutFitSamples(samples) == samples

\* The samples of the window that ends at the latest one.
FitSamples(samples) ==
    Subsequence(samples, {i \in DOMAIN samples :
                            samples[i].at >= samples[Len(samples)].at - TrendFitWindow})

Span(fit) == fit[Len(fit)].at - fit[1].at

\* Mutant: any horizon will do.
MutHorizonUnchecked(fit, now, horizon) ==
    /\ horizon > 0 /\ Len(fit) >= MinimumSamples /\ Span(fit) >= MinimumSpan
    /\ fit[Len(fit)].at <= now + FutureSkew /\ now - fit[Len(fit)].at <= MaximumSampleAge
    /\ \A i \in 2..Len(fit) : fit[i].at - fit[i - 1].at \in 1..MaximumSampleGap

\* Enough recent, gap-free, finite samples for a trend as long as the horizon.
Fittable(fit, now, horizon) ==
    /\ horizon > 0
    /\ Len(fit) >= MinimumSamples
    /\ Span(fit) >= MinimumSpan
    /\ horizon <= Span(fit)
    /\ fit[Len(fit)].at <= now + FutureSkew
    /\ now - fit[Len(fit)].at <= MaximumSampleAge
    /\ \A i \in 1..Len(fit) : fit[i].value >= 0
    /\ \A i \in 2..Len(fit) : fit[i].at - fit[i - 1].at \in 1..MaximumSampleGap

\* n * sum(a*b) - sum(a)*sum(b), for two sequences of n numbers: n times the
\* variance or covariance sum of the code.
Covariance(a, b) ==
    Len(a) * SumFunction([i \in DOMAIN a |-> a[i] * b[i]]) - SumFunction(a) * SumFunction(b)

ValueRange(y) ==
    LET Spread(i, j) == y[i] - y[j]
    IN  CHOOSE d \in {Spread(i, j) : i, j \in DOMAIN y} :
            \A i, j \in DOMAIN y : Spread(i, j) <= d

\* A forecast that was not made.  rate / per is the forecast request rate, per
\* positive.
NoForecast ==
    [quality |-> "LOW", hasTrend |-> FALSE, hasRate |-> FALSE, slope |-> 0, rate |-> 0, per |-> 1]

\* Mutant: a rising line fits.
MutFitsWithin(r, e, n, vx, vy, c, range) == c > 0

\* R^2 >= r / 100 and normalized RMSE <= 1 / e, of variances vx and vy and
\* covariance c over n samples whose values span range.
FitsWithin(r, e, n, vx, vy, c, range) ==
    /\ 100 * c * c >= r * vx * vy
    /\ e * e * (vx * vy - c * c) <= n * n * vx * range * range

\* Mutant: a falling trend is extrapolated too.
MutRising(c) == TRUE

\* The slope is that of the covariance, the variance of the times being positive.
Rising(c) == c > 0

\* Least squares over the fit window, evaluated horizon after the last sample.
\* Every rejection leaves quality LOW; that the projected rate of a rising trend
\* over rates that are not negative is itself not negative needs no test here.
LinearForecast(samples, now, horizon) ==
    LET fit == FitSamples(samples)
        n   == Len(fit)
        x   == [i \in 1..n |-> fit[i].at - fit[1].at]
        y   == [i \in 1..n |-> fit[i].value]
        vx  == Covariance(x, x)
        vy  == Covariance(y, y)
        c   == Covariance(x, y)
        Within(r, e) == FitsWithin(r, e, n, vx, vy, c, ValueRange(y))
    IN  IF samples = <<>> \/ Len(samples) > MaxSamples \/ ~Fittable(fit, now, horizon) \/ vy = 0
          THEN NoForecast
        ELSE IF ~Rising(c)
          THEN [NoForecast EXCEPT !.hasTrend = TRUE, !.slope = c]
        ELSE [quality  |-> IF Within(95, 10) THEN "HIGH"
                           ELSE IF Within(85, 5) THEN "MEDIUM" ELSE "LOW",
              hasTrend |-> TRUE,
              hasRate  |-> TRUE,
              slope    |-> c,
              rate     |-> SumFunction(y) * vx + c * (n * (Span(fit) + horizon) - SumFunction(x)),
              per      |-> n * vx]

-----------------------------------------------------------------------------
\* The capacity estimate.

\* Mutant: the rank above the 20th percentile.
MutPercentileRank(n) == (n + 4) \div 5 + 1

\* Nearest rank of the 20th percentile of n values.
PercentileRank(n) == (n + 4) \div 5

\* The value of that rank in ascending order.
ConservativeValue(samples) ==
    LET Below(v) == {i \in DOMAIN samples : samples[i].value < v}
        AtMost(v) == {i \in DOMAIN samples : samples[i].value <= v}
        rank == PercentileRank(Len(samples))
    IN  CHOOSE v \in {samples[i].value : i \in DOMAIN samples} :
            Cardinality(Below(v)) < rank /\ rank <= Cardinality(AtMost(v))

\* Where there is an estimate: slots is the physical limit of a replica, margin
\* the safe fraction of it in percent.
CapacityKnown(samples, slots, margin) ==
    Len(samples) >= MinimumCapacitySamples /\ slots > 0 /\ margin \in 1..100

\* Safe requests per second of one replica, in hundredths.
SafePerReplicaCapacity(samples, slots, margin) == ConservativeValue(samples) * slots * margin

=============================================================================
