----------------------------- MODULE OneForecast -----------------------------
(***************************************************************************)
(* One forecast and one capacity estimate, of any history.  One behavior   *)
(* per question: the question, then its answer.                            *)
(*                                                                         *)
(* The names of the state and of its specification are those of no other   *)
(* module, for PredictionHistoryProofs joins this one with the memory.     *)
(***************************************************************************)
EXTENDS Forecast

CONSTANTS
    SampleHistories,    \* what a history may hold
    Ages,               \* how old its latest sample may be
    PlanningHorizons

\* Values below the floors of AppendSample are none the predictor keeps, but nothing
\* here rests on that.
ASSUME SampleHistoriesAssumption ==
    SampleHistories \subseteq Seq([at : Int, value : Int])

\* Horizons are durations, as horizons of spec.prediction are; the forecast itself
\* refuses one that is not positive.
ASSUME PlanningHorizonsAssumption == PlanningHorizons \subseteq Int

VARIABLES
    asked,      \* the question: [samples, age, horizon]
    answered    \* its forecast

forecastVars == <<asked, answered>>

Latest(s) == s[Len(s)].at

\* The forecast of these samples, for the horizon and at the time of the question.
Forecasted(samples) ==
    LinearForecast(samples, Latest(asked.samples) + asked.age, asked.horizon)

ForecastInit ==
    /\ asked \in [samples : SampleHistories, age : Ages, horizon : PlanningHorizons]
    /\ answered = NoForecast

ForecastOnce ==
    /\ answered' = Forecasted(asked.samples)
    /\ UNCHANGED asked

ForecastNext == ForecastOnce

ForecastSpec == ForecastInit /\ [][ForecastNext]_forecastVars

-----------------------------------------------------------------------------
\* What the fit window holds, said of the history and not by FitSamples.
Window ==
    LET s == asked.samples
    IN  Subsequence(s, {i \in DOMAIN s : s[i].at >= Latest(s) - TrendFitWindow})

Values(s) == {s[i].value : i \in DOMAIN s}
Highest(s) == CHOOSE v \in Values(s) : \A w \in Values(s) : w <= v
Lowest(s) == CHOOSE v \in Values(s) : \A w \in Values(s) : w >= v

\* A forecast that may prescale stays near what was measured: it never exceeds
\* the highest fitted rate by more than twice the range of the fitted rates
\* (LinearForecast refuses a horizon longer than the span of the fit).  It is
\* the error of the fit, as large as 20 samples let it be, that makes the second
\* range.
BoundedExtrapolation ==
    answered.quality = "HIGH" =>
        answered.rate <= answered.per * (3 * Highest(Window) - 2 * Lowest(Window))

\* What was measured before the fit window changes nothing: the same forecast
\* comes of the fitted samples alone (LinearForecast may be handed a history
\* longer than its window).
OnlyTheWindowCounts ==
    answered # NoForecast => answered = Forecasted(Window)

\* A forecast that was made is no lower than the mean of the fitted rates, and so
\* not negative: prediction speaks for more replicas or for nothing (LinearForecast
\* makes none of a trend that is flat or falling, and the test that follows, that
\* the projected rate is not negative, is never the one to refuse).
NeverBelowTheMean ==
    answered.hasRate =>
        LET n == Len(Window)
        IN  /\ answered.per > 0 /\ answered.rate >= 0
            /\ n * answered.rate
                 >= answered.per * SumFunction([i \in 1..n |-> Window[i].value])

\* A trend that is trusted is in the rates and not only in the line: the last
\* fitted rate exceeds the first by a tenth of their range or more, wherever in
\* the window the samples bunch (LinearForecast limits the mean of the squared
\* residuals, so the more samples there are the more a single one may stray).
TrendIsInTheRates ==
    answered.quality = "HIGH" =>
        10 * (Window[Len(Window)].value - Window[1].value) >= Highest(Window) - Lowest(Window)

\* The efficiency credited to every replica was reached or exceeded by at least
\* four fifths of the samples (SafePerReplicaCapacity, nearest rank 20th
\* percentile), and by all of them when there are no more than five; and it is no
\* less than the least of them: one of the samples.
CapacityIsConservative ==
    LET s == asked.samples
        v == ConservativeValue(s)
        reached == Cardinality({i \in DOMAIN s : s[i].value >= v})
    IN  s # <<>> =>
            /\ v \in Values(s)
            /\ 5 * reached >= 4 * Len(s)
            /\ Len(s) <= 5 => reached = Len(s)

=============================================================================
