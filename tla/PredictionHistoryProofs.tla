---------------------- MODULE PredictionHistoryProofs ----------------------
(***************************************************************************)
(* Theorems about the predictor's memory, for every set of resources,      *)
(* capacity, retention, window and lag, and their proofs.  With them, for  *)
(* they rest on the same facts about histories, those about the forecast   *)
(* and the capacity estimate (OneForecast) of every history.               *)
(***************************************************************************)
EXTENDS PredictionHistory, OneForecast, FiniteSetTheorems, TLAPS

-----------------------------------------------------------------------------
\* Least elements.

\* Every set of natural numbers that is not empty has a least element.
LEMMA LeastNumber ==
    ASSUME NEW T, T \subseteq Nat, T # {}
    PROVE  \E m \in T : \A n \in T : m <= n
<1>1. PICK m \in T : \A n \in T : ~(<<n, m>> \in OpToRel(<, Nat))
  BY NatLessThanWellFounded, WFMin
<1>2. OpToRel(<, Nat) = {pair \in Nat \X Nat : pair[1] < pair[2]}
  BY Zenon DEF OpToRel
<1>3. ASSUME NEW n \in T PROVE m <= n
  <2>1. SUFFICES ASSUME n < m PROVE FALSE
    OBVIOUS
  <2>2. <<n, m>> \in {pair \in Nat \X Nat : pair[1] < pair[2]}
    BY <2>1
  <2> QED
    BY <1>1, <1>2, <2>2
<1> QED
  BY <1>3

-----------------------------------------------------------------------------
\* Subsequences.

\* The positions up to m.
UpTo(P, m) == {k \in P : k <= m}

\* Counting positions: one more position makes one more, and never fewer.
LEMMA UpToFacts ==
    ASSUME NEW n \in Nat, NEW P, P \subseteq 1..n
    PROVE  /\ \A p \in P : p \in Int /\ 1 <= p /\ p <= n
           /\ IsFiniteSet(P) /\ Cardinality(P) \in Nat
           /\ \A m \in Int : /\ IsFiniteSet(UpTo(P, m))
                             /\ Cardinality(UpTo(P, m)) \in Nat
                             /\ Cardinality(UpTo(P, m)) <= Cardinality(P)
           /\ UpTo(P, 0) = {}
           /\ UpTo(P, n) = P
           /\ \A a, b \in Int : a <= b => Cardinality(UpTo(P, a)) <= Cardinality(UpTo(P, b))
<1>1. \A p \in P : p \in Int /\ 1 <= p /\ p <= n
  OBVIOUS
<1>2. IsFiniteSet(P) /\ Cardinality(P) \in Nat
  <2>1. IsFiniteSet(1..n)
    BY FS_Interval
  <2>2. IsFiniteSet(P)
    BY <2>1, FS_Subset
  <2> QED
    BY <2>2, FS_CardinalityType
<1>3. ASSUME NEW m \in Int
      PROVE  /\ IsFiniteSet(UpTo(P, m))
             /\ Cardinality(UpTo(P, m)) \in Nat
             /\ Cardinality(UpTo(P, m)) <= Cardinality(P)
  <2>1. UpTo(P, m) \in SUBSET P
    BY DEF UpTo
  <2> QED
    BY <1>2, <2>1, FS_Subset, FS_CardinalityType
<1>4. UpTo(P, 0) = {}
  <2>1. \A p \in P : ~(p <= 0)
    BY <1>1
  <2> QED
    BY <2>1 DEF UpTo
<1>5. UpTo(P, n) = P
  <2>1. \A p \in P : p <= n
    BY <1>1
  <2> QED
    BY <2>1, Zenon DEF UpTo
<1>6. ASSUME NEW a \in Int, NEW b \in Int, a <= b
      PROVE  Cardinality(UpTo(P, a)) <= Cardinality(UpTo(P, b))
  <2>1. \A p \in P : p <= a => p <= b
    BY <1>1, <1>6
  <2>2. UpTo(P, a) \in SUBSET UpTo(P, b)
    BY <2>1, Zenon DEF UpTo
  <2> QED
    BY <1>3, <2>2, FS_Subset
<1> QED
  BY <1>1, <1>2, <1>3, <1>4, <1>5, <1>6

\* One position more counts one more.
LEMMA UpToMember ==
    ASSUME NEW n \in Nat, NEW P, P \subseteq 1..n, NEW m \in P
    PROVE  Cardinality(UpTo(P, m)) = Cardinality(UpTo(P, m - 1)) + 1
<1>1. m \in Int /\ m - 1 \in Int
  BY UpToFacts
<1>2. \A p \in P : p <= m <=> p <= m - 1 \/ p = m
  BY <1>1, UpToFacts
<1>3. ~(m <= m - 1)
  BY <1>1
<1>4. UpTo(P, m) = UpTo(P, m - 1) \union {m} /\ m \notin UpTo(P, m - 1)
  BY <1>2, <1>3, Zenon DEF UpTo
<1>5. IsFiniteSet(UpTo(P, m - 1))
  BY <1>1, UpToFacts
<1> QED
  BY <1>4, <1>5, FS_AddElement

\* A number that is no position counts none.
LEMMA UpToOther ==
    ASSUME NEW n \in Nat, NEW P, P \subseteq 1..n, NEW m \in Int, m \notin P
    PROVE  UpTo(P, m) = UpTo(P, m - 1)
<1>1. \A p \in P : p <= m <=> p <= m - 1
  BY UpToFacts
<1> QED
  BY <1>1, Zenon DEF UpTo

\* Among the positions the j-th smallest exists.
LEMMA NthFacts ==
    ASSUME NEW n \in Nat, NEW P, P \subseteq 1..n,
           NEW j \in 1..Cardinality(P)
    PROVE  Nth(P, j) \in P /\ Cardinality(UpTo(P, Nth(P, j))) = j
<1> DEFINE T == {m \in Nat : Cardinality(UpTo(P, m)) >= j}
<1>1. /\ \A p \in P : p \in Int /\ 1 <= p /\ p <= n
      /\ Cardinality(P) \in Nat
      /\ \A m \in Int : Cardinality(UpTo(P, m)) \in Nat
  BY UpToFacts
<1>11. /\ UpTo(P, 0) = {}
      /\ UpTo(P, n) = P
  BY UpToFacts
<1>2. n \in T /\ T \subseteq Nat
  BY <1>1, <1>11
<1>3. PICK m \in T : \A k \in T : m <= k
  <2> HIDE DEF T
  <2> QED
    BY <1>2, LeastNumber
<1>4. m \in Nat /\ Cardinality(UpTo(P, m)) >= j
  OBVIOUS
<1>5. m # 0
  <2>1. Cardinality(UpTo(P, 0)) = 0
    BY <1>11, FS_EmptySet
  <2> QED
    BY <1>4, <2>1
<1>6. m - 1 \in Nat /\ Cardinality(UpTo(P, m - 1)) < j
  <2>1. m - 1 \in Nat /\ ~(m <= m - 1)
    BY <1>4, <1>5
  <2>2. m - 1 \notin T
    BY <1>3, <2>1
  <2>3. Cardinality(UpTo(P, m - 1)) \in Nat
    BY <1>1, <2>1
  <2> QED
    BY <2>1, <2>2, <2>3
<1>7. m \in P
  <2>1. SUFFICES ASSUME m \notin P PROVE FALSE
    OBVIOUS
  <2>2. UpTo(P, m) = UpTo(P, m - 1)
    <3>1. m \in Int
      BY <1>4
    <3> QED
      BY <2>1, <3>1, UpToOther
  <2>3. Cardinality(UpTo(P, m - 1)) \in Nat
    BY <1>1, <1>6
  <2> QED
    BY <1>4, <1>6, <2>2, <2>3
<1>8. Cardinality(UpTo(P, m)) = j
  <2>1. Cardinality(UpTo(P, m)) = Cardinality(UpTo(P, m - 1)) + 1
    BY <1>7, UpToMember
  <2>2. Cardinality(UpTo(P, m - 1)) \in Nat
    BY <1>1, <1>6
  <2> QED
    BY <1>4, <1>6, <2>1, <2>2
<1>9. \E i \in P : Cardinality(UpTo(P, i)) = j
  BY <1>7, <1>8
<1>10. Nth(P, j) = CHOOSE i \in P : Cardinality(UpTo(P, i)) = j
  BY Zenon DEF Nth, UpTo
<1> QED
  BY <1>9, <1>10

\* A larger rank is a larger position.
LEMMA NthIncreasing ==
    ASSUME NEW n \in Nat, NEW P, P \subseteq 1..n,
           NEW i \in 1..Cardinality(P), NEW j \in 1..Cardinality(P), i < j
    PROVE  Nth(P, i) < Nth(P, j)
<1>1. /\ Nth(P, i) \in P /\ Cardinality(UpTo(P, Nth(P, i))) = i
      /\ Nth(P, j) \in P /\ Cardinality(UpTo(P, Nth(P, j))) = j
  BY NthFacts
<1>2. /\ \A p \in P : p \in Int
      /\ \A a, b \in Int : a <= b => Cardinality(UpTo(P, a)) <= Cardinality(UpTo(P, b))
  BY UpToFacts
<1>3. Nth(P, i) \in Int /\ Nth(P, j) \in Int
  BY <1>1, <1>2
<1>4. SUFFICES ASSUME Nth(P, j) <= Nth(P, i) PROVE FALSE
  BY <1>3
<1>5. Cardinality(UpTo(P, Nth(P, j))) <= Cardinality(UpTo(P, Nth(P, i)))
  BY <1>2, <1>3, <1>4
<1> QED
  BY <1>1, <1>5

\* Every position has a rank.
LEMMA NthOnto ==
    ASSUME NEW n \in Nat, NEW P, P \subseteq 1..n, NEW p \in P
    PROVE  \E j \in 1..Cardinality(P) : Nth(P, j) = p
<1> DEFINE j == Cardinality(UpTo(P, p))
<1>1. /\ \A q \in P : q \in Int
      /\ Cardinality(P) \in Nat
  BY UpToFacts
<1>11. \A m \in Int : Cardinality(UpTo(P, m)) \in Nat
                     /\ Cardinality(UpTo(P, m)) <= Cardinality(P)
  BY UpToFacts
<1>12. \A a, b \in Int : a <= b => Cardinality(UpTo(P, a)) <= Cardinality(UpTo(P, b))
  BY UpToFacts
<1>2. ASSUME NEW a \in P, NEW b \in P, a < b
      PROVE  Cardinality(UpTo(P, a)) < Cardinality(UpTo(P, b))
  <2>1. a \in Int /\ b \in Int /\ b - 1 \in Int /\ a <= b - 1
    BY <1>1, <1>2
  <2>2. Cardinality(UpTo(P, a)) <= Cardinality(UpTo(P, b - 1))
    BY <1>11, <1>12, <2>1
  <2>3. Cardinality(UpTo(P, b)) = Cardinality(UpTo(P, b - 1)) + 1
    BY UpToMember
  <2>4. Cardinality(UpTo(P, a)) \in Nat /\ Cardinality(UpTo(P, b - 1)) \in Nat
    BY <1>11, <1>12, <2>1
  <2> QED
    BY <2>2, <2>3, <2>4
<1>3. p \in Int /\ p - 1 \in Int
  BY <1>1
<1>4. j \in 1..Cardinality(P)
  <2>1. j = Cardinality(UpTo(P, p - 1)) + 1 /\ Cardinality(UpTo(P, p - 1)) \in Nat
    BY <1>11, <1>3, UpToMember
  <2>2. j \in Nat /\ j <= Cardinality(P)
    BY <1>11, <1>3, UpToMember
  <2> QED
    BY <1>1, <2>1, <2>2
<1> HIDE DEF j
<1>5. Nth(P, j) \in P /\ Cardinality(UpTo(P, Nth(P, j))) = j
  BY <1>4, NthFacts
<1>6. Nth(P, j) \in Int
  BY <1>1, <1>5
<1>7. ~(Nth(P, j) < p) /\ ~(p < Nth(P, j))
  <2>1. j \in Int /\ j = Cardinality(UpTo(P, p))
    BY <1>4 DEF j
  <2>2. ~(j < j)
    BY <2>1
  <2>3. Nth(P, j) < p => j < j
    BY <1>2, <1>5, <2>1
  <2>4. p < Nth(P, j) => j < j
    BY <1>2, <1>5, <2>1
  <2> QED
    BY <2>2, <2>3, <2>4
<1>8. Nth(P, j) = p
  BY <1>3, <1>6, <1>7
<1> QED
  BY <1>4, <1>8

\* A subsequence holds what is at its positions, in their order.
LEMMA SubsequenceFacts ==
    ASSUME NEW S, NEW s \in Seq(S), NEW P, P \subseteq DOMAIN s
    PROVE  /\ Cardinality(P) \in Nat
           /\ Subsequence(s, P) \in Seq(S)
           /\ Len(Subsequence(s, P)) = Cardinality(P)
           /\ \A j \in 1..Cardinality(P) : /\ Nth(P, j) \in P
                                           /\ Subsequence(s, P)[j] = s[Nth(P, j)]
<1>1. Len(s) \in Nat /\ P \subseteq 1..Len(s)
  OBVIOUS
<1>2. Cardinality(P) \in Nat
  BY <1>1, UpToFacts
<1>3. \A j \in 1..Cardinality(P) : Nth(P, j) \in P
  BY <1>1, NthFacts
<1>4. \A j \in 1..Cardinality(P) : s[Nth(P, j)] \in S
  BY <1>3
<1>5. /\ Subsequence(s, P) \in Seq(S)
      /\ Len(Subsequence(s, P)) = Cardinality(P)
  BY <1>2, <1>4 DEF Subsequence
<1> QED
  BY <1>2, <1>3, <1>5 DEF Subsequence

-----------------------------------------------------------------------------
\* Forecasts.

Sample == [at : Int, value : Int]

\* All positions make the sequence itself.
LEMMA SubsequenceOfAll ==
    ASSUME NEW S, NEW s \in Seq(S)
    PROVE  Subsequence(s, DOMAIN s) = s
<1> DEFINE n == Len(s)
           P == 1..n
<1>1. n \in Nat /\ DOMAIN s = P /\ s = [j \in P |-> s[j]]
  OBVIOUS
<1>2. Cardinality(P) = n
  BY <1>1, FS_Interval
<1>3. ASSUME NEW j \in P PROVE Nth(P, j) = j
  <2>1. Nth(P, j) \in P /\ Cardinality(UpTo(P, Nth(P, j))) = j
    BY <1>1, <1>2, NthFacts
  <2> DEFINE m == Nth(P, j)
  <2>2. m \in Int /\ 1 <= m /\ m <= n
    BY <1>1, <2>1
  <2> HIDE DEF m
  <2>3. UpTo(P, m) = 1..m
    BY <1>1, <2>2 DEF UpTo
  <2>4. Cardinality(1..m) = m
    BY <2>2, FS_Interval
  <2> QED
    BY <2>1, <2>3, <2>4 DEF m
<1>4. Subsequence(s, P) = [j \in 1..n |-> s[Nth(P, j)]]
  BY <1>2 DEF Subsequence
<1> QED
  BY <1>1, <1>3, <1>4

\* The fit window of a fit is the fit: its latest sample is that of the history.
LEMMA FitIsItsOwnWindow ==
    ASSUME NEW s \in Seq(Sample), s # <<>>
    PROVE  /\ FitSamples(s) \in Seq(Sample) /\ FitSamples(s) # <<>>
           /\ Len(FitSamples(s)) <= Len(s)
           /\ FitSamples(FitSamples(s)) = FitSamples(s)
<1> DEFINE n == Len(s)
           P == {i \in DOMAIN s : s[i].at >= s[n].at - TrendFitWindow}
           c == Cardinality(P)
           fit == Subsequence(s, P)
<1>1. /\ n \in Nat \ {0} /\ DOMAIN s = 1..n /\ P \subseteq 1..n /\ TrendFitWindow \in Nat
      /\ \A i \in 1..n : s[i].at \in Int
  <2>1. n \in Nat \ {0} /\ DOMAIN s = 1..n
    OBVIOUS
  <2>2. P \subseteq 1..n
    BY <2>1
  <2>3. TrendFitWindow \in Nat
    BY ForecastAssumption
  <2>4. ASSUME NEW i \in 1..n PROVE s[i].at \in Int
    <3>1. s[i] \in Sample
      BY <2>1
    <3> QED
      BY <3>1 DEF Sample
  <2> QED
    BY <2>1, <2>2, <2>3, <2>4
<1>2. n \in P
  BY <1>1
<1>3. FitSamples(s) = fit
  BY DEF FitSamples
<1>4. /\ c \in Nat /\ fit \in Seq(Sample) /\ Len(fit) = c
      /\ \A j \in 1..c : Nth(P, j) \in P /\ fit[j] = s[Nth(P, j)]
  BY <1>1, SubsequenceFacts
<1>5. \A i \in P : i \in 1..n /\ s[i].at >= s[n].at - TrendFitWindow
  OBVIOUS
<1> HIDE DEF P, fit, c
<1>6. PICK j \in 1..c : Nth(P, j) = n
  BY <1>1, <1>2, NthOnto DEF c
<1>7. c \in 1..c /\ Nth(P, c) = n
  <2>1. c \in 1..c
    BY <1>4, <1>6
  <2>2. Nth(P, c) \in 1..n
    BY <1>4, <1>5, <2>1
  <2>3. j < c => n < Nth(P, c)
    BY <1>1, <1>6, <2>1, NthIncreasing DEF c
  <2>4. j = c
    BY <1>1, <1>4, <2>2, <2>3
  <2> QED
    BY <1>6, <2>1, <2>4
<1>8. fit[c] = s[n]
  BY <1>4, <1>7
<1>9. \A k \in 1..c : fit[k].at >= fit[Len(fit)].at - TrendFitWindow
  BY <1>4, <1>5, <1>8
<1>10. DOMAIN fit = 1..c
  BY <1>4
<1>11. {k \in DOMAIN fit : fit[k].at >= fit[Len(fit)].at - TrendFitWindow} = DOMAIN fit
  BY <1>9, <1>10
<1>12. FitSamples(fit) = fit
  BY <1>4, <1>11, SubsequenceOfAll DEF FitSamples
<1>13. fit # <<>>
  BY <1>4, <1>7
<1>14. c <= n
  <2>1. IsFiniteSet(1..n) /\ Cardinality(1..n) = n
    BY <1>1, FS_Interval
  <2> QED
    BY <1>1, <2>1, FS_Subset DEF c
<1> QED
  BY <1>3, <1>4, <1>12, <1>13, <1>14

\* A forecast knows a history, if it is not too long for one, by its fit alone.
LEMMA ForecastOfFit ==
    ASSUME NEW a, NEW b, FitSamples(a) = FitSamples(b), a # <<>>, b # <<>>,
           ~(Len(a) > MaxSamples), ~(Len(b) > MaxSamples), NEW time, NEW ahead
    PROVE  LinearForecast(a, time, ahead) = LinearForecast(b, time, ahead)
BY DEF LinearForecast

\* One question, and nothing but its forecast.
Answers ==
    /\ asked \in [samples : SampleHistories, age : Ages, horizon : PlanningHorizons]
    /\ answered \in {NoForecast, Forecasted(asked.samples)}

\* The forecast of the question, or none yet, is all there ever is.
LEMMA SpecAnswers == ForecastSpec => []Answers
<1>1. ForecastInit => Answers
  BY DEF ForecastInit, Answers
<1>2. Answers /\ [ForecastNext]_forecastVars => Answers'
  BY DEF Answers, ForecastNext, ForecastOnce, forecastVars, Forecasted, Latest
<1> QED
  BY <1>1, <1>2, PTL DEF ForecastSpec

\* Whatever a history holds before its fit window, the forecast is that of the window.
THEOREM WindowDecides == ForecastSpec => []OnlyTheWindowCounts
<1>1. ASSUME Answers PROVE OnlyTheWindowCounts
  <2> SUFFICES ASSUME answered # NoForecast PROVE answered = Forecasted(Window)
    BY DEF OnlyTheWindowCounts
  <2> DEFINE s == asked.samples
  <2>1. s \in Seq(Sample) /\ answered = Forecasted(s)
    BY <1>1, SampleHistoriesAssumption DEF Answers, Sample
  <2>2. s # <<>> /\ ~(Len(s) > MaxSamples)
    BY <2>1 DEF Forecasted, LinearForecast
  <2>3. Window = FitSamples(s)
    BY DEF Window, FitSamples, Latest
  <2>4. /\ Window # <<>> /\ FitSamples(Window) = FitSamples(s)
        /\ Window \in Seq(Sample) /\ Len(Window) <= Len(s)
    BY <2>1, <2>2, <2>3, FitIsItsOwnWindow
  <2>5. ~(Len(Window) > MaxSamples)
    <3>1. Len(Window) \in Nat /\ Len(s) \in Nat /\ MaxSamples \in Nat
      BY <2>1, <2>4, ForecastAssumption
    <3> QED
      BY <2>2, <2>4, <3>1
  <2> QED
    BY <2>1, <2>2, <2>4, <2>5, ForecastOfFit DEF Forecasted
<1> QED
  BY <1>1, SpecAnswers, PTL

\* Of some positions, one holds the greatest number.
LEMMA GreatestPosition ==
    ASSUME NEW n \in Nat, NEW f \in [1..n -> Int], NEW P, P \subseteq 1..n, P # {}
    PROVE  \E i \in P : \A j \in P : f[j] <= f[i]
<1> DEFINE Above(i) == {k \in P : f[k] > f[i]}
           T == {Cardinality(Above(i)) : i \in P}
<1>1. IsFiniteSet(P)
  BY UpToFacts
<1>2. \A i \in P : IsFiniteSet(Above(i)) /\ Cardinality(Above(i)) \in Nat
  <2> TAKE i \in P
  <2>1. Above(i) \in SUBSET P
    OBVIOUS
  <2> QED
    BY <1>1, <2>1, FS_Subset, FS_CardinalityType
<1>3. T \subseteq Nat /\ T # {}
  BY <1>2
<1>4. PICK m \in T : \A k \in T : m <= k
  <2> HIDE DEF T
  <2> QED
    BY <1>3, LeastNumber
<1>5. PICK i \in P : m = Cardinality(Above(i))
  OBVIOUS
<1>6. ASSUME NEW j \in P PROVE f[j] <= f[i]
  <2>1. f[i] \in Int /\ f[j] \in Int /\ \A k \in P : f[k] \in Int
    OBVIOUS
  <2>2. SUFFICES ASSUME f[j] > f[i] PROVE FALSE
    BY <2>1
  <2>3. j \in Above(i) /\ j \notin Above(j)
    BY <2>1, <2>2
  <2>4. \A k \in P : f[k] > f[j] => f[k] > f[i]
    BY <2>1, <2>2
  <2>5. Above(j) \subseteq Above(i)
    BY <2>4
  <2>6. m <= Cardinality(Above(j))
    BY <1>4
  <2>7. IsFiniteSet(Above(i)) /\ Cardinality(Above(i)) \in Nat /\ Cardinality(Above(j)) \in Nat
    BY <1>2
  <2> HIDE DEF Above
  <2>8. Cardinality(Above(j)) < Cardinality(Above(i))
    <3>1. Above(j) \in SUBSET Above(i) /\ Above(j) # Above(i)
      BY <2>3, <2>5
    <3>2. /\ Cardinality(Above(j)) <= Cardinality(Above(i))
          /\ Cardinality(Above(i)) = Cardinality(Above(j)) => Above(i) = Above(j)
      BY <2>7, <3>1, FS_Subset
    <3> QED
      BY <2>7, <3>1, <3>2
  <2> QED
    BY <1>5, <2>6, <2>7, <2>8
<1> QED
  BY <1>6

-----------------------------------------------------------------------------
\* Sums.

\* A member of s, the one SumFunction takes first.
First(s) == CHOOSE x \in s : TRUE

\* SumFunction without its fold.
LEMMA SumFunctionDef ==
    ASSUME NEW f
    PROVE  SumFunction(f) =
             (CHOOSE g : g = [s \in SUBSET DOMAIN f |->
                 IF s = {} THEN 0 ELSE f[First(s)] + g[s \ {First(s)}]])[DOMAIN f]
BY Zenon DEF SumFunction, SumFunctionOnSet, FoldFunctionOnSet, MapThenFoldSet, First

\* g holds the sums of f over the sets of its positions, whichever is taken first.
Sums(g, f, D) ==
    /\ g \in [SUBSET D -> Int]
    /\ g[{}] = 0
    /\ \A s \in SUBSET D : \A x \in s : g[s] = f[x] + g[s \ {x}]

\* The sets of at most k positions, and g defined on them as SumFunction takes
\* their members.
UpToSize(D, k) == {s \in SUBSET D : Cardinality(s) <= k}

Iterates(g, f, D, k) ==
    /\ g \in [UpToSize(D, k) -> Int]
    /\ \A s \in UpToSize(D, k) :
          g[s] = IF s = {} THEN 0 ELSE f[First(s)] + g[s \ {First(s)}]

\* A set without one of its members is smaller by one.
LEMMA WithoutOne ==
    ASSUME NEW D, IsFiniteSet(D), NEW s \in SUBSET D, NEW x \in s
    PROVE  /\ s \ {x} \in SUBSET D
           /\ Cardinality(s) \in Nat /\ Cardinality(s \ {x}) \in Nat
           /\ Cardinality(s \ {x}) = Cardinality(s) - 1
<1>1. IsFiniteSet(s)
  BY FS_Subset
<1>2. IsFiniteSet(s \ {x}) /\ Cardinality(s \ {x}) = Cardinality(s) - 1
  BY <1>1, FS_RemoveElement
<1> QED
  BY <1>1, <1>2, FS_CardinalityType

\* Induction over the subsets of a finite set, of a set of them in place of a
\* predicate.
LEMMA SubsetInduction ==
    ASSUME NEW D, IsFiniteSet(D), NEW B, {} \in B,
           \A s \in SUBSET D : s # {} /\ (\A x \in s : s \ {x} \in B) => s \in B
    PROVE  SUBSET D \subseteq B
<1> DEFINE T == {Cardinality(s) : s \in (SUBSET D) \ B}
<1>1. \A s \in SUBSET D : Cardinality(s) \in Nat
  BY FS_Subset, FS_CardinalityType
<1>2. SUFFICES ASSUME T # {} PROVE FALSE
  OBVIOUS
<1>3. PICK m \in T : \A k \in T : m <= k
  <2>1. T \subseteq Nat
    BY <1>1
  <2> HIDE DEF T
  <2> QED
    BY <1>2, <2>1, LeastNumber
<1>4. PICK s \in (SUBSET D) \ B : m = Cardinality(s)
  OBVIOUS
<1>5. ASSUME NEW x \in s PROVE s \ {x} \in B
  <2>1. /\ s \ {x} \in SUBSET D
        /\ Cardinality(s) \in Nat /\ Cardinality(s \ {x}) \in Nat
        /\ Cardinality(s \ {x}) = Cardinality(s) - 1
    BY WithoutOne
  <2>2. ~(Cardinality(s) <= Cardinality(s \ {x}))
    BY <2>1
  <2>3. Cardinality(s \ {x}) \notin T
    BY <1>3, <1>4, <2>2
  <2> QED
    BY <2>1, <2>3
<1> QED
  BY <1>4, <1>5

\* The sums exist, up to any size.
LEMMA IteratesExist ==
    ASSUME NEW D, IsFiniteSet(D), NEW f \in [D -> Int], NEW k \in Nat
    PROVE  \E g : Iterates(g, f, D, k)
<1> DEFINE T == {m \in Nat : ~ \E g : Iterates(g, f, D, m)}
<1>1. SUFFICES T = {}
  OBVIOUS
<1>2. SUFFICES ASSUME T # {} PROVE FALSE
  OBVIOUS
<1>3. PICK m \in T : \A j \in T : m <= j
  <2>1. T \subseteq Nat
    OBVIOUS
  <2> HIDE DEF T
  <2> QED
    BY <1>2, <2>1, LeastNumber
<1>4. m \in Nat /\ ~ \E g : Iterates(g, f, D, m)
  OBVIOUS
<1>5. \A s \in SUBSET D : IsFiniteSet(s) /\ Cardinality(s) \in Nat
  BY FS_Subset, FS_CardinalityType
<1>6. m # 0
  <2> SUFFICES ASSUME m = 0 PROVE FALSE
    OBVIOUS
  <2> DEFINE g == [s \in UpToSize(D, 0) |-> 0]
  <2>1. ASSUME NEW s \in UpToSize(D, 0) PROVE s = {}
    <3>1. IsFiniteSet(s) /\ Cardinality(s) \in Nat /\ Cardinality(s) <= 0
      BY <1>5 DEF UpToSize
    <3>2. Cardinality(s) = 0
      BY <3>1
    <3> QED
      BY <3>1, <3>2, FS_EmptySet
  <2>2. Iterates(g, f, D, 0)
    BY <2>1 DEF Iterates
  <2> QED
    BY <1>4, <2>2
<1>7. m - 1 \in Nat /\ m - 1 \notin T
  <2>1. m - 1 \in Nat /\ ~(m <= m - 1)
    BY <1>4, <1>6
  <2> QED
    BY <1>3, <2>1
<1>8. PICK g : Iterates(g, f, D, m - 1)
  BY <1>7
<1> HIDE DEF T
<1> DEFINE h == [s \in UpToSize(D, m) |->
                   IF s = {} THEN 0 ELSE f[First(s)] + g[s \ {First(s)}]]
<1>9. ASSUME NEW s \in UpToSize(D, m), s # {}
      PROVE  First(s) \in D /\ s \ {First(s)} \in UpToSize(D, m - 1)
  <2>1. First(s) \in s /\ s \in SUBSET D /\ Cardinality(s) <= m
    BY <1>9 DEF First, UpToSize
  <2>2. /\ s \ {First(s)} \in SUBSET D /\ Cardinality(s) \in Nat
        /\ Cardinality(s \ {First(s)}) = Cardinality(s) - 1
    BY <2>1, WithoutOne
  <2>3. Cardinality(s \ {First(s)}) <= m - 1
    BY <1>4, <2>1, <2>2
  <2> QED
    BY <2>1, <2>2, <2>3, Zenon DEF UpToSize
<1>10. ASSUME NEW s \in UpToSize(D, m - 1)
       PROVE  s \in UpToSize(D, m) /\ h[s] = g[s]
  <2>1. s \in SUBSET D /\ Cardinality(s) <= m - 1
    BY DEF UpToSize
  <2>2. Cardinality(s) \in Nat
    BY <1>5, <2>1
  <2>3. Cardinality(s) <= m
    BY <1>4, <2>1, <2>2
  <2>4. s \in UpToSize(D, m)
    BY <2>1, <2>3 DEF UpToSize
  <2>5. h[s] = IF s = {} THEN 0 ELSE f[First(s)] + g[s \ {First(s)}]
    BY <2>4
  <2> HIDE DEF h
  <2> QED
    BY <1>8, <2>4, <2>5 DEF Iterates
<1>11. h \in [UpToSize(D, m) -> Int]
  <2>1. ASSUME NEW s \in UpToSize(D, m), s # {}
        PROVE  f[First(s)] + g[s \ {First(s)}] \in Int
    <3>1. f[First(s)] \in Int
      BY <1>9, <2>1
    <3>2. g[s \ {First(s)}] \in Int
      BY <1>8, <1>9, <2>1 DEF Iterates
    <3> QED
      BY <3>1, <3>2
  <2> QED
    BY <2>1
<1>12. ASSUME NEW s \in UpToSize(D, m)
       PROVE  h[s] = IF s = {} THEN 0 ELSE f[First(s)] + h[s \ {First(s)}]
  <2>1. h[s] = IF s = {} THEN 0 ELSE f[First(s)] + g[s \ {First(s)}]
    OBVIOUS
  <2> HIDE DEF h
  <2>2. s # {} => h[s \ {First(s)}] = g[s \ {First(s)}]
    BY <1>9, <1>10
  <2> QED
    BY <2>1, <2>2, Zenon
<1> HIDE DEF h
<1>13. Iterates(h, f, D, m)
  BY <1>11, <1>12, Zenon DEF Iterates
<1> QED
  BY <1>4, <1>13

\* SumFunction is a sum: of all positions of what Sums describes.
LEMMA SumFacts ==
    ASSUME NEW D, IsFiniteSet(D), NEW f \in [D -> Int]
    PROVE  \E g : Sums(g, f, D) /\ SumFunction(f) = g[D]
<1> DEFINE Step(g) == [s \in SUBSET D |-> IF s = {} THEN 0 ELSE f[First(s)] + g[s \ {First(s)}]]
           g == CHOOSE h : h = Step(h)
<1>1. \A s \in SUBSET D : IsFiniteSet(s) /\ Cardinality(s) \in Nat
  BY FS_Subset, FS_CardinalityType
<1>2. UpToSize(D, Cardinality(D)) = SUBSET D
  <2>1. \A s \in SUBSET D : Cardinality(s) <= Cardinality(D)
    BY FS_Subset
  <2> QED
    BY <2>1, Zenon DEF UpToSize
<1>3. \E h : h = Step(h)
  <2>1. Cardinality(D) \in Nat
    BY FS_CardinalityType
  <2>2. PICK h : Iterates(h, f, D, Cardinality(D))
    BY <2>1, IteratesExist
  <2>3. /\ h \in [SUBSET D -> Int]
        /\ \A s \in SUBSET D : h[s] = IF s = {} THEN 0 ELSE f[First(s)] + h[s \ {First(s)}]
    BY <1>2, <2>2, Zenon DEF Iterates
  <2>4. h = Step(h)
    BY <2>3
  <2> QED
    BY <2>4
<1>4. g = Step(g)
  BY <1>3
<1>5. SumFunction(f) = g[D]
  <2>1. DOMAIN f = D
    OBVIOUS
  <2> QED
    BY <2>1, SumFunctionDef, Zenon
<1> HIDE DEF g
<1>6. DOMAIN g = SUBSET D
  BY <1>4
<1>7. \A s \in SUBSET D : g[s] = IF s = {} THEN 0 ELSE f[First(s)] + g[s \ {First(s)}]
  <2> TAKE s \in SUBSET D
  <2>1. g[s] = Step(g)[s]
    BY <1>4
  <2> QED
    BY <2>1
<1> HIDE DEF Step
<1>8. ASSUME NEW s \in SUBSET D, s # {}
      PROVE  /\ First(s) \in s /\ s \ {First(s)} \in SUBSET D
             /\ g[s] = f[First(s)] + g[s \ {First(s)}]
  <2>1. First(s) \in s
    BY <1>8 DEF First
  <2> QED
    BY <1>7, <1>8, <2>1
<1>9. g[{}] = 0
  BY <1>7
<1> DEFINE Good(s) == /\ g[s] \in Int
                      /\ \A x \in s : g[s \ {x}] \in Int /\ g[s] = f[x] + g[s \ {x}]
           B == {s \in SUBSET D : Good(s)}
<1>10. {} \in B
  BY <1>9
<1>11. ASSUME NEW s \in SUBSET D, s # {}, \A x \in s : s \ {x} \in B
       PROVE  s \in B
  <2> DEFINE c == First(s)
  <2>1. c \in s /\ f[c] \in Int /\ g[s] = f[c] + g[s \ {c}]
    BY <1>8, <1>11
  <2> HIDE DEF c
  <2>2. \A x \in s : Good(s \ {x})
    BY <1>11
  <2>3. g[s] \in Int
    BY <2>1, <2>2
  <2>4. ASSUME NEW x \in s, x # c PROVE g[s] = f[x] + g[s \ {x}]
    <3>1. /\ g[s \ {c}] = f[x] + g[(s \ {c}) \ {x}]
          /\ g[(s \ {c}) \ {x}] \in Int
      BY <2>1, <2>2, <2>4
    <3>2. g[s \ {x}] = f[c] + g[(s \ {x}) \ {c}]
      BY <2>1, <2>2, <2>4
    <3>3. g[(s \ {c}) \ {x}] = g[(s \ {x}) \ {c}]
      <4>1. (s \ {c}) \ {x} = (s \ {x}) \ {c}
        OBVIOUS
      <4> QED
        BY <4>1, Zenon
    <3>4. f[x] \in Int
      OBVIOUS
    <3> HIDE DEF Good, B
    <3> QED
      BY <2>1, <3>1, <3>2, <3>3, <3>4
  <2> QED
    BY <2>1, <2>2, <2>3, <2>4
<1>12. \A s \in SUBSET D : Good(s)
  <2>1. SUBSET D \subseteq B
    <3> HIDE DEF B
    <3> QED
      BY <1>10, <1>11, SubsetInduction
  <2> QED
    BY <2>1
<1>13. g \in [SUBSET D -> Int]
  <2>1. g = [s \in SUBSET D |-> g[s]]
    <3>1. g = Step(g)
      BY <1>4
    <3> QED
      BY <3>1, <1>6 DEF Step
  <2> QED
    BY <1>12, <2>1
<1> QED
  BY <1>5, <1>9, <1>12, <1>13 DEF Sums

\* A linear combination, of three numbers or of three sequences, and a constant.
Linear(p, a, q, b, r, c, m, k) == p * a + q * b + r * c + m * k
Combination(D, p, a, q, b, r, c, k) == [i \in D |-> Linear(p, a[i], q, b[i], r, c[i], 1, k)]

Numbers(D) == [D -> Int]

SumsCombine(D, a, b, c) ==
    \A p, q, r, k \in Int :
        SumFunction(Combination(D, p, a, q, b, r, c, k)) =
          Linear(p, SumFunction(a), q, SumFunction(b), r, SumFunction(c), Cardinality(D), k)

\* The sum of a linear combination is that of the sums.
LEMMA SumCombination ==
    ASSUME NEW D, IsFiniteSet(D)
    PROVE  \A a, b, c \in Numbers(D) : SumsCombine(D, a, b, c)
<1> SUFFICES ASSUME NEW a \in [D -> Int], NEW b \in [D -> Int], NEW c \in [D -> Int],
                    NEW p \in Int, NEW q \in Int, NEW r \in Int, NEW k \in Int
             PROVE  SumFunction(Combination(D, p, a, q, b, r, c, k)) =
                      Linear(p, SumFunction(a), q, SumFunction(b), r, SumFunction(c), Cardinality(D), k)
  BY DEF Numbers, SumsCombine
<1> DEFINE h == Combination(D, p, a, q, b, r, c, k)
<1>1. D \in SUBSET D
  OBVIOUS
<1>2. /\ h \in [D -> Int]
      /\ \A i \in D : h[i] = p * a[i] + q * b[i] + r * c[i] + k
  BY DEF Combination, Linear
<1> HIDE DEF h
<1>3. PICK ga : Sums(ga, a, D) /\ SumFunction(a) = ga[D]
  BY <1>1, <1>2, SumFacts
<1>4. PICK gb : Sums(gb, b, D) /\ SumFunction(b) = gb[D]
  BY <1>1, <1>2, SumFacts
<1>5. PICK gc : Sums(gc, c, D) /\ SumFunction(c) = gc[D]
  BY <1>1, <1>2, SumFacts
<1>6. PICK gh : Sums(gh, h, D) /\ SumFunction(h) = gh[D]
  BY <1>1, <1>2, SumFacts
<1> DEFINE Equal(s) == gh[s] = p * ga[s] + q * gb[s] + r * gc[s] + Cardinality(s) * k
           B == {s \in SUBSET D : Equal(s)}
<1>7. {} \in B
  <2>1. ga[{}] = 0 /\ gb[{}] = 0 /\ gc[{}] = 0 /\ gh[{}] = 0
    BY <1>3, <1>4, <1>5, <1>6 DEF Sums
  <2>2. Cardinality({}) = 0
    BY FS_EmptySet
  <2> QED
    BY <2>1, <2>2
<1>8. ASSUME NEW s \in SUBSET D, s # {}, \A x \in s : s \ {x} \in B
      PROVE  s \in B
  <2>1. PICK x \in s : TRUE
    BY <1>8
  <2> DEFINE t == s \ {x}
  <2>2. /\ t \in SUBSET D /\ Cardinality(s) \in Nat /\ Cardinality(t) \in Nat
        /\ Cardinality(t) = Cardinality(s) - 1
    BY <1>1, WithoutOne
  <2>3. Equal(t)
    BY <1>8
  <2>4. /\ ga[s] = a[x] + ga[t] /\ gb[s] = b[x] + gb[t]
        /\ gc[s] = c[x] + gc[t] /\ gh[s] = h[x] + gh[t]
    BY <1>3, <1>4, <1>5, <1>6 DEF Sums
  <2>5. /\ ga[t] \in Int /\ gb[t] \in Int /\ gc[t] \in Int /\ gh[t] \in Int
    BY <1>3, <1>4, <1>5, <1>6, <2>2 DEF Sums
  <2>6. a[x] \in Int /\ b[x] \in Int /\ c[x] \in Int
    BY <1>2
  <2>7. h[x] = p * a[x] + q * b[x] + r * c[x] + k
    BY <1>2
  <2> HIDE DEF t
  <2>8. gh[s] = p * ga[s] + q * gb[s] + r * gc[s] + Cardinality(s) * k
    <3>1. gh[t] = p * ga[t] + q * gb[t] + r * gc[t] + Cardinality(t) * k
      BY <2>3
    <3>2. PICK m \in Int : m = Cardinality(t) /\ m + 1 = Cardinality(s)
      BY <2>2
    <3>3. PICK a1 \in Int, b1 \in Int, c1 \in Int : a1 = a[x] /\ b1 = b[x] /\ c1 = c[x]
      BY <2>6
    <3>4. PICK a2 \in Int, b2 \in Int, c2 \in Int : a2 = ga[t] /\ b2 = gb[t] /\ c2 = gc[t]
      BY <2>5
    <3>5. (p * a1 + q * b1 + r * c1 + k) + (p * a2 + q * b2 + r * c2 + m * k) =
            p * (a1 + a2) + q * (b1 + b2) + r * (c1 + c2) + (m + 1) * k
      OBVIOUS
    <3> QED
      BY <2>4, <2>7, <3>1, <3>2, <3>3, <3>4, <3>5, Zenon
  <2> QED
    BY <2>8
<1>9. SUBSET D \subseteq B
  <2> HIDE DEF B
  <2> QED
    BY <1>1, <1>7, <1>8, SubsetInduction
<1>10. Equal(D)
  BY <1>1, <1>9
<1> QED
  BY <1>1, <1>3, <1>4, <1>5, <1>6, <1>10, Zenon DEF h, Linear

\* A sum of numbers that are not negative is no less than that of two or four of
\* them.
LEMMA SumOfNaturals ==
    ASSUME NEW D, IsFiniteSet(D), NEW f \in [D -> Nat]
    PROVE  /\ SumFunction(f) \in Nat
           /\ \A i, j \in D : i # j => f[i] + f[j] <= SumFunction(f)
           /\ \A i, j, k, l \in D :
                 i \notin {j, k, l} /\ j \notin {k, l} /\ k # l =>
                     f[i] + f[j] + f[k] + f[l] <= SumFunction(f)
<1>1. D \in SUBSET D /\ f \in [D -> Int]
  OBVIOUS
<1>2. PICK g : Sums(g, f, D) /\ SumFunction(f) = g[D]
  BY <1>1, SumFacts
<1>3. /\ g[{}] = 0
      /\ \A s \in SUBSET D : g[s] \in Int
      /\ \A s \in SUBSET D : \A x \in s : g[s] = f[x] + g[s \ {x}]
  BY <1>2 DEF Sums
<1> DEFINE B == {s \in SUBSET D : g[s] >= 0}
<1>4. ASSUME NEW s \in SUBSET D, s # {}, \A x \in s : s \ {x} \in B
      PROVE  s \in B
  <2>1. PICK x \in s : TRUE
    BY <1>4
  <2>2. g[s \ {x}] \in Int /\ g[s \ {x}] >= 0 /\ f[x] \in Nat /\ g[s] = f[x] + g[s \ {x}]
    BY <1>3, <1>4
  <2>3. g[s] >= 0
    BY <2>2
  <2> QED
    BY <2>3
<1>5. ASSUME NEW s \in SUBSET D PROVE g[s] \in Nat
  <2>1. {} \in B
    BY <1>3
  <2>2. SUBSET D \subseteq B
    <3> HIDE DEF B
    <3> QED
      BY <1>4, <2>1, SubsetInduction
  <2>3. g[s] >= 0 /\ g[s] \in Int
    BY <1>3, <2>2
  <2> QED
    BY <2>3
<1> HIDE DEF B
<1>6. ASSUME NEW s, NEW i, s \in SUBSET D, i \in s
      PROVE  /\ s \ {i} \in SUBSET D /\ f[i] \in Nat
             /\ g[s \ {i}] \in Nat /\ g[s] = f[i] + g[s \ {i}]
  BY <1>3, <1>5, <1>6
<1>7. \A s \in SUBSET D : \A i, j \in s : i # j =>
          \E a \in Nat, b \in Nat, r \in Nat :
             f[i] = a /\ f[j] = b /\ g[s] = a + b + r
  <2> TAKE s \in SUBSET D
  <2> TAKE i, j \in s
  <2> HAVE i # j
  <2> DEFINE u == s \ {i}
             t == u \ {j}
  <2>1. u \in SUBSET D /\ j \in u
    OBVIOUS
  <2>2. g[s] = f[i] + g[u] /\ f[i] \in Nat
    BY <1>6
  <2> HIDE DEF u
  <2>3. g[u] = f[j] + g[t] /\ f[j] \in Nat /\ g[t] \in Nat
    BY <1>6, <2>1
  <2> HIDE DEF t
  <2>4. PICK a \in Nat, b \in Nat, r \in Nat : a = f[i] /\ b = f[j] /\ r = g[t]
    BY <2>2, <2>3
  <2>5. g[s] = a + b + r
    BY <2>2, <2>3, <2>4
  <2> QED
    BY <2>4, <2>5
<1>8. ASSUME NEW i \in D, NEW j \in D, i # j PROVE f[i] + f[j] <= g[D]
  <2>1. PICK a \in Nat, b \in Nat, r \in Nat : f[i] = a /\ f[j] = b /\ g[D] = a + b + r
    BY <1>1, <1>7, <1>8
  <2> QED
    BY <2>1
<1>9. ASSUME NEW i \in D, NEW j \in D, NEW k \in D, NEW l \in D,
             i \notin {j, k, l}, j \notin {k, l}, k # l
      PROVE  f[i] + f[j] + f[k] + f[l] <= g[D]
  <2> DEFINE u == D \ {i}
             t == u \ {j}
  <2>1. u \in SUBSET D /\ j \in u /\ t \in SUBSET D /\ k \in t /\ l \in t
    BY <1>9
  <2>2. g[D] = f[i] + g[u] /\ f[i] \in Nat
    BY <1>1, <1>6
  <2> HIDE DEF u
  <2>3. g[u] = f[j] + g[t] /\ f[j] \in Nat
    BY <1>6, <2>1
  <2> HIDE DEF t
  <2>4. PICK c \in Nat, d \in Nat, r \in Nat : f[k] = c /\ f[l] = d /\ g[t] = c + d + r
    BY <1>7, <1>9, <2>1
  <2>5. PICK a \in Nat, b \in Nat : f[i] = a /\ f[j] = b
    BY <2>2, <2>3
  <2>6. g[D] = a + (b + (c + d + r))
    BY <2>2, <2>3, <2>4, <2>5
  <2>7. a + b + c + d <= a + (b + (c + d + r))
    OBVIOUS
  <2> QED
    BY <2>4, <2>5, <2>6, <2>7, Zenon
<1>10. g[D] \in Nat
  BY <1>1, <1>5
<1> QED
  BY <1>2, <1>8, <1>9, <1>10

-----------------------------------------------------------------------------
\* The least-squares fit.

\* The centered values of a sequence, n times as large, and the products of two.
Centered(x) == [i \in DOMAIN x |-> Len(x) * x[i] - SumFunction(x)]
Products(x, y) == [i \in DOMAIN x |-> x[i] * y[i]]

\* The types of what a fit computes, and the covariance by its parts.
LEMMA SequenceOfNumbers ==
    ASSUME NEW n \in Nat, NEW x \in [1..n -> Int], NEW y \in [1..n -> Int]
    PROVE  /\ Len(x) = n /\ SumFunction(x) \in Int
           /\ Centered(x) \in [1..n -> Int]
           /\ Products(x, y) \in [1..n -> Int]
           /\ SumFunction(Products(x, y)) \in Int
           /\ Covariance(x, y) = n * SumFunction(Products(x, y)) - SumFunction(x) * SumFunction(y)
           /\ Covariance(x, y) \in Int
<1>1. x \in Seq(Int) /\ Len(x) = n /\ DOMAIN x = 1..n
  OBVIOUS
<1>2. ASSUME NEW z \in [1..n -> Int] PROVE SumFunction(z) \in Int
  <2> DEFINE D == 1..n
  <2>1. IsFiniteSet(D) /\ z \in [D -> Int]
    BY FS_Interval
  <2>2. D \in SUBSET D
    OBVIOUS
  <2> HIDE DEF D
  <2>3. PICK g : Sums(g, z, D) /\ SumFunction(z) = g[D]
    BY <2>1, SumFacts
  <2> QED
    BY <2>2, <2>3 DEF Sums
<1>3. SumFunction(x) \in Int /\ SumFunction(y) \in Int
  BY <1>2
<1>4. Products(x, y) \in [1..n -> Int]
  BY <1>1 DEF Products
<1>5. SumFunction(Products(x, y)) \in Int
  BY <1>2, <1>4
<1>6. Centered(x) \in [1..n -> Int]
  BY <1>1, <1>3 DEF Centered
<1>7. Covariance(x, y) = n * SumFunction(Products(x, y)) - SumFunction(x) * SumFunction(y)
  BY <1>1, Zenon DEF Covariance, Products
<1> QED
  BY <1>1, <1>3, <1>4, <1>5, <1>6, <1>7

\* The products of the centered values sum to n times the covariance.
LEMMA CenteredProducts ==
    ASSUME NEW n \in Nat, NEW x \in [1..n -> Int], NEW y \in [1..n -> Int]
    PROVE  SumFunction(Products(Centered(x), Centered(y))) = n * Covariance(x, y)
<1> DEFINE u == Centered(x)
           w == Centered(y)
           h == Products(u, w)
<1>1. PICK sx \in Int, sy \in Int : sx = SumFunction(x) /\ sy = SumFunction(y)
  BY SequenceOfNumbers
<1>2. u \in [1..n -> Int] /\ w \in [1..n -> Int] /\ Len(x) = n /\ Len(y) = n
  BY SequenceOfNumbers
<1>3. h \in [1..n -> Int] /\ Products(x, y) \in [1..n -> Int]
  BY <1>2, SequenceOfNumbers
<1>4. PICK q \in Int : q = SumFunction(Products(x, y))
  BY SequenceOfNumbers
<1>5. ASSUME NEW i \in 1..n
      PROVE  h[i] = (n * n) * Products(x, y)[i] + (-(n * sy)) * x[i] + (-(n * sx)) * y[i] + sx * sy
  <2>1. PICK a \in Int, b \in Int : a = x[i] /\ b = y[i]
    OBVIOUS
  <2>2. u[i] = n * a - sx /\ w[i] = n * b - sy /\ Products(x, y)[i] = a * b
    BY <1>1, <1>2, <2>1 DEF Centered, Products
  <2>3. h[i] = (n * a - sx) * (n * b - sy)
    <3>1. h[i] = u[i] * w[i]
      BY <1>2 DEF Products
    <3> QED
      BY <2>2, <3>1
  <2>4. (n * a - sx) * (n * b - sy) = (n * n) * (a * b) + (-(n * sy)) * a + (-(n * sx)) * b + sx * sy
    OBVIOUS
  <2> QED
    BY <2>1, <2>2, <2>3, <2>4, Zenon
<1> HIDE DEF h
<1>6. SumFunction(h) = (n * n) * q + (-(n * sy)) * sx + (-(n * sx)) * sy + n * (sx * sy)
  <2>1. PICK p \in Int, b \in Int, r \in Int, k \in Int :
            p = n * n /\ b = -(n * sy) /\ r = -(n * sx) /\ k = sx * sy
    OBVIOUS
  <2>2. \A i \in 1..n : h[i] = p * Products(x, y)[i] + b * x[i] + r * y[i] + k
    BY <1>5, <2>1, Zenon
  <2> DEFINE D == 1..n
             z == Products(x, y)
  <2>3. IsFiniteSet(D) /\ z \in [D -> Int] /\ x \in [D -> Int] /\ y \in [D -> Int]
    BY <1>3, FS_Interval
  <2>4. h = Combination(D, p, z, b, x, r, y, k) /\ Cardinality(D) = n
    BY <1>3, <2>2, FS_Interval DEF Combination, Linear
  <2> HIDE DEF D, z
  <2>5. SumFunction(Combination(D, p, z, b, x, r, y, k)) =
          Linear(p, SumFunction(z), b, SumFunction(x), r, SumFunction(y), Cardinality(D), k)
    <3>1. SumsCombine(D, z, x, y)
      <4>1. z \in Numbers(D) /\ x \in Numbers(D) /\ y \in Numbers(D)
        BY <2>3 DEF Numbers
      <4> QED
        BY <2>3, <4>1, SumCombination
    <3> QED
      BY <3>1 DEF SumsCombine
  <2> QED
    BY <1>1, <1>4, <2>1, <2>4, <2>5, Zenon DEF z, Linear
<1>7. (n * n) * q + (-(n * sy)) * sx + (-(n * sx)) * sy + n * (sx * sy) = n * (n * q - sx * sy)
  OBVIOUS
<1>8. Covariance(x, y) = n * q - sx * sy
  BY <1>1, <1>4, SequenceOfNumbers, Zenon
<1> QED
  BY <1>6, <1>7, <1>8, Zenon DEF h

\* How far the values lie from the fitted line, n times the variance of x as far.
Residuals(x, y) ==
    [i \in DOMAIN x |-> Covariance(x, x) * Centered(y)[i] - Covariance(x, y) * Centered(x)[i]]

\* Their squares sum to what the fit leaves unexplained.
LEMMA ResidualSquares ==
    ASSUME NEW n \in Nat, NEW x \in [1..n -> Int], NEW y \in [1..n -> Int]
    PROVE  /\ Residuals(x, y) \in [1..n -> Int]
           /\ SumFunction(Products(Residuals(x, y), Residuals(x, y))) =
                n * Covariance(x, x)
                  * (Covariance(x, x) * Covariance(y, y) - Covariance(x, y) * Covariance(x, y))
<1> DEFINE D == 1..n
           u == Centered(x)
           w == Centered(y)
           e == Residuals(x, y)
           h == Products(e, e)
           ww == Products(w, w)
           uw == Products(u, w)
           uu == Products(u, u)
<1>1. PICK vx \in Int, vy \in Int, c \in Int :
          vx = Covariance(x, x) /\ vy = Covariance(y, y) /\ c = Covariance(x, y)
  BY SequenceOfNumbers
<1>2. DOMAIN x = D /\ u \in [D -> Int] /\ w \in [D -> Int]
  BY SequenceOfNumbers
<1>13. IsFiniteSet(D) /\ Cardinality(D) = n
  BY FS_Interval
<1>3. /\ SumFunction(ww) = n * vy /\ SumFunction(uw) = n * c /\ SumFunction(uu) = n * vx
  BY <1>1, CenteredProducts
<1>4. ww \in [D -> Int] /\ uw \in [D -> Int] /\ uu \in [D -> Int]
  BY <1>2, SequenceOfNumbers
<1> HIDE DEF D, u, w
<1>5. e \in [D -> Int] /\ \A i \in D : e[i] = vx * w[i] - c * u[i]
  BY <1>1, <1>2 DEF Residuals, u, w
<1>6. PICK p \in Int, q \in Int, r \in Int, k \in Int :
          p = vx * vx /\ q = -(2 * (vx * c)) /\ r = c * c /\ k = 0
  OBVIOUS
<1>7. /\ DOMAIN w = D /\ DOMAIN u = D /\ DOMAIN e = D
  BY <1>2, <1>5
<1>8. ASSUME NEW i \in D
      PROVE  h[i] = p * ww[i] + q * uw[i] + r * uu[i] + k
  <2>1. PICK a \in Int, b \in Int : a = u[i] /\ b = w[i]
    BY <1>2
  <2>2. h[i] = (vx * b - c * a) * (vx * b - c * a)
    BY <1>5, <1>7, <2>1 DEF Products
  <2>3. ww[i] = b * b /\ uw[i] = a * b /\ uu[i] = a * a
    BY <1>7, <2>1 DEF Products
  <2>4. (vx * b - c * a) * (vx * b - c * a) =
          (vx * vx) * (b * b) + (-(2 * (vx * c))) * (a * b) + (c * c) * (a * a) + 0
    OBVIOUS
  <2> QED
    BY <1>6, <2>2, <2>3, <2>4, Zenon
<1> HIDE DEF e, ww, uw, uu
<1>9. h = Combination(D, p, ww, q, uw, r, uu, k)
  <2>1. h = [i \in D |-> h[i]]
    BY <1>7 DEF Products
  <2> HIDE DEF h
  <2> QED
    BY <1>8, <2>1 DEF Combination, Linear
<1>10. SumFunction(Combination(D, p, ww, q, uw, r, uu, k)) =
         Linear(p, SumFunction(ww), q, SumFunction(uw), r, SumFunction(uu), Cardinality(D), k)
  <2>1. SumsCombine(D, ww, uw, uu)
    <3>1. ww \in Numbers(D) /\ uw \in Numbers(D) /\ uu \in Numbers(D)
      BY <1>4 DEF Numbers
    <3> QED
      BY <1>13, <3>1, SumCombination
  <2> QED
    BY <2>1 DEF SumsCombine
<1>11. (vx * vx) * (n * vy) + (-(2 * (vx * c))) * (n * c) + (c * c) * (n * vx) + n * 0 =
         n * vx * (vx * vy - c * c)
  OBVIOUS
<1>12. SumFunction(h) = n * vx * (vx * vy - c * c)
  BY <1>3, <1>6, <1>9, <1>10, <1>11, <1>13, Zenon DEF Linear
<1> QED
  BY <1>1, <1>5, <1>12, Zenon DEF D, e

\* Where two values differ the variance is positive.
LEMMA VariancePositive ==
    ASSUME NEW n \in Nat, NEW x \in [1..n -> Int], NEW i \in 1..n, NEW j \in 1..n, x[i] # x[j]
    PROVE  Covariance(x, x) > 0
<1> DEFINE D == 1..n
           u == Centered(x)
           h == Products(u, u)
<1>1. PICK v \in Int, s \in Int : v = Covariance(x, x) /\ s = SumFunction(x)
  BY SequenceOfNumbers
<1>2. SumFunction(h) = n * v
  BY <1>1, CenteredProducts
<1>3. IsFiniteSet(D) /\ i \in D /\ j \in D /\ i # j
  BY FS_Interval
<1>4. u \in [D -> Int] /\ \A k \in D : u[k] = n * x[k] - s
  BY <1>1, SequenceOfNumbers DEF Centered
<1>5. PICK a \in Int, b \in Int : a = x[i] /\ b = x[j] /\ a # b
  OBVIOUS
<1> HIDE DEF D, u
<1>6. DOMAIN u = D /\ \A k \in D : u[k] * u[k] \in Nat
  <2>1. ASSUME NEW z \in Int PROVE z * z \in Nat
    OBVIOUS
  <2> QED
    BY <1>4, <2>1
<1>7. h \in [D -> Nat] /\ \A k \in D : h[k] = u[k] * u[k]
  BY <1>6 DEF Products
<1> HIDE DEF h
<1>8. h[i] + h[j] <= SumFunction(h)
  BY <1>3, <1>7, SumOfNaturals
<1>9. (n * a - s) * (n * a - s) + (n * b - s) * (n * b - s) <= n * v
  <2>1. h[i] = (n * a - s) * (n * a - s) /\ h[j] = (n * b - s) * (n * b - s)
    BY <1>3, <1>4, <1>5, <1>7, Zenon
  <2> QED
    BY <1>2, <1>8, <2>1, Zenon
<1>10. n # 0
  OBVIOUS
<1>11. n * a - s # 0 \/ n * b - s # 0
  <2>1. SUFFICES ASSUME n * a - s = 0, n * b - s = 0 PROVE FALSE
    OBVIOUS
  <2>2. n * (a - b) = 0 /\ a - b \in Int /\ a - b # 0
    <3>1. \A k, p, q \in Int : k * (p - q) = k * p - k * q
      OBVIOUS
    <3>2. PICK p \in Int, q \in Int : p = n * a /\ q = n * b /\ n * (a - b) = p - q
      BY <3>1
    <3>3. p - s = 0 /\ q - s = 0
      BY <2>1, <3>2, Zenon
    <3>4. p - q = 0
      BY <1>1, <3>3
    <3>5. a - b \in Int /\ a - b # 0
      BY <1>5
    <3> QED
      BY <3>2, <3>4, <3>5, Zenon
  <2>3. \A p, q \in Int : p * q = 0 => p = 0 \/ q = 0
    OBVIOUS
  <2> QED
    BY <1>10, <2>2, <2>3
<1>12. \A z \in Int : z * z >= 0 /\ (z # 0 => z * z > 0)
  OBVIOUS
<1>13. (n * a - s) * (n * a - s) + (n * b - s) * (n * b - s) > 0
  BY <1>11, <1>12
<1>14. n * v > 0
  BY <1>9, <1>13
<1>15. v > 0
  BY <1>14
<1> QED
  BY <1>1, <1>15

-----------------------------------------------------------------------------
\* Trusted trends.

\* A rising line close to no more than 20 numbers y at times x: the mean of its
\* squared errors is no more than a hundredth of the square of their range.
CloseFit(n, x, y, range) ==
    /\ n \in 1..20
    /\ x \in [1..n -> Int] /\ y \in [1..n -> Int] /\ range \in Nat
    /\ Covariance(x, x) > 0 /\ Covariance(x, y) > 0
    /\ 10 * 10 * (Covariance(x, x) * Covariance(y, y) - Covariance(x, y) * Covariance(x, y))
         <= n * n * Covariance(x, x) * range * range

\* What two numbers amount to whose squares sum to no more than a fifth of a square.
LEMMA TwoErrors ==
    ASSUME NEW a \in Int, NEW b \in Int, NEW m \in Nat, 5 * (a * a + b * b) <= m * m
    PROVE  b - 2 * a <= m /\ 10 * (a - b) <= 9 * m
<1>1. \A z \in Int : z * z >= 0
  OBVIOUS
<1>2. ASSUME NEW z \in Int, NEW k \in Nat, z * z <= k * k PROVE z <= k
  <2>1. SUFFICES ASSUME z >= k + 1 PROVE FALSE
    BY <1>2
  <2>2. z * z >= (k + 1) * (k + 1)
    BY <2>1
  <2> QED
    BY <1>2, <2>2
<1>3. b - 2 * a <= m
  <2>1. (b - 2 * a) * (b - 2 * a) = 5 * (a * a + b * b) - (a + 2 * b) * (a + 2 * b)
    OBVIOUS
  <2>2. (a + 2 * b) * (a + 2 * b) >= 0
    BY <1>1
  <2>3. PICK p \in Int, q \in Int, r \in Int, s \in Int :
            /\ p = (b - 2 * a) * (b - 2 * a) /\ q = a * a + b * b
            /\ r = (a + 2 * b) * (a + 2 * b) /\ s = m * m
    OBVIOUS
  <2>4. (b - 2 * a) * (b - 2 * a) <= m * m
    <3>1. p = 5 * q - r /\ r >= 0 /\ 5 * q <= s
      BY <2>1, <2>2, <2>3
    <3>2. p <= s
      BY <3>1
    <3> QED
      BY <2>3, <3>2
  <2>5. b - 2 * a \in Int
    OBVIOUS
  <2> QED
    BY <1>2, <2>4, <2>5
<1>4. 10 * (a - b) <= 9 * m
  <2>1. (10 * (a - b)) * (10 * (a - b)) = 40 * (5 * (a * a + b * b)) - 100 * ((a + b) * (a + b))
    OBVIOUS
  <2>2. (a + b) * (a + b) >= 0 /\ m * m >= 0 /\ (9 * m) * (9 * m) = 81 * (m * m)
    BY <1>1
  <2>3. PICK p \in Int, q \in Int, r \in Int, s \in Int :
            /\ p = (10 * (a - b)) * (10 * (a - b)) /\ q = 5 * (a * a + b * b)
            /\ r = (a + b) * (a + b) /\ s = m * m
    OBVIOUS
  <2>4. (10 * (a - b)) * (10 * (a - b)) <= (9 * m) * (9 * m)
    <3>1. p = 40 * q - 100 * r /\ r >= 0 /\ q <= s /\ s >= 0
      BY <2>1, <2>2, <2>3
    <3>2. p <= 81 * s
      BY <3>1
    <3> QED
      BY <2>2, <2>3, <3>2
  <2>5. 10 * (a - b) \in Int /\ 9 * m \in Nat
    OBVIOUS
  <2> QED
    BY <1>2, <2>4, <2>5
<1> QED
  BY <1>3, <1>4

\* What four numbers amount to whose squares sum to no more than a fifth of a square.
LEMMA FourErrors ==
    ASSUME NEW a \in Int, NEW b \in Int, NEW c \in Int, NEW d \in Int, NEW m \in Nat,
           5 * (a * a + b * b + c * c + d * d) <= m * m
    PROVE  10 * (a - b - c + d) <= 9 * m
<1>1. PICK z \in Int : z = a - b - c + d
  OBVIOUS
<1>2. SUFFICES ASSUME 10 * z >= 9 * m + 1 PROVE FALSE
  BY <1>1
<1>3. PICK s \in Int : s = a * a + b * b + c * c + d * d
  OBVIOUS
<1>4. z * z <= 4 * s
  <2>1. \A k \in Int : k * k >= 0
    OBVIOUS
  <2>2. /\ (a + b) * (a + b) >= 0 /\ (a + c) * (a + c) >= 0 /\ (a - d) * (a - d) >= 0
        /\ (b - c) * (b - c) >= 0 /\ (b + d) * (b + d) >= 0 /\ (c + d) * (c + d) >= 0
    BY <2>1
  <2>3. 4 * s - z * z = (a + b) * (a + b) + (a + c) * (a + c) + (a - d) * (a - d)
                          + (b - c) * (b - c) + (b + d) * (b + d) + (c + d) * (c + d)
    BY <1>1, <1>3
  <2>4. PICK p \in Nat : p = (a + b) * (a + b) + (a + c) * (a + c) + (a - d) * (a - d)
                          + (b - c) * (b - c) + (b + d) * (b + d) + (c + d) * (c + d)
    BY <2>2
  <2>5. PICK q \in Int : q = z * z
    OBVIOUS
  <2> QED
    BY <2>3, <2>4, <2>5
<1>5. (10 * z) * (10 * z) >= (9 * m + 1) * (9 * m + 1)
  BY <1>2
<1>6. 100 * (z * z) >= 81 * (m * m) + 1
  <2>1. (10 * z) * (10 * z) = 100 * (z * z) /\ (9 * m + 1) * (9 * m + 1) = 81 * (m * m) + 18 * m + 1
    OBVIOUS
  <2>2. PICK q \in Int, r \in Int : q = z * z /\ r = m * m
    OBVIOUS
  <2>3. 100 * q >= 81 * r + 18 * m + 1
    BY <1>5, <2>1, <2>2
  <2> QED
    BY <2>2, <2>3
<1>7. PICK q \in Int, r \in Int : q = z * z /\ r = m * m /\ r >= 0
  OBVIOUS
<1>8. 5 * s <= r /\ q <= 4 * s /\ 100 * q >= 81 * r + 1 /\ r >= 0
  BY <1>3, <1>4, <1>6, <1>7
<1> QED
  BY <1>8

\* The squares of the errors of a close fit sum to no more than a fifth of the
\* square of the range, in the units of the errors.
LEMMA ErrorBudget ==
    ASSUME NEW n, NEW x, NEW y, NEW range, CloseFit(n, x, y, range)
    PROVE  LET e == Residuals(x, y)
               m == n * Covariance(x, x) * range
           IN  /\ e \in [1..n -> Int] /\ m \in Nat
               /\ \A i, j \in 1..n : i # j => 5 * (e[i] * e[i] + e[j] * e[j]) <= m * m
               /\ \A i, j, k, l \in 1..n :
                     i \notin {j, k, l} /\ j \notin {k, l} /\ k # l =>
                       5 * (e[i] * e[i] + e[j] * e[j] + e[k] * e[k] + e[l] * e[l]) <= m * m
<1> DEFINE e == Residuals(x, y)
           D == 1..n
           h == Products(e, e)
<1>1. /\ n \in Nat /\ n > 0 /\ n <= 20 /\ range \in Nat
      /\ x \in [1..n -> Int] /\ y \in [1..n -> Int]
  BY DEF CloseFit
<1>2. PICK vx \in Int, vy \in Int, c \in Int :
          vx = Covariance(x, x) /\ vy = Covariance(y, y) /\ c = Covariance(x, y)
  BY <1>1, SequenceOfNumbers
<1>3. vx > 0 /\ 10 * 10 * (vx * vy - c * c) <= n * n * vx * range * range
  BY <1>2 DEF CloseFit
<1>4. e \in [D -> Int] /\ SumFunction(h) = n * vx * (vx * vy - c * c)
  BY <1>1, <1>2, ResidualSquares
<1>5. PICK m \in Nat : m = n * vx * range
  <2>1. n * vx > 0
    BY <1>1, <1>3
  <2>2. PICK p \in Int : p = n * vx
    BY <1>1
  <2>3. p > 0 /\ p * range \in Nat
    BY <1>1, <2>1, <2>2
  <2> QED
    BY <2>2, <2>3
<1>6. 5 * (n * vx * (vx * vy - c * c)) <= m * m
  <2>1. PICK p \in Int, q \in Int : p = 100 * (vx * vy - c * c) /\ q = n * n * vx * range * range
    BY <1>1
  <2>2. p <= q
    BY <1>3, <2>1
  <2>3. (n * vx) * p <= (n * vx) * q
    <3>1. PICK k \in Int : k = n * vx /\ k > 0
      BY <1>1, <1>3
    <3>2. k * p <= k * q
      BY <2>2, <3>1
    <3> QED
      BY <3>1, <3>2
  <2>4. (n * vx) * q = n * (m * m)
    <3>1. (n * vx) * (n * n * vx * range * range) = n * ((n * vx * range) * (n * vx * range))
      BY <1>1
    <3> QED
      BY <1>5, <2>1, <3>1
  <2>5. PICK s \in Int : s = n * vx * (vx * vy - c * c)
    BY <1>1
  <2>6. (n * vx) * p = 100 * s
    <3>1. (n * vx) * (100 * (vx * vy - c * c)) = 100 * (n * vx * (vx * vy - c * c))
      BY <1>1
    <3> QED
      BY <2>1, <2>5, <3>1, Zenon
  <2>7. PICK w \in Nat : w = m * m
    OBVIOUS
  <2>8. 100 * s <= n * w
    BY <2>3, <2>4, <2>6, <2>7
  <2>9. n * w <= 20 * w
    BY <1>1
  <2>10. 5 * s <= w
    <3>1. PICK t \in Int : t = n * w
      BY <1>1
    <3> QED
      BY <2>8, <2>9, <3>1
  <2> QED
    BY <2>5, <2>7, <2>10, Zenon
<1>7. IsFiniteSet(D)
  BY <1>1, FS_Interval
<1> HIDE DEF e, D
<1>8. DOMAIN e = D /\ \A i \in D : e[i] * e[i] \in Nat
  <2>1. \A z \in Int : z * z \in Nat
    OBVIOUS
  <2> QED
    BY <1>4, <2>1
<1>9. h \in [D -> Nat] /\ \A i \in D : h[i] = e[i] * e[i]
  BY <1>8 DEF Products
<1> HIDE DEF h
<1>10. /\ SumFunction(h) \in Nat
       /\ \A i, j \in D : i # j => h[i] + h[j] <= SumFunction(h)
       /\ \A i, j, k, l \in D :
             i \notin {j, k, l} /\ j \notin {k, l} /\ k # l =>
                 h[i] + h[j] + h[k] + h[l] <= SumFunction(h)
  BY <1>7, <1>9, SumOfNaturals
<1>11. 5 * SumFunction(h) <= m * m
  BY <1>4, <1>6
<1>12. ASSUME NEW i \in D, NEW j \in D, i # j
       PROVE  5 * (e[i] * e[i] + e[j] * e[j]) <= m * m
  <2>1. PICK a \in Nat, b \in Nat : a = e[i] * e[i] /\ b = e[j] * e[j]
    BY <1>8
  <2>2. a + b <= SumFunction(h)
    BY <1>9, <1>10, <1>12, <2>1
  <2>3. PICK w \in Nat : w = m * m
    OBVIOUS
  <2> QED
    BY <1>10, <1>11, <2>1, <2>2, <2>3
<1>13. ASSUME NEW i \in D, NEW j \in D, NEW k \in D, NEW l \in D,
              i \notin {j, k, l}, j \notin {k, l}, k # l
       PROVE  5 * (e[i] * e[i] + e[j] * e[j] + e[k] * e[k] + e[l] * e[l]) <= m * m
  <2>1. PICK a \in Nat, b \in Nat, p \in Nat, q \in Nat :
            a = e[i] * e[i] /\ b = e[j] * e[j] /\ p = e[k] * e[k] /\ q = e[l] * e[l]
    BY <1>8
  <2>2. a + b + p + q <= SumFunction(h)
    <3>1. h[i] + h[j] + h[k] + h[l] <= SumFunction(h)
      BY <1>10, <1>13
    <3> QED
      BY <1>9, <2>1, <3>1
  <2>3. PICK w \in Nat : w = m * m
    OBVIOUS
  <2> QED
    BY <1>10, <1>11, <2>1, <2>2, <2>3
<1> QED
  BY <1>2, <1>4, <1>5, <1>12, <1>13 DEF e, D

\* A number is what the line says and its error.
LEMMA ErrorOf ==
    ASSUME NEW n \in Nat, NEW x \in [1..n -> Int], NEW y \in [1..n -> Int], NEW i \in 1..n
    PROVE  n * Covariance(x, x) * y[i] =
             Covariance(x, x) * SumFunction(y)
               + Covariance(x, y) * (n * x[i] - SumFunction(x)) + Residuals(x, y)[i]
<1>1. PICK vx \in Int, c \in Int, sx \in Int, sy \in Int, a \in Int, b \in Int :
          /\ vx = Covariance(x, x) /\ c = Covariance(x, y)
          /\ sx = SumFunction(x) /\ sy = SumFunction(y) /\ a = x[i] /\ b = y[i]
  BY SequenceOfNumbers
<1>2. Len(x) = n /\ Len(y) = n /\ DOMAIN x = 1..n /\ DOMAIN y = 1..n
  OBVIOUS
<1>3. Centered(x)[i] = n * a - sx /\ Centered(y)[i] = n * b - sy
  BY <1>1, <1>2 DEF Centered
<1>4. Residuals(x, y)[i] = vx * (n * b - sy) - c * (n * a - sx)
  <2>1. Residuals(x, y)[i] = Covariance(x, x) * Centered(y)[i] - Covariance(x, y) * Centered(x)[i]
    BY <1>2 DEF Residuals
  <2> QED
    BY <1>1, <1>3, <2>1
<1>5. n * vx * b = vx * sy + c * (n * a - sx) + (vx * (n * b - sy) - c * (n * a - sx))
  OBVIOUS
<1> QED
  BY <1>1, <1>4, <1>5, Zenon

\* Of two numbers the later is no more than nine tenths of the range below the
\* earlier: the line rises, and the errors are small.
LEMMA TwoOnALine ==
    ASSUME NEW n, NEW x, NEW y, NEW range, CloseFit(n, x, y, range),
           NEW i \in 1..n, NEW j \in 1..n, x[i] <= x[j]
    PROVE  10 * (y[i] - y[j]) <= 9 * range
<1> DEFINE e == Residuals(x, y)
<1>1. n \in Nat /\ n > 0 /\ range \in Nat /\ x \in [1..n -> Int] /\ y \in [1..n -> Int]
  BY DEF CloseFit
<1>2. PICK vx \in Int, c \in Int, sx \in Int, sy \in Int :
          /\ vx = Covariance(x, x) /\ c = Covariance(x, y)
          /\ sx = SumFunction(x) /\ sy = SumFunction(y)
  BY <1>1, SequenceOfNumbers
<1>3. vx > 0 /\ c > 0
  BY <1>2 DEF CloseFit
<1>4. PICK a \in Int, b \in Int, d \in Int, f \in Int, p \in Int, q \in Int :
          a = x[i] /\ b = x[j] /\ d = y[i] /\ f = y[j] /\ p = e[i] /\ q = e[j]
  <2>1. e \in [1..n -> Int]
    BY ErrorBudget
  <2> HIDE DEF e
  <2>2. x[i] \in Int /\ x[j] \in Int /\ y[i] \in Int /\ y[j] \in Int /\ e[i] \in Int /\ e[j] \in Int
    BY <1>1, <2>1
  <2> QED
    BY <2>2
<1>5. PICK k \in Nat : k = n * vx /\ k > 0
  <2>1. PICK k \in Int : k = n * vx
    BY <1>1
  <2>2. k > 0
    BY <1>1, <1>3, <2>1
  <2> QED
    BY <2>1, <2>2
<1>6. CASE i = j
  BY <1>1, <1>4, <1>6
<1>7. CASE i # j
  <2>1. 10 * (p - q) <= 9 * (k * range)
    <3>1. PICK m \in Nat : m = k * range
      BY <1>1, <1>5
    <3>2. 5 * (p * p + q * q) <= m * m
      BY <1>2, <1>4, <1>5, <1>7, <3>1, ErrorBudget
    <3> QED
      BY <3>1, <3>2, TwoErrors
  <2>2. k * d = vx * sy + c * (n * a - sx) + p /\ k * f = vx * sy + c * (n * b - sx) + q
    BY <1>1, <1>2, <1>4, <1>5, ErrorOf
  <2>3. c * (n * a - sx) <= c * (n * b - sx)
    <3>1. n * a <= n * b
      <4>1. n \in Nat /\ a \in Int /\ b \in Int /\ a <= b
        BY <1>1, <1>4
      <4> QED
        BY <4>1
    <3>2. PICK u \in Int, w \in Int : u = n * a - sx /\ w = n * b - sx /\ u <= w
      BY <1>1, <3>1
    <3>3. c * u <= c * w
      BY <1>3, <3>2
    <3> QED
      BY <3>2, <3>3
  <2>4. k * d - k * f <= p - q
    <3>1. PICK u \in Int, w \in Int, z \in Int, g \in Int, h \in Int :
              /\ u = c * (n * a - sx) /\ w = c * (n * b - sx) /\ z = vx * sy
              /\ g = k * d /\ h = k * f
      BY <1>1
    <3> QED
      BY <2>2, <2>3, <3>1
  <2>5. k * (10 * (d - f)) <= k * (9 * range)
    <3>1. k * (10 * (d - f)) = 10 * (k * d - k * f) /\ k * (9 * range) = 9 * (k * range)
      BY <1>1
    <3>2. PICK u \in Int, w \in Int : u = k * d - k * f /\ w = k * range
      BY <1>1
    <3> QED
      BY <2>1, <2>4, <3>1, <3>2
  <2>6. 10 * (d - f) <= 9 * range
    <3>1. PICK u \in Int, w \in Int : u = 10 * (d - f) /\ w = 9 * range
      BY <1>1
    <3>2. u <= w
      BY <1>5, <2>5, <3>1
    <3> QED
      BY <3>1, <3>2
  <2> QED
    BY <1>4, <2>6
<1> QED
  BY <1>6, <1>7

\* The times of a fit lie between its first and its last, which differ.
Spanned(n, x) ==
    /\ n > 1 /\ x[1] < x[n]
    /\ \A i \in 1..n : x[1] <= x[i] /\ x[i] <= x[n]

\* The greatest and the least of the numbers.
Extremes(n, y, i, j) ==
    /\ i \in 1..n /\ j \in 1..n
    /\ \A k \in 1..n : y[j] <= y[k] /\ y[k] <= y[i]

\* The last number of a close fit exceeds the first by a tenth of the range.
LEMMA CloseFitRises ==
    ASSUME NEW n, NEW x, NEW y, NEW i, NEW j, Spanned(n, x), Extremes(n, y, i, j),
           CloseFit(n, x, y, y[i] - y[j]), y[i] # y[j]
    PROVE  10 * (y[n] - y[1]) >= y[i] - y[j]
<1> DEFINE e == Residuals(x, y)
<1>1. /\ n \in Nat /\ n > 1 /\ 1 \in 1..n /\ n \in 1..n /\ i \in 1..n /\ j \in 1..n
      /\ x \in [1..n -> Int] /\ y \in [1..n -> Int]
  <2>1. n \in 1..20 /\ x \in [1..n -> Int] /\ y \in [1..n -> Int]
    BY Zenon DEF CloseFit
  <2>2. n > 1
    BY Zenon DEF Spanned
  <2>3. i \in 1..n /\ j \in 1..n
    BY Zenon DEF Extremes
  <2>4. n \in Nat /\ 1 \in 1..n /\ n \in 1..n
    BY <2>1, <2>2
  <2> QED
    BY <2>1, <2>2, <2>3, <2>4
<1>2. PICK hi \in Int, lo \in Int, first \in Int, last \in Int :
          /\ hi = y[i] /\ lo = y[j] /\ first = y[1] /\ last = y[n]
          /\ lo < hi /\ lo <= first /\ lo <= last /\ first <= hi /\ last <= hi
  <2>1. y[i] \in Int /\ y[j] \in Int /\ y[1] \in Int /\ y[n] \in Int
    BY <1>1
  <2> QED
    BY <1>1, <2>1 DEF Extremes
<1>3. PICK range \in Nat : range = hi - lo /\ range > 0
  BY <1>2
<1>4. CloseFit(n, x, y, range)
  BY <1>2, <1>3
<1>5. \A k \in 1..n : x[1] <= x[k] /\ x[k] <= x[n]
  BY DEF Spanned
<1>6. i # 1
  <2>1. SUFFICES ASSUME i = 1 PROVE FALSE
    OBVIOUS
  <2>2. 10 * (y[1] - y[j]) <= 9 * range
    BY <1>1, <1>4, <1>5, TwoOnALine
  <2> QED
    BY <1>2, <1>3, <2>1, <2>2
<1>7. j # n
  <2>1. SUFFICES ASSUME j = n PROVE FALSE
    OBVIOUS
  <2>2. 10 * (y[i] - y[n]) <= 9 * range
    BY <1>1, <1>4, <1>5, TwoOnALine
  <2> QED
    BY <1>2, <1>3, <2>1, <2>2
<1>8. CASE i = n
  <2>1. 10 * (y[1] - y[j]) <= 9 * range
    BY <1>1, <1>4, <1>5, TwoOnALine
  <2> QED
    BY <1>2, <1>3, <1>8, <2>1
<1>9. CASE j = 1
  <2>1. 10 * (y[i] - y[n]) <= 9 * range
    BY <1>1, <1>4, <1>5, TwoOnALine
  <2> QED
    BY <1>2, <1>3, <1>9, <2>1
<1>10. CASE i # n /\ j # 1
  <2>1. i \notin {j, n, 1} /\ j \notin {n, 1} /\ n # 1
    BY <1>1, <1>2, <1>6, <1>7, <1>10
  <2>2. PICK vx \in Int, c \in Int, sx \in Int, sy \in Int :
            /\ vx = Covariance(x, x) /\ c = Covariance(x, y)
            /\ sx = SumFunction(x) /\ sy = SumFunction(y)
    BY <1>1, SequenceOfNumbers
  <2>3. vx > 0 /\ c > 0
    BY <1>4, <2>2 DEF CloseFit
  <2>4. PICK k \in Nat : k = n * vx /\ k > 0
    <3>1. PICK k \in Int : k = n * vx
      BY <1>1
    <3>2. k > 0
      BY <1>1, <2>3, <3>1
    <3> QED
      BY <3>1, <3>2
  <2>5. e \in [1..n -> Int]
    BY <1>4, ErrorBudget
  <2>6. PICK p \in Int, q \in Int, r \in Int, s \in Int :
            p = e[i] /\ q = e[j] /\ r = e[n] /\ s = e[1]
    <3> HIDE DEF e
    <3>1. e[i] \in Int /\ e[j] \in Int /\ e[n] \in Int /\ e[1] \in Int
      BY <1>1, <2>5
    <3> QED
      BY <3>1
  <2>7. 10 * (p - q - r + s) <= 9 * (k * range)
    <3>1. PICK m \in Nat : m = k * range
      BY <1>3, <2>4
    <3>2. 5 * (e[i] * e[i] + e[j] * e[j] + e[n] * e[n] + e[1] * e[1]) <= m * m
      <4>1. m = n * Covariance(x, x) * range
        BY <2>2, <2>4, <3>1
      <4> QED
        BY <1>1, <1>4, <2>1, <4>1, ErrorBudget
    <3>3. 5 * (p * p + q * q + r * r + s * s) <= m * m
      BY <2>6, <3>2
    <3> QED
      BY <3>1, <3>3, FourErrors
  <2>8. PICK a \in Int, b \in Int, d \in Int, f \in Int :
            a = x[i] /\ b = x[j] /\ d = x[n] /\ f = x[1] /\ a <= d /\ f <= b
    BY <1>1, <1>5
  <2>9. /\ k * hi = vx * sy + c * (n * a - sx) + p
        /\ k * lo = vx * sy + c * (n * b - sx) + q
        /\ k * last = vx * sy + c * (n * d - sx) + r
        /\ k * first = vx * sy + c * (n * f - sx) + s
    BY <1>1, <1>2, <2>2, <2>4, <2>6, <2>8, ErrorOf
  <2>10. c * (n * a - sx) <= c * (n * d - sx) /\ c * (n * f - sx) <= c * (n * b - sx)
    <3>1. n * a <= n * d /\ n * f <= n * b
      BY <1>1, <2>8
    <3>2. PICK t \in Int, u \in Int, v \in Int, w \in Int :
              /\ t = n * a - sx /\ u = n * d - sx /\ v = n * f - sx /\ w = n * b - sx
              /\ t <= u /\ v <= w
      BY <1>1, <3>1
    <3>3. c * t <= c * u /\ c * v <= c * w
      BY <2>3, <3>2
    <3> QED
      BY <3>2, <3>3
  <2>11. k * hi - k * lo - k * last + k * first <= p - q - r + s
    <3>1. PICK t \in Int, u \in Int, v \in Int, w \in Int, z \in Int :
              /\ t = c * (n * a - sx) /\ u = c * (n * d - sx)
              /\ v = c * (n * f - sx) /\ w = c * (n * b - sx) /\ z = vx * sy
      BY <1>1
    <3>2. PICK g1 \in Int, g2 \in Int, g3 \in Int, g4 \in Int :
              g1 = k * hi /\ g2 = k * lo /\ g3 = k * last /\ g4 = k * first
      OBVIOUS
    <3> QED
      BY <2>9, <2>10, <3>1, <3>2
  <2>12. k * (10 * (hi - lo - last + first)) <= k * (9 * range)
    <3>1. /\ k * (10 * (hi - lo - last + first)) = 10 * (k * hi - k * lo - k * last + k * first)
          /\ k * (9 * range) = 9 * (k * range)
      OBVIOUS
    <3>2. PICK u \in Int, w \in Int : u = k * hi - k * lo - k * last + k * first /\ w = k * range
      OBVIOUS
    <3> QED
      BY <2>7, <2>11, <3>1, <3>2
  <2>13. 10 * (hi - lo - last + first) <= 9 * range
    <3>1. PICK u \in Int, w \in Int : u = 10 * (hi - lo - last + first) /\ w = 9 * range
      OBVIOUS
    <3>2. u <= w
      BY <2>4, <2>12, <3>1
    <3> QED
      BY <3>1, <3>2
  <2> QED
    BY <1>2, <1>3, <2>13
<1> QED
  BY <1>8, <1>9, <1>10

\* The line, evaluated no further past the last number than the first is before it.
LEMMA CloseFitProjects ==
    ASSUME NEW n, NEW x, NEW y, NEW i, NEW j, Spanned(n, x), Extremes(n, y, i, j),
           CloseFit(n, x, y, y[i] - y[j]), NEW h \in Nat, h <= x[n] - x[1]
    PROVE  SumFunction(y) * Covariance(x, x) + Covariance(x, y) * (n * (x[n] + h) - SumFunction(x))
             <= n * Covariance(x, x) * (3 * y[i] - 2 * y[j])
<1> DEFINE e == Residuals(x, y)
<1>1. /\ n \in Nat /\ n > 1 /\ 1 \in 1..n /\ n \in 1..n /\ i \in 1..n /\ j \in 1..n
      /\ x \in [1..n -> Int] /\ y \in [1..n -> Int]
  <2>1. n \in 1..20 /\ x \in [1..n -> Int] /\ y \in [1..n -> Int]
    BY Zenon DEF CloseFit
  <2>2. n > 1
    BY Zenon DEF Spanned
  <2>3. i \in 1..n /\ j \in 1..n
    BY Zenon DEF Extremes
  <2>4. n \in Nat /\ 1 \in 1..n /\ n \in 1..n
    BY <2>1, <2>2
  <2> QED
    BY <2>1, <2>2, <2>3, <2>4
<1>2. PICK hi \in Int, lo \in Int, first \in Int, last \in Int :
          /\ hi = y[i] /\ lo = y[j] /\ first = y[1] /\ last = y[n]
          /\ lo <= hi /\ lo <= first /\ last <= hi
  <2>1. y[i] \in Int /\ y[j] \in Int /\ y[1] \in Int /\ y[n] \in Int
    BY <1>1
  <2> QED
    BY <1>1, <2>1 DEF Extremes
<1>3. PICK range \in Nat : range = hi - lo
  BY <1>2
<1>4. CloseFit(n, x, y, range)
  BY <1>2, <1>3
<1>5. PICK vx \in Int, c \in Int, sx \in Int, sy \in Int :
          /\ vx = Covariance(x, x) /\ c = Covariance(x, y)
          /\ sx = SumFunction(x) /\ sy = SumFunction(y)
  BY <1>1, SequenceOfNumbers
<1>6. vx > 0 /\ c > 0
  BY <1>4, <1>5 DEF CloseFit
<1>7. PICK k \in Nat : k = n * vx /\ k > 0
  <2>1. PICK k \in Int : k = n * vx
    BY <1>1
  <2>2. k > 0
    BY <1>1, <1>6, <2>1
  <2> QED
    BY <2>1, <2>2
<1>8. e \in [1..n -> Int]
  BY <1>4, ErrorBudget
<1>9. PICK r \in Int, s \in Int : r = e[n] /\ s = e[1]
  <2> HIDE DEF e
  <2>1. e[n] \in Int /\ e[1] \in Int
    BY <1>1, <1>8
  <2> QED
    BY <2>1
<1>10. s - 2 * r <= k * range
  <2>1. PICK m \in Nat : m = k * range
    BY <1>3, <1>7
  <2>2. m = n * Covariance(x, x) * range
    BY <1>5, <1>7, <2>1
  <2>3. 5 * (e[n] * e[n] + e[1] * e[1]) <= m * m
    <3>1. \A a, b \in 1..n : a # b => 5 * (e[a] * e[a] + e[b] * e[b]) <= m * m
      BY <1>4, <2>2, ErrorBudget
    <3>2. n # 1
      BY <1>1
    <3> HIDE DEF e
    <3> QED
      BY <1>1, <3>1, <3>2
  <2>4. 5 * (r * r + s * s) <= m * m
    BY <1>9, <2>3
  <2> QED
    BY <2>1, <2>4, TwoErrors
<1>11. PICK d \in Int, f \in Int : d = x[n] /\ f = x[1] /\ h <= d - f
  BY <1>1
<1>12. /\ k * last = vx * sy + c * (n * d - sx) + r
       /\ k * first = vx * sy + c * (n * f - sx) + s
  BY <1>1, <1>2, <1>5, <1>7, <1>9, <1>11, ErrorOf
<1>13. c * (n * (d + h) - sx) <= 2 * (c * (n * d - sx)) - c * (n * f - sx)
  <2>1. PICK g0 \in Int : g0 = d - f /\ h <= g0
    BY <1>11
  <2>2. PICK u \in Int, w \in Int : u = n * h /\ w = n * (d - f) /\ u <= w
    <3>1. PICK u \in Int, w \in Int : u = n * h /\ w = n * g0
      BY <1>1
    <3>2. u <= w
      BY <1>1, <2>1, <3>1
    <3> QED
      BY <2>1, <3>1, <3>2
  <2>3. c * u <= c * w
    BY <1>6, <2>2
  <2>4. PICK t \in Int : t = c * (n * d - sx)
    BY <1>1
  <2>5. c * (n * (d + h) - sx) = t + c * u
    <3>1. c * (n * (d + h) - sx) = c * (n * d - sx) + c * (n * h)
      BY <1>1
    <3> QED
      BY <2>2, <2>4, <3>1
  <2>6. c * (n * f - sx) = t - c * w
    <3>1. c * (n * f - sx) = c * (n * d - sx) - c * (n * (d - f))
      BY <1>1
    <3> QED
      BY <2>2, <2>4, <3>1
  <2>7. PICK g \in Int, l \in Int : g = c * u /\ l = c * w
    OBVIOUS
  <2> QED
    BY <2>3, <2>4, <2>5, <2>6, <2>7
<1>14. sy * vx + c * (n * (d + h) - sx) <= k * (2 * last - first) + k * range
  <2>1. k * (2 * last - first) = 2 * (k * last) - k * first
    OBVIOUS
  <2>2. PICK t \in Int, u \in Int, w \in Int, z \in Int, a \in Int, b \in Int, q \in Int :
            /\ t = c * (n * (d + h) - sx) /\ u = c * (n * d - sx) /\ w = c * (n * f - sx)
            /\ z = vx * sy /\ a = k * last /\ b = k * first /\ q = k * range
    BY <1>1
  <2>3. sy * vx = z
    BY <2>2
  <2> QED
    BY <1>10, <1>12, <1>13, <2>1, <2>2, <2>3
<1>15. k * (2 * last - first) + k * range <= k * (3 * hi - 2 * lo)
  <2>1. 2 * last - first + range <= 3 * hi - 2 * lo
    BY <1>2, <1>3
  <2>2. PICK u \in Int, w \in Int : u = 2 * last - first + range /\ w = 3 * hi - 2 * lo
    <3>1. 2 * last - first + range \in Int /\ 3 * hi - 2 * lo \in Int
      OBVIOUS
    <3> QED
      BY <3>1
  <2>3. k * u <= k * w
    BY <2>1, <2>2
  <2>4. k * (2 * last - first) + k * range = k * (2 * last - first + range)
    OBVIOUS
  <2> QED
    BY <2>2, <2>3, <2>4
<1>16. sy * vx + c * (n * (d + h) - sx) <= k * (3 * hi - 2 * lo)
  <2>1. PICK a \in Int, b \in Int, g \in Int :
            /\ a = sy * vx + c * (n * (d + h) - sx) /\ b = k * (2 * last - first) + k * range
            /\ g = k * (3 * hi - 2 * lo)
    BY <1>1
  <2> QED
    BY <1>14, <1>15, <2>1
<1> QED
  BY <1>2, <1>5, <1>7, <1>11, <1>16, Zenon

\* The times and the rates of a fit, as LinearForecast names them.
FitTimes(fit) == [i \in 1..Len(fit) |-> fit[i].at - fit[1].at]
FitRates(fit) == [i \in 1..Len(fit) |-> fit[i].value]

\* Numbers have a greatest and a least.
LEMMA ExtremesExist ==
    ASSUME NEW n \in Nat, n > 0, NEW y \in [1..n -> Int]
    PROVE  \E i, j \in 1..n : Extremes(n, y, i, j)
<1>1. 1..n # {} /\ 1..n \subseteq 1..n
  OBVIOUS
<1>2. PICK i \in 1..n : \A k \in 1..n : y[k] <= y[i]
  BY <1>1, GreatestPosition
<1> DEFINE z == [k \in 1..n |-> -y[k]]
<1>3. z \in [1..n -> Int] /\ \A k \in 1..n : z[k] = -y[k] /\ y[k] \in Int
  OBVIOUS
<1> HIDE DEF z
<1>4. PICK j \in 1..n : \A k \in 1..n : z[k] <= z[j]
  BY <1>1, <1>3, GreatestPosition
<1>5. \A k \in 1..n : y[j] <= y[k]
  BY <1>3, <1>4
<1> QED
  BY <1>2, <1>5 DEF Extremes

\* Their difference is the range.
LEMMA RangeIsSpread ==
    ASSUME NEW n \in Nat, NEW y \in [1..n -> Int], NEW i, NEW j, Extremes(n, y, i, j)
    PROVE  ValueRange(y) = y[i] - y[j] /\ ValueRange(y) \in Nat
<1> DEFINE Spread(k, l) == y[k] - y[l]
           D == DOMAIN y
           T == {Spread(k, l) : k, l \in D}
<1>1. i \in D /\ j \in D /\ \A k \in D : y[k] \in Int /\ y[j] <= y[k] /\ y[k] <= y[i]
  BY DEF Extremes
<1>2. ValueRange(y) = CHOOSE d \in T : \A k, l \in D : Spread(k, l) <= d
  BY DEF ValueRange
<1> HIDE DEF D
<1>3. \A k, l \in D : Spread(k, l) \in Int /\ Spread(k, l) <= Spread(i, j)
  <2> TAKE k, l \in D
  <2>1. \A a, b, c, d \in Int : a <= c /\ d <= b => a - b \in Int /\ a - b <= c - d
    OBVIOUS
  <2>2. /\ y[k] \in Int /\ y[l] \in Int /\ y[i] \in Int /\ y[j] \in Int
        /\ y[k] <= y[i] /\ y[j] <= y[l]
    BY <1>1
  <2> QED
    BY <2>1, <2>2, Zenon
<1>4. Spread(i, j) \in Nat
  <2>1. PICK c \in Int, d \in Int : c = y[i] /\ d = y[j] /\ d <= c
    BY <1>1
  <2> QED
    BY <2>1
<1>5. Spread(i, j) \in T
  BY <1>1
<1>6. ASSUME NEW d \in T, \A k, l \in D : Spread(k, l) <= d PROVE d = Spread(i, j)
  <2>1. d \in Int /\ d <= Spread(i, j)
    BY <1>3
  <2>2. Spread(i, j) <= d
    BY <1>1, <1>6
  <2> HIDE DEF Spread
  <2> QED
    BY <1>4, <2>1, <2>2
<1>7. ValueRange(y) = Spread(i, j)
  <2> HIDE DEF T, Spread
  <2>1. \A k, l \in D : Spread(k, l) <= Spread(i, j)
    BY <1>3
  <2> QED
    BY <1>2, <1>5, <1>6, <2>1
<1> QED
  BY <1>4, <1>7

\* The times of a fit start at zero and rise.
LEMMA FitTimesSpan ==
    ASSUME NEW fit \in Seq(Sample), NEW now, NEW horizon, Fittable(fit, now, horizon)
    PROVE  /\ FitTimes(fit) \in [1..Len(fit) -> Int]
           /\ Spanned(Len(fit), FitTimes(fit))
           /\ FitTimes(fit)[1] = 0 /\ FitTimes(fit)[Len(fit)] = Span(fit)
<1> DEFINE n == Len(fit)
           x == FitTimes(fit)
           at == [i \in 1..n |-> fit[i].at]
<1>1. n \in Nat /\ \A i \in 1..n : fit[i].at \in Int
  <2>1. n \in Nat /\ \A i \in 1..n : fit[i] \in Sample
    OBVIOUS
  <2> QED
    BY <2>1 DEF Sample
<1>2. n > 1 /\ \A i \in 2..n : fit[i].at - fit[i - 1].at \in 1..MaximumSampleGap
  BY <1>1, ForecastAssumption DEF Fittable
<1>3. Span(fit) >= MinimumSpan /\ MinimumSpan \in Nat \ {0}
  BY ForecastAssumption DEF Fittable
<1>4. at \in [1..n -> Int] /\ \A i \in 1..n : at[i] = fit[i].at
  BY <1>1
<1> HIDE DEF at
<1>5. \A i \in 1..n : at[i] \in Int
  BY <1>4
<1>6. ASSUME NEW i \in 1..n, i # n PROVE i + 1 \in 1..n /\ at[i] < at[i + 1]
  <2>1. i + 1 \in 2..n /\ (i + 1) - 1 = i /\ i + 1 \in 1..n
    BY <1>1, <1>6
  <2>2. fit[i + 1].at - fit[i].at \in 1..MaximumSampleGap
    BY <1>2, <2>1
  <2>3. PICK a \in Int, b \in Int : a = at[i] /\ b = at[i + 1] /\ b - a \in 1..MaximumSampleGap
    BY <1>4, <1>5, <2>1, <2>2
  <2> QED
    BY <2>1, <2>3
<1>7. PICK i \in 1..n, j \in 1..n : \A k \in 1..n : at[j] <= at[k] /\ at[k] <= at[i]
  <2>1. PICK i \in 1..n, j \in 1..n : Extremes(n, at, i, j)
    <3> HIDE DEF n
    <3>1. n > 0
      BY <1>1, <1>2
    <3> QED
      BY <1>1, <1>4, <3>1, ExtremesExist
  <2> QED
    BY <2>1 DEF Extremes
<1>8. i = n
  <2>1. SUFFICES ASSUME i # n PROVE FALSE
    OBVIOUS
  <2>2. i + 1 \in 1..n /\ at[i] < at[i + 1]
    BY <1>6, <2>1
  <2> QED
    BY <1>5, <1>7, <2>2
<1>9. j = 1
  <2>1. SUFFICES ASSUME j # 1 PROVE FALSE
    OBVIOUS
  <2>2. j - 1 \in 1..n /\ j - 1 # n /\ (j - 1) + 1 = j
    BY <1>1, <2>1
  <2>3. at[j - 1] < at[j]
    BY <1>6, <2>2
  <2> QED
    BY <1>5, <1>7, <2>2, <2>3
<1>10. 1 \in 1..n /\ n \in 1..n
  BY <1>1, <1>2
<1>11. PICK first \in Int, last \in Int :
          first = at[1] /\ last = at[n] /\ Span(fit) = last - first
  <2>1. Span(fit) = at[n] - at[1]
    BY <1>4, <1>10 DEF Span
  <2> QED
    BY <1>5, <1>10, <2>1
<1>12. x \in [1..n -> Int] /\ \A i0 \in 1..n : x[i0] = at[i0] - first
  <2>1. x = [i0 \in 1..n |-> fit[i0].at - fit[1].at]
    BY DEF FitTimes
  <2> HIDE DEF n, x
  <2>2. \A i0 \in 1..n : fit[i0].at - fit[1].at = at[i0] - first
    BY <1>4, <1>10, <1>11
  <2>3. \A i0 \in 1..n : at[i0] - first \in Int
    BY <1>5, <1>11
  <2> QED
    BY <2>1, <2>2, <2>3
<1> HIDE DEF x
<1>13. x[1] = 0 /\ x[n] = Span(fit)
  BY <1>10, <1>11, <1>12
<1>14. ASSUME NEW k \in 1..n PROVE x[1] <= x[k] /\ x[k] <= x[n]
  <2>1. PICK a \in Int : a = at[k]
    BY <1>5
  <2>2. first <= a /\ a <= last
    BY <1>7, <1>8, <1>9, <1>11, <2>1
  <2>3. x[k] = a - first /\ x[n] = last - first /\ x[1] = 0
    BY <1>10, <1>11, <1>12, <1>13, <2>1
  <2> QED
    BY <2>2, <2>3
<1>15. x[1] < x[n]
  BY <1>3, <1>11, <1>13
<1> QED
  BY <1>2, <1>12, <1>13, <1>14, <1>15 DEF Spanned, x

\* The times of a fit differ, so that they have a variance.
LEMMA TimesVary ==
    ASSUME NEW n \in Nat, NEW x \in [1..n -> Int], Spanned(n, x)
    PROVE  Covariance(x, x) > 0 /\ 1 \in 1..n /\ n \in 1..n
<1>1. 1 \in 1..n /\ n \in 1..n
  BY DEF Spanned
<1>2. x[1] \in Int /\ x[n] \in Int /\ x[1] < x[n]
  BY <1>1 DEF Spanned
<1>3. x[1] # x[n]
  BY <1>2
<1> QED
  BY <1>1, <1>3, VariancePositive

\* What a forecast has been through that has a rate, and if it is of quality HIGH.
LEMMA MadeMeans ==
    ASSUME NEW s, NEW now, NEW horizon, LinearForecast(s, now, horizon).hasRate
    PROVE  LET fit == FitSamples(s)
               n   == Len(fit)
               x   == FitTimes(fit)
               y   == FitRates(fit)
               r   == LinearForecast(s, now, horizon)
           IN  /\ s # <<>> /\ ~(Len(s) > MaxSamples)
               /\ Fittable(fit, now, horizon)
               /\ Covariance(x, y) > 0
               /\ r.per = n * Covariance(x, x)
               /\ r.rate = SumFunction(y) * Covariance(x, x)
                             + Covariance(x, y) * (n * (Span(fit) + horizon) - SumFunction(x))
               /\ r.quality = "HIGH" =>
                     FitsWithin(95, 10, n, Covariance(x, x), Covariance(y, y),
                                Covariance(x, y), ValueRange(y))
<1> DEFINE fit == FitSamples(s)
           n   == Len(fit)
           x   == FitTimes(fit)
           y   == FitRates(fit)
           vx  == Covariance(x, x)
           vy  == Covariance(y, y)
           c   == Covariance(x, y)
           Refused == \/ s = <<>> \/ Len(s) > MaxSamples \/ ~Fittable(fit, now, horizon)
                      \/ vy = 0
           Within(r, e) == FitsWithin(r, e, n, vx, vy, c, ValueRange(y))
           Made == [quality  |-> IF Within(95, 10) THEN "HIGH"
                                 ELSE IF Within(85, 5) THEN "MEDIUM" ELSE "LOW",
                    hasTrend |-> TRUE,
                    hasRate  |-> TRUE,
                    slope    |-> c,
                    rate     |-> SumFunction(y) * vx + c * (n * (Span(fit) + horizon) - SumFunction(x)),
                    per      |-> n * vx]
<1>1. LinearForecast(s, now, horizon) =
        IF Refused THEN NoForecast
        ELSE IF ~Rising(c) THEN [NoForecast EXCEPT !.hasTrend = TRUE, !.slope = c]
        ELSE Made
  BY Zenon DEF LinearForecast, FitTimes, FitRates
<1>2. /\ ~NoForecast.hasRate
      /\ ~[NoForecast EXCEPT !.hasTrend = TRUE, !.slope = c].hasRate
  BY DEF NoForecast
<1>3. ~Refused /\ Rising(c) /\ LinearForecast(s, now, horizon) = Made
  <2> HIDE DEF Refused, Made, c
  <2> QED
    BY <1>1, <1>2
<1>4. Made.quality = "HIGH" => Within(95, 10)
  <2>1. Made.quality = IF Within(95, 10) THEN "HIGH" ELSE IF Within(85, 5) THEN "MEDIUM" ELSE "LOW"
    OBVIOUS
  <2> HIDE DEF Made, Within
  <2> QED
    BY <2>1
<1>5. /\ Made.per = n * vx
      /\ Made.rate = SumFunction(y) * vx + c * (n * (Span(fit) + horizon) - SumFunction(x))
  OBVIOUS
<1> HIDE DEF Made
<1> QED
  BY <1>3, <1>4, <1>5, Zenon DEF Rising

\* A forecast of quality HIGH has a rate.
LEMMA HighHasRate ==
    ASSUME NEW s, NEW now, NEW horizon, LinearForecast(s, now, horizon).quality = "HIGH"
    PROVE  LinearForecast(s, now, horizon).hasRate
BY DEF LinearForecast, NoForecast

\* What the proofs assume of a constant: the error that a fit is allowed in the
\* mean is the more for a single sample the more samples there are.
FewSamples == MaxSamples <= 20

\* A forecast of quality HIGH is of a rising line that is close to the fitted rates.
LEMMA HighIsClose ==
    ASSUME FewSamples, NEW s \in Seq(Sample), NEW now, NEW horizon,
           LinearForecast(s, now, horizon).quality = "HIGH"
    PROVE  LET fit == FitSamples(s)
               n   == Len(fit)
               x   == FitTimes(fit)
               y   == FitRates(fit)
           IN  /\ s # <<>> /\ fit \in Seq(Sample)
               /\ n \in Nat /\ n > 1 /\ y \in [1..n -> Int]
               /\ Spanned(n, x) /\ CloseFit(n, x, y, ValueRange(y))
<1> DEFINE fit == FitSamples(s)
           n   == Len(fit)
           x   == FitTimes(fit)
           y   == FitRates(fit)
           vx  == Covariance(x, x)
           vy  == Covariance(y, y)
           c   == Covariance(x, y)
           range == ValueRange(y)
<1>1. /\ s # <<>> /\ ~(Len(s) > MaxSamples) /\ Fittable(fit, now, horizon)
      /\ c > 0 /\ FitsWithin(95, 10, n, vx, vy, c, range)
  BY HighHasRate, MadeMeans
<1>2. fit \in Seq(Sample) /\ Len(fit) <= Len(s)
  BY <1>1, FitIsItsOwnWindow
<1>3. /\ x \in [1..n -> Int] /\ Spanned(n, x)
  BY <1>1, <1>2, FitTimesSpan
<1>4. n \in Nat /\ n > 1 /\ n <= 20
  <2>1. n \in Nat /\ Len(s) \in Nat
    BY <1>2
  <2>2. n <= MaxSamples /\ MaxSamples \in Nat
    BY <1>1, <1>2, <2>1, ForecastAssumption
  <2> QED
    BY <1>3, <2>1, <2>2 DEF Spanned, FewSamples
<1>5. y \in [1..n -> Int]
  <2>1. \A i \in 1..n : fit[i] \in Sample
    BY <1>2
  <2> QED
    BY <2>1 DEF FitRates, Sample
<1> HIDE DEF fit, n, x, y
<1>6. range \in Nat
  <2>1. n > 0
    BY <1>4
  <2>2. PICK i \in 1..n, j \in 1..n : Extremes(n, y, i, j)
    BY <1>4, <1>5, <2>1, ExtremesExist
  <2> QED
    BY <1>4, <1>5, <2>2, RangeIsSpread
<1>7. vx > 0
  BY <1>3, <1>4, TimesVary
<1> HIDE DEF vx, vy, c, range
<1>8. 10 * 10 * (vx * vy - c * c) <= n * n * vx * range * range
  BY <1>1, Zenon DEF FitsWithin
<1>9. n \in 1..20
  BY <1>4
<1>10. CloseFit(n, x, y, range)
  BY <1>1, <1>3, <1>5, <1>6, <1>7, <1>8, <1>9, Zenon DEF CloseFit, vx, vy, c
<1> QED
  BY <1>1, <1>2, <1>3, <1>4, <1>5, <1>10 DEF fit, n, x, y, range

\* The highest and the lowest rate of a history.
LEMMA HighestAndLowest ==
    ASSUME NEW w \in Seq(Sample), NEW i, NEW j, Extremes(Len(w), FitRates(w), i, j)
    PROVE  Highest(w) = FitRates(w)[i] /\ Lowest(w) = FitRates(w)[j]
<1> DEFINE y == FitRates(w)
           n == Len(w)
<1>1. DOMAIN w = 1..n /\ \A k \in 1..n : w[k].value = y[k] /\ y[k] \in Int
  <2>1. \A k \in 1..n : w[k] \in Sample
    OBVIOUS
  <2> QED
    BY <2>1 DEF FitRates, Sample
<1>2. /\ i \in 1..n /\ j \in 1..n
      /\ \A k \in 1..n : y[j] <= y[k] /\ y[k] <= y[i]
  BY DEF Extremes
<1> HIDE DEF y, n
<1>3. /\ \A v \in Values(w) : v \in Int /\ v <= y[i] /\ v >= y[j]
      /\ y[i] \in Values(w) /\ y[j] \in Values(w)
  BY <1>1, <1>2 DEF Values
<1>4. ASSUME NEW v \in Values(w), \A u \in Values(w) : u <= v PROVE v = y[i]
  BY <1>3, <1>4
<1>5. ASSUME NEW v \in Values(w), \A u \in Values(w) : u >= v PROVE v = y[j]
  BY <1>3, <1>5
<1>6. \A u \in Values(w) : u <= y[i] /\ u >= y[j]
  BY <1>3
<1>7. Highest(w) = y[i]
  BY <1>3, <1>4, <1>6 DEF Highest
<1>8. Lowest(w) = y[j]
  BY <1>3, <1>5, <1>6 DEF Lowest
<1> QED
  BY <1>7, <1>8 DEF y

\* What both theorems about a trusted trend start from.
LEMMA TrustedTrend ==
    ASSUME FewSamples, Answers, answered.quality = "HIGH"
    PROVE  LET n == Len(Window)
               x == FitTimes(Window)
               y == FitRates(Window)
           IN  /\ answered = LinearForecast(asked.samples,
                                            Latest(asked.samples) + asked.age, asked.horizon)
               /\ Window = FitSamples(asked.samples) /\ Window \in Seq(Sample)
               /\ n \in Nat /\ n > 1 /\ y \in [1..n -> Int] /\ Spanned(n, x)
               /\ \E i, j \in 1..n : /\ Extremes(n, y, i, j)
                                     /\ CloseFit(n, x, y, y[i] - y[j])
                                     /\ Highest(Window) = y[i] /\ Lowest(Window) = y[j]
<1> DEFINE s == asked.samples
           now == Latest(s) + asked.age
           n == Len(Window)
           x == FitTimes(Window)
           y == FitRates(Window)
<1>1. s \in Seq(Sample)
  BY SampleHistoriesAssumption DEF Answers, Sample
<1>2. answered = LinearForecast(s, now, asked.horizon)
  <2>1. NoForecast.quality # "HIGH"
    BY DEF NoForecast
  <2> QED
    BY <2>1 DEF Answers, Forecasted
<1>3. Window = FitSamples(s)
  BY DEF Window, FitSamples, Latest
<1>4. /\ Window \in Seq(Sample) /\ n \in Nat /\ n > 1 /\ y \in [1..n -> Int]
      /\ Spanned(n, x) /\ CloseFit(n, x, y, ValueRange(y))
  BY <1>1, <1>2, <1>3, HighIsClose
<1> HIDE DEF n, x, y
<1>5. PICK i \in 1..n, j \in 1..n : Extremes(n, y, i, j)
  <2>1. n > 0
    BY <1>4
  <2> QED
    BY <1>4, <2>1, ExtremesExist
<1>6. ValueRange(y) = y[i] - y[j]
  <2>1. n \in Nat /\ y \in [1..n -> Int]
    BY <1>4
  <2> QED
    BY <1>5, <2>1, RangeIsSpread
<1>7. Highest(Window) = y[i] /\ Lowest(Window) = y[j]
  BY <1>4, <1>5, HighestAndLowest DEF n, y
<1>8. CloseFit(n, x, y, y[i] - y[j])
  BY <1>4, <1>6
<1> QED
  BY <1>2, <1>3, <1>4, <1>5, <1>7, <1>8 DEF n, x, y

\* So long as few samples are kept, they are, and the question has that answer.
LEMMA SpecFew == FewSamples /\ ForecastSpec => [](FewSamples /\ Answers)
<1>1. FewSamples /\ ForecastInit => FewSamples /\ Answers
  BY DEF ForecastInit, Answers
<1>2. FewSamples /\ Answers /\ [ForecastNext]_forecastVars => (FewSamples /\ Answers)'
  BY DEF FewSamples, Answers, ForecastNext, ForecastOnce, forecastVars, Forecasted, Latest
<1> QED
  BY <1>1, <1>2, PTL DEF ForecastSpec

\* However the fitted samples are spread over their window, a trusted forecast
\* exceeds the highest of their rates by no more than twice their range, so long
\* as no more than 20 of them are kept.
THEOREM TrustedForecastIsBounded == FewSamples /\ ForecastSpec => []BoundedExtrapolation
<1>1. ASSUME FewSamples, Answers PROVE BoundedExtrapolation
  <2> DEFINE n == Len(Window)
             x == FitTimes(Window)
             y == FitRates(Window)
             h == asked.horizon
  <2> SUFFICES ASSUME answered.quality = "HIGH"
               PROVE  answered.rate <= answered.per * (3 * Highest(Window) - 2 * Lowest(Window))
    BY DEF BoundedExtrapolation
  <2>1. /\ answered = LinearForecast(asked.samples, Latest(asked.samples) + asked.age, h)
        /\ Window = FitSamples(asked.samples) /\ Window \in Seq(Sample) /\ Spanned(n, x)
    BY <1>1, TrustedTrend
  <2>2. PICK i \in 1..n, j \in 1..n :
            /\ Extremes(n, y, i, j) /\ CloseFit(n, x, y, y[i] - y[j])
            /\ Highest(Window) = y[i] /\ Lowest(Window) = y[j]
    BY <1>1, TrustedTrend
  <2>3. /\ Fittable(Window, Latest(asked.samples) + asked.age, h)
        /\ answered.per = n * Covariance(x, x)
        /\ answered.rate = SumFunction(y) * Covariance(x, x)
                             + Covariance(x, y) * (n * (Span(Window) + h) - SumFunction(x))
    BY <2>1, HighHasRate, MadeMeans
  <2>4. x[1] = 0 /\ x[n] = Span(Window) /\ x \in [1..n -> Int]
    BY <2>1, <2>3, FitTimesSpan
  <2>5. h \in Nat /\ h <= x[n] - x[1]
    <3>1. h \in Int
      BY <1>1, PlanningHorizonsAssumption DEF Answers
    <3>2. h > 0 /\ h <= Span(Window)
      BY <2>3 DEF Fittable
    <3>3. x[n] \in Int
      <4>1. n \in 1..n
        BY <2>1 DEF Spanned
      <4> QED
        BY <2>4, <4>1
    <3> QED
      BY <2>4, <3>1, <3>2, <3>3
  <2> HIDE DEF n, x, y, h
  <2>6. SumFunction(y) * Covariance(x, x) + Covariance(x, y) * (n * (x[n] + h) - SumFunction(x))
          <= n * Covariance(x, x) * (3 * y[i] - 2 * y[j])
    BY <2>1, <2>2, <2>5, CloseFitProjects
  <2> QED
    BY <2>2, <2>3, <2>4, <2>6, Zenon
<1> QED
  BY <1>1, SpecFew, PTL

\* However the fitted samples are spread over their window, a trusted trend is
\* one of the rates: the last exceeds the first by a tenth of their range, so long
\* as no more than 20 of them are kept.
THEOREM TrustedTrendRises == FewSamples /\ ForecastSpec => []TrendIsInTheRates
<1>1. ASSUME FewSamples, Answers PROVE TrendIsInTheRates
  <2> DEFINE n == Len(Window)
             x == FitTimes(Window)
             y == FitRates(Window)
  <2> SUFFICES ASSUME answered.quality = "HIGH"
               PROVE  10 * (Window[n].value - Window[1].value) >= Highest(Window) - Lowest(Window)
    BY DEF TrendIsInTheRates
  <2>1. n \in Nat /\ n > 1 /\ y \in [1..n -> Int] /\ Spanned(n, x) /\ Window \in Seq(Sample)
    BY <1>1, TrustedTrend
  <2>2. PICK i \in 1..n, j \in 1..n :
            /\ Extremes(n, y, i, j) /\ CloseFit(n, x, y, y[i] - y[j])
            /\ Highest(Window) = y[i] /\ Lowest(Window) = y[j]
    BY <1>1, TrustedTrend
  <2>3. 1 \in 1..n /\ n \in 1..n /\ y[1] = Window[1].value /\ y[n] = Window[n].value
    BY <2>1 DEF FitRates
  <2> HIDE DEF n, x, y
  <2>4. 10 * (y[n] - y[1]) >= y[i] - y[j]
    <3>1. CASE y[i] # y[j]
      BY <2>1, <2>2, <3>1, CloseFitRises
    <3>2. CASE y[i] = y[j]
      <4>1. y[i] \in Int /\ y[1] \in Int /\ y[n] \in Int
        BY <2>1, <2>2, <2>3
      <4>2. y[j] <= y[1] /\ y[1] <= y[i] /\ y[j] <= y[n] /\ y[n] <= y[i]
        BY <2>2, <2>3 DEF Extremes
      <4> QED
        BY <3>2, <4>1, <4>2
    <3> QED
      BY <3>1, <3>2
  <2> QED
    BY <2>2, <2>3, <2>4, Zenon
<1> QED
  BY <1>1, SpecFew, PTL

\* None of the times is past the last, and so their mean is not.
LEMMA SumOfTimes ==
    ASSUME NEW n \in Nat, NEW x \in [1..n -> Int], Spanned(n, x)
    PROVE  SumFunction(x) <= n * x[n]
<1> DEFINE D == 1..n
           h == Combination(D, -1, x, 0, x, 0, x, x[n])
<1>1. IsFiniteSet(D) /\ Cardinality(D) = n /\ n \in D
  BY FS_Interval, TimesVary
<1>2. PICK last \in Int, sum \in Int : last = x[n] /\ sum = SumFunction(x)
  BY <1>1, SequenceOfNumbers
<1>3. h \in [D -> Nat]
  <2>1. ASSUME NEW i \in D PROVE Linear(-1, x[i], 0, x[i], 0, x[i], 1, x[n]) \in Nat
    <3>1. PICK a \in Int : a = x[i] /\ a <= last
      BY <1>2 DEF Spanned
    <3> QED
      BY <1>2, <3>1 DEF Linear
  <2> QED
    BY <2>1 DEF Combination
<1>4. SumFunction(h) = -1 * sum + 0 * sum + 0 * sum + n * last
  <2>1. SumsCombine(D, x, x, x)
    <3>1. x \in Numbers(D)
      BY DEF Numbers
    <3> QED
      BY <1>1, <3>1, SumCombination
  <2>2. SumFunction(Combination(D, -1, x, 0, x, 0, x, last)) =
          Linear(-1, SumFunction(x), 0, SumFunction(x), 0, SumFunction(x), Cardinality(D), last)
    BY <2>1 DEF SumsCombine
  <2> QED
    BY <1>1, <1>2, <2>2 DEF Linear
<1>5. SumFunction(h) \in Nat
  BY <1>1, <1>3, SumOfNaturals
<1> HIDE DEF h
<1>6. PICK m \in Int : m = n * last
  OBVIOUS
<1>7. -1 * sum + 0 * sum + 0 * sum + m >= 0
  BY <1>4, <1>5, <1>6
<1> QED
  BY <1>2, <1>6, <1>7

\* Whatever the history, the forecast that is made of it is no lower than the mean
\* of the fitted rates, which are none of them negative: of a rising line it is the
\* value past the last sample.
THEOREM ForecastAboveMean == ForecastSpec => []NeverBelowTheMean
<1>1. ASSUME Answers PROVE NeverBelowTheMean
  <2> DEFINE s == asked.samples
             fit == FitSamples(s)
             h == asked.horizon
             n == Len(fit)
             x == FitTimes(fit)
             y == FitRates(fit)
  <2> SUFFICES ASSUME answered.hasRate
               PROVE  /\ answered.per > 0 /\ answered.rate >= 0
                      /\ n * answered.rate >= answered.per * SumFunction(y)
    BY DEF NeverBelowTheMean, Window, FitSamples, Latest, FitRates
  <2>1. s \in Seq(Sample) /\ h \in Int
    BY <1>1, SampleHistoriesAssumption, PlanningHorizonsAssumption DEF Answers, Sample
  <2>2. answered = LinearForecast(s, Latest(s) + asked.age, h)
    <3>1. ~NoForecast.hasRate
      BY DEF NoForecast
    <3> QED
      BY <1>1, <3>1 DEF Answers, Forecasted
  <2>3. /\ s # <<>> /\ Fittable(fit, Latest(s) + asked.age, h) /\ Covariance(x, y) > 0
        /\ answered.per = n * Covariance(x, x)
        /\ answered.rate = SumFunction(y) * Covariance(x, x)
                             + Covariance(x, y) * (n * (Span(fit) + h) - SumFunction(x))
    BY <2>2, MadeMeans
  <2>4. fit \in Seq(Sample)
    BY <2>1, <2>3, FitIsItsOwnWindow
  <2>5. x \in [1..n -> Int] /\ Spanned(n, x) /\ x[n] = Span(fit)
    BY <2>3, <2>4, FitTimesSpan
  <2>6. n \in Nat /\ n > 0
    BY <2>4, <2>5 DEF Spanned
  <2>7. y \in [1..n -> Nat]
    <3>1. \A i \in 1..n : fit[i].value \in Int /\ fit[i].value >= 0
      <4>1. \A i \in 1..n : fit[i] \in Sample
        BY <2>4
      <4> QED
        BY <2>3, <4>1 DEF Fittable, Sample
    <3> QED
      BY <3>1 DEF FitRates
  <2>8. h > 0
    BY <2>3 DEF Fittable
  <2> HIDE DEF s, fit, h, n, x, y
  <2>9. PICK sy \in Nat, sx \in Int, vx \in Int, c \in Int, last \in Int :
            /\ sy = SumFunction(y) /\ sx = SumFunction(x) /\ vx = Covariance(x, x)
            /\ c = Covariance(x, y) /\ last = x[n]
            /\ vx > 0 /\ c > 0 /\ sx <= n * last
    <3>1. SumFunction(y) \in Nat
      <4>1. IsFiniteSet(1..n)
        BY <2>6, FS_Interval
      <4> QED
        BY <2>7, <4>1, SumOfNaturals
    <3>2. y \in [1..n -> Int]
      BY <2>7
    <3>3. SumFunction(x) \in Int /\ Covariance(x, x) \in Int /\ Covariance(x, y) \in Int
      BY <2>5, <2>6, <3>2, SequenceOfNumbers
    <3>4. Covariance(x, x) > 0 /\ x[n] \in Int /\ SumFunction(x) <= n * x[n]
      BY <2>5, <2>6, TimesVary, SumOfTimes
    <3> QED
      BY <2>3, <3>1, <3>3, <3>4
  <2>10. n * (last + h) - sx >= 0
    <3>1. PICK g \in Nat, k \in Int : g = n * h /\ k = n * last
      BY <2>1, <2>6, <2>8
    <3>2. n * (last + h) = k + g
      BY <2>1, <2>6, <3>1
    <3> QED
      BY <2>9, <3>1, <3>2
  <2>11. PICK gain \in Nat : gain = c * (n * (last + h) - sx)
    <3>1. PICK g \in Nat : g = n * (last + h) - sx
      BY <2>1, <2>6, <2>10
    <3> QED
      BY <2>9, <3>1
  <2>12. answered.rate = sy * vx + gain /\ answered.per = n * vx
    BY <2>3, <2>5, <2>9, <2>11, Zenon
  <2>13. sy * vx + gain >= 0 /\ n * vx > 0
    <3>1. sy * vx \in Nat /\ n * vx > 0
      BY <2>6, <2>9
    <3> QED
      BY <3>1
  <2>14. n * (sy * vx + gain) >= (n * vx) * sy
    <3>1. n * (sy * vx + gain) = (n * vx) * sy + n * gain
      BY <2>6
    <3>2. PICK k \in Int, g \in Nat : k = (n * vx) * sy /\ g = n * gain
      BY <2>6
    <3> QED
      BY <3>1, <3>2
  <2> QED
    BY <2>9, <2>12, <2>13, <2>14, Zenon
<1> QED
  BY <1>1, SpecAnswers, PTL

-----------------------------------------------------------------------------
\* Capacity estimates.

\* The nearest rank of the 20th percentile is a rank, and no more than a fifth of
\* the values lie before it.
LEMMA RankFacts ==
    ASSUME NEW n \in Nat, n # 0
    PROVE  /\ PercentileRank(n) \in 1..n
           /\ 5 * (PercentileRank(n) - 1) < n
           /\ n <= 5 => PercentileRank(n) = 1
BY DEF PercentileRank

\* The positions below a value, and at most at it.
Under(s, v) == {i \in DOMAIN s : s[i].value < v}
UpToValue(s, v) == {i \in DOMAIN s : s[i].value <= v}

\* Some value has the rank of the percentile, however the values repeat.
LEMMA RankedValue ==
    ASSUME NEW s \in Seq(Sample), s # <<>>,
           NEW r \in 1..Len(s)
    PROVE  \E v \in Values(s) : /\ Cardinality(Under(s, v)) < r
                                /\ r <= Cardinality(UpToValue(s, v))
<1> DEFINE n == Len(s)
           f == [i \in 1..n |-> s[i].value]
           T == {i \in 1..n : r <= Cardinality(UpToValue(s, f[i]))}
<1>1. n \in Nat /\ 1 \in 1..n /\ DOMAIN s = 1..n /\ r \in 1..n
  OBVIOUS
<1>2. f \in [1..n -> Int] /\ \A i \in 1..n : f[i] = s[i].value
  <2>1. \A i \in 1..n : s[i] \in Sample
    BY <1>1
  <2> QED
    BY <2>1 DEF Sample
<1> HIDE DEF f, n
<1>3. \A v : /\ Under(s, v) = {i \in 1..n : f[i] < v}
             /\ UpToValue(s, v) = {i \in 1..n : f[i] <= v}
  BY <1>1, <1>2 DEF Under, UpToValue
<1>4. T # {}
  <2>1. PICK i \in 1..n : \A j \in 1..n : f[j] <= f[i]
    <3>1. 1..n # {}
      BY <1>1
    <3>2. 1..n \subseteq 1..n
      OBVIOUS
    <3> QED
      BY <1>1, <1>2, <3>1, <3>2, GreatestPosition
  <2>2. UpToValue(s, f[i]) = 1..n
    BY <1>3, <2>1
  <2>3. Cardinality(1..n) = n
    BY <1>1, FS_Interval
  <2>4. i \in T
    BY <1>1, <2>1, <2>2, <2>3
  <2> QED
    BY <2>4
<1>5. PICK i \in T : \A j \in T : f[i] <= f[j]
  <2> DEFINE g == [k \in 1..n |-> -f[k]]
  <2>1. g \in [1..n -> Int] /\ T \subseteq 1..n
    BY <1>2
  <2>2. PICK i \in T : \A j \in T : g[j] <= g[i]
    <3> HIDE DEF g, T
    <3> QED
      BY <1>1, <1>4, <2>1, GreatestPosition
  <2>3. ASSUME NEW j \in T PROVE f[i] <= f[j]
    <3>1. f[i] \in Int /\ f[j] \in Int /\ g[i] = -f[i] /\ g[j] = -f[j]
      BY <1>2, <2>1
    <3> HIDE DEF g
    <3> QED
      BY <2>2, <3>1
  <2> QED
    BY <2>3
<1>6. i \in 1..n /\ f[i] \in Int /\ r <= Cardinality(UpToValue(s, f[i]))
  BY <1>2
<1>7. Under(s, f[i]) \subseteq 1..n /\ Cardinality(Under(s, f[i])) \in Nat
  <2>1. Under(s, f[i]) \subseteq 1..n
    BY <1>1 DEF Under
  <2> QED
    BY <1>1, <2>1, UpToFacts
<1>8. Cardinality(Under(s, f[i])) < r
  <2>1. SUFFICES ASSUME r <= Cardinality(Under(s, f[i])) PROVE FALSE
    BY <1>1, <1>7
  <2>2. Under(s, f[i]) # {}
    <3>1. Cardinality({}) = 0
      BY FS_EmptySet
    <3>2. r >= 1
      BY <1>1
    <3>3. ~(r <= 0)
      BY <1>1, <3>2
    <3> QED
      BY <2>1, <3>1, <3>3
  <2>3. PICK j \in Under(s, f[i]) : \A k \in Under(s, f[i]) : f[k] <= f[j]
    BY <1>1, <1>2, <1>7, <2>2, GreatestPosition
  <2>4. j \in 1..n /\ f[j] < f[i] /\ f[j] \in Int
    BY <1>2, <1>3, <2>3
  <2>5. \A k \in 1..n : f[k] <= f[j] <=> f[k] < f[i]
    BY <1>2, <1>3, <1>6, <2>3, <2>4
  <2>6. UpToValue(s, f[j]) = Under(s, f[i])
    BY <1>3, <2>5
  <2>7. j \in T
    BY <2>1, <2>4, <2>6
  <2> QED
    BY <1>5, <1>6, <2>4, <2>7
<1>9. f[i] \in Values(s)
  BY <1>1, <1>2, <1>6 DEF Values
<1> QED
  BY <1>6, <1>8, <1>9

\* Of any history, the credited efficiency is a sample that four fifths of the
\* samples, and all of up to five, reached or exceeded.
THEOREM EstimateIsConservative == ForecastSpec => []CapacityIsConservative
<1>1. ASSUME Answers PROVE CapacityIsConservative
  <2> DEFINE s == asked.samples
             n == Len(s)
             r == PercentileRank(n)
             v == ConservativeValue(s)
             Reached == {i \in DOMAIN s : s[i].value >= v}
  <2> SUFFICES ASSUME s # <<>>
               PROVE  /\ v \in Values(s)
                      /\ 5 * Cardinality(Reached) >= 4 * n
                      /\ n <= 5 => Cardinality(Reached) = n
    BY DEF CapacityIsConservative
  <2>1. s \in Seq(Sample)
    BY <1>1, SampleHistoriesAssumption DEF Answers, Sample
  <2> HIDE DEF s
  <2>2. n \in Nat /\ n # 0 /\ DOMAIN s = 1..n
    BY <2>1
  <2>3. r \in 1..n /\ 5 * (r - 1) < n /\ (n <= 5 => r = 1)
    BY <2>2, RankFacts
  <2> HIDE DEF r
  <2>4. v = CHOOSE w \in Values(s) : /\ Cardinality(Under(s, w)) < r
                                     /\ r <= Cardinality(UpToValue(s, w))
    BY Zenon DEF ConservativeValue, Values, Under, UpToValue, r
  <2>5. v \in Values(s) /\ Cardinality(Under(s, v)) < r
    BY <2>1, <2>3, <2>4, RankedValue
  <2> HIDE DEF v
  <2>6. Under(s, v) \subseteq 1..n /\ Reached = (1..n) \ Under(s, v)
    <3>1. v \in Int /\ \A i \in 1..n : s[i].value \in Int
      <4>1. \A i \in 1..n : s[i] \in Sample
        BY <2>1
      <4> QED
        BY <2>2, <2>5, <4>1 DEF Values, Sample
    <3> QED
      BY <2>2, <3>1 DEF Under
  <2> HIDE DEF n, Reached
  <2>7. /\ IsFiniteSet(1..n) /\ Cardinality(1..n) = n
        /\ IsFiniteSet(Under(s, v)) /\ Cardinality(Under(s, v)) \in Nat
    <3>1. IsFiniteSet(1..n) /\ Cardinality(1..n) = n
      BY <2>2, FS_Interval
    <3> QED
      BY <2>2, <2>6, <3>1, UpToFacts
  <2>8. Cardinality(Reached) = n - Cardinality(Under(s, v))
    <3>1. (1..n) \cap Under(s, v) = Under(s, v)
      BY <2>6
    <3>2. Cardinality((1..n) \ Under(s, v)) =
            Cardinality(1..n) - Cardinality((1..n) \cap Under(s, v))
      BY <2>7, FS_Difference, Zenon
    <3> QED
      BY <2>6, <2>7, <3>1, <3>2
  <2> QED
    BY <2>2, <2>3, <2>5, <2>7, <2>8
<1> QED
  BY <1>1, SpecAnswers, PTL

-----------------------------------------------------------------------------
\* Histories.

SampleType == [at : Int, value : Nat]

\* What KeepNewest drops is at the front, and only of a history that is too long.
LEMMA KeepNewestFacts ==
    ASSUME NEW h \in Seq(SampleType)
    PROVE  /\ KeepNewest(h) \in Seq(SampleType)
           /\ Len(KeepNewest(h)) <= MaxSamples
           /\ \E d \in Nat :
                 /\ Len(KeepNewest(h)) = Len(h) - d
                 /\ d > 0 => Len(KeepNewest(h)) = MaxSamples
                 /\ \A j \in 1..Len(KeepNewest(h)) : KeepNewest(h)[j] = h[j + d]
<1>1. MaxSamples \in Nat \ {0} /\ Len(h) \in Nat
  BY ForecastAssumption
<1>2. CASE Len(h) > MaxSamples
  <2> DEFINE d == Len(h) - MaxSamples
             r == SubSeq(h, d + 1, Len(h))
  <2>1. KeepNewest(h) = r
    BY <1>2 DEF KeepNewest
  <2>2. d \in Nat /\ d > 0 /\ MaxSamples = Len(h) - d
    BY <1>1, <1>2
  <2>3. r \in Seq(SampleType) /\ Len(r) = MaxSamples
    BY <1>1, <2>2
  <2>4. \A j \in 1..Len(r) : r[j] = h[j + d]
    BY <1>1, <2>2, <2>3
  <2> HIDE DEF d, r
  <2> QED
    BY <1>1, <2>1, <2>2, <2>3, <2>4
<1>3. CASE ~(Len(h) > MaxSamples)
  <2>1. KeepNewest(h) = h
    BY <1>3 DEF KeepNewest
  <2>2. \A j \in 1..Len(h) : h[j] = h[j + 0]
    OBVIOUS
  <2> QED
    BY <1>1, <1>3, <2>1, <2>2
<1> QED
  BY <1>2, <1>3

\* A history that is cut stays in order and keeps the newest.
LEMMA CutFacts ==
    ASSUME NEW h \in Seq(SampleType), InOrder(h)
    PROVE  LET r == KeepNewest(h)
           IN  /\ r \in Seq(SampleType)
               /\ Len(r) <= MaxSamples
               /\ InOrder(r)
               /\ \A j \in DOMAIN r : \E i \in DOMAIN h : r[j] = h[i]
               /\ \A i \in DOMAIN h :
                     \/ \E j \in DOMAIN r : r[j] = h[i]
                     \/ Len(r) = MaxSamples /\ \A j \in DOMAIN r : r[j].at > h[i].at
<1> DEFINE r == KeepNewest(h)
<1>1. r \in Seq(SampleType) /\ Len(r) <= MaxSamples
  BY KeepNewestFacts
<1>2. PICK d \in Nat : /\ Len(r) = Len(h) - d
                       /\ d > 0 => Len(r) = MaxSamples
                       /\ \A j \in 1..Len(r) : r[j] = h[j + d]
  BY KeepNewestFacts
<1> HIDE DEF r
<1>3. DOMAIN r = 1..Len(r) /\ DOMAIN h = 1..Len(h) /\ Len(r) \in Nat /\ Len(h) \in Nat
  BY <1>1
<1>4. ASSUME NEW j \in DOMAIN r PROVE j + d \in DOMAIN h /\ r[j] = h[j + d]
  <2>1. j \in 1..Len(r)
    BY <1>3
  <2>2. r[j] = h[j + d]
    BY <1>2, <2>1
  <2>3. j + d \in 1..Len(h)
    BY <1>2, <1>3, <2>1
  <2> QED
    BY <1>3, <2>2, <2>3
<1>5. InOrder(r)
  <2>1. SUFFICES ASSUME NEW i \in DOMAIN r, NEW j \in DOMAIN r, i < j
                 PROVE  r[i].at < r[j].at
    BY DEF InOrder
  <2>2. i + d \in DOMAIN h /\ j + d \in DOMAIN h /\ i + d < j + d
    BY <1>3, <1>4, <2>1
  <2>3. h[i + d].at < h[j + d].at
    BY <2>2 DEF InOrder
  <2> QED
    BY <1>4, <2>3
<1>6. ASSUME NEW i \in DOMAIN h
      PROVE  \/ \E j \in DOMAIN r : r[j] = h[i]
             \/ Len(r) = MaxSamples /\ \A j \in DOMAIN r : r[j].at > h[i].at
  <2>1. CASE i > d
    <3>1. i - d \in DOMAIN r /\ (i - d) + d = i
      BY <1>2, <1>3, <2>1
    <3>2. r[i - d] = h[i]
      BY <1>4, <3>1
    <3> QED
      BY <3>1, <3>2
  <2>2. CASE ~(i > d)
    <3>1. d > 0
      BY <1>3, <2>2
    <3>2. ASSUME NEW j \in DOMAIN r PROVE h[i].at < r[j].at
      <4>1. i < j + d /\ j + d \in DOMAIN h
        BY <1>3, <1>4, <2>2
      <4>2. h[i].at < h[j + d].at
        BY <4>1 DEF InOrder
      <4> QED
        BY <1>4, <4>2
    <3>3. ASSUME NEW j \in DOMAIN r PROVE r[j].at > h[i].at
      <4>1. r[j] \in SampleType /\ h[i] \in SampleType
        BY <1>1
      <4>2. r[j].at \in Int /\ h[i].at \in Int
        BY <4>1 DEF SampleType
      <4> QED
        BY <3>2, <4>2
    <3> QED
      BY <1>2, <3>1, <3>3
  <2> QED
    BY <2>1, <2>2
<1> QED
  BY <1>1, <1>4, <1>5, <1>6 DEF r

\* A history still tells of time t: a sample of that time is in it, or it is
\* full of later ones.
Covers(r, t) ==
    \/ \E j \in DOMAIN r : r[j].at = t
    \/ Len(r) = MaxSamples /\ \A j \in DOMAIN r : t < r[j].at

\* A bounded history in order of time.
Histories == {h \in Seq(SampleType) : InOrder(h) /\ Len(h) <= MaxSamples}

\* The samples of a history at positions of it are in order of time too.
LEMMA SubsequenceInOrder ==
    ASSUME NEW h \in Seq(SampleType), InOrder(h), NEW P, P \subseteq DOMAIN h
    PROVE  InOrder(Subsequence(h, P))
<1> DEFINE q == Subsequence(h, P)
<1>1. /\ Cardinality(P) \in Nat /\ q \in Seq(SampleType) /\ Len(q) = Cardinality(P)
      /\ \A j \in 1..Cardinality(P) : Nth(P, j) \in P /\ q[j] = h[Nth(P, j)]
  BY SubsequenceFacts
<1> HIDE DEF q
<1>2. SUFFICES ASSUME NEW i \in DOMAIN q, NEW j \in DOMAIN q, i < j
               PROVE  q[i].at < q[j].at
  BY DEF InOrder, q
<1>3. i \in 1..Cardinality(P) /\ j \in 1..Cardinality(P)
  BY <1>1
<1>4. Len(h) \in Nat /\ P \subseteq 1..Len(h)
  OBVIOUS
<1>5. Nth(P, i) < Nth(P, j)
  BY <1>2, <1>3, <1>4, NthIncreasing
<1>6. Nth(P, i) \in DOMAIN h /\ Nth(P, j) \in DOMAIN h
  BY <1>1, <1>3
<1>7. h[Nth(P, i)].at < h[Nth(P, j)].at
  BY <1>5, <1>6 DEF InOrder
<1> QED
  BY <1>1, <1>3, <1>7

\* Pruning keeps timely samples of the history in order, and every timely sample
\* of enough value unless the history is full of later ones.
LEMMA PruneFacts ==
    ASSUME NEW h \in Seq(SampleType), InOrder(h), NEW now, NEW floor
    PROVE  LET r == pruneSamples(h, now, floor)
           IN  /\ r \in Histories
               /\ \A j \in DOMAIN r : Timely(r[j], now) /\ \E i \in DOMAIN h : r[j] = h[i]
               /\ \A i \in DOMAIN h :
                     Timely(h[i], now) /\ h[i].value >= floor => Covers(r, h[i].at)
<1> DEFINE P == {i \in DOMAIN h : Timely(h[i], now) /\ h[i].value >= floor}
           q == Subsequence(h, P)
           r == KeepNewest(q)
<1>1. pruneSamples(h, now, floor) = r
  BY DEF pruneSamples
<1>2. P \subseteq DOMAIN h
  OBVIOUS
<1>3. \A i \in P : Timely(h[i], now)
  OBVIOUS
<1>4. \A i \in DOMAIN h : Timely(h[i], now) /\ h[i].value >= floor => i \in P
  OBVIOUS
<1> HIDE DEF P
<1>5. /\ Cardinality(P) \in Nat /\ q \in Seq(SampleType) /\ Len(q) = Cardinality(P)
      /\ \A j \in 1..Cardinality(P) : Nth(P, j) \in P /\ q[j] = h[Nth(P, j)]
  BY <1>2, SubsequenceFacts
<1>6. InOrder(q)
  BY <1>2, SubsequenceInOrder
<1>7. DOMAIN q = 1..Cardinality(P)
  BY <1>5
<1> HIDE DEF q
<1>8. /\ r \in Seq(SampleType)
      /\ Len(r) <= MaxSamples
      /\ InOrder(r)
  BY <1>5, <1>6, CutFacts
<1>9. \A j \in DOMAIN r : \E i \in DOMAIN q : r[j] = q[i]
  BY <1>5, <1>6, CutFacts
<1>10. \A i \in DOMAIN q :
          \/ \E j \in DOMAIN r : r[j] = q[i]
          \/ Len(r) = MaxSamples /\ \A j \in DOMAIN r : r[j].at > q[i].at
  BY <1>5, <1>6, CutFacts
<1> HIDE DEF r
<1>11. ASSUME NEW j \in DOMAIN r
       PROVE  Timely(r[j], now) /\ \E i \in DOMAIN h : r[j] = h[i]
  <2>1. PICK i \in DOMAIN q : r[j] = q[i]
    BY <1>9
  <2>2. Nth(P, i) \in P /\ r[j] = h[Nth(P, i)]
    BY <1>5, <1>7, <2>1
  <2> QED
    BY <1>2, <1>3, <2>2
<1>12. ASSUME NEW i \in DOMAIN h, Timely(h[i], now), h[i].value >= floor
       PROVE  Covers(r, h[i].at)
  <2>1. i \in P
    BY <1>4, <1>12
  <2>2. Len(h) \in Nat /\ P \subseteq 1..Len(h)
    BY <1>2
  <2>3. PICK k \in 1..Cardinality(P) : Nth(P, k) = i
    BY <2>1, <2>2, NthOnto
  <2>4. k \in DOMAIN q /\ q[k] = h[i]
    BY <1>5, <1>7, <2>3
  <2> QED
    BY <1>10, <2>4 DEF Covers
<1> QED
  BY <1>1, <1>8, <1>11, <1>12 DEF Histories

\* A later sample at the end of a history: the oldest may make room, the history
\* stays in order and covers what it covered.
LEMMA ExtendFacts ==
    ASSUME NEW h \in Histories, NEW s \in SampleType,
           h = <<>> \/ h[Len(h)].at < s.at
    PROVE  LET r == KeepNewest(Append(h, s))
           IN  /\ r \in Histories
               /\ \A j \in DOMAIN r : r[j] = s \/ \E i \in DOMAIN h : r[j] = h[i]
               /\ \A t \in Int : Covers(h, t) => Covers(r, t)
<1> DEFINE q == Append(h, s)
           r == KeepNewest(q)
<1>1. h \in Seq(SampleType) /\ InOrder(h) /\ Len(h) <= MaxSamples
  BY DEF Histories
<1>2. /\ q \in Seq(SampleType) /\ Len(q) = Len(h) + 1 /\ Len(h) \in Nat
      /\ \A i \in 1..Len(h) : q[i] = h[i]
      /\ q[Len(h) + 1] = s
  BY <1>1
<1>3. DOMAIN h = 1..Len(h) /\ DOMAIN q = 1..(Len(h) + 1)
  BY <1>1, <1>2
<1> HIDE DEF q
<1>4. \A i \in 1..Len(h) : h[i] \in SampleType
  BY <1>1
<1>5. \A i \in 1..Len(h) : h[i].at < s.at
  <2>1. SUFFICES ASSUME NEW i \in 1..Len(h) PROVE h[i].at < s.at
    OBVIOUS
  <2>2. Len(h) \in 1..Len(h) /\ h # <<>>
    BY <1>2
  <2>3. h[Len(h)].at < s.at
    BY <2>2
  <2>4. CASE i = Len(h)
    BY <2>3, <2>4
  <2>5. CASE i # Len(h)
    <3>1. i < Len(h)
      BY <1>2, <2>5
    <3>2. h[i].at < h[Len(h)].at
      BY <1>1, <1>3, <2>2, <3>1 DEF InOrder
    <3>3. h[i].at \in Int /\ h[Len(h)].at \in Int /\ s.at \in Int
      BY <1>4, <2>2 DEF SampleType
    <3> QED
      BY <2>3, <3>2, <3>3
  <2> QED
    BY <2>4, <2>5
<1>6. InOrder(q)
  <2>1. SUFFICES ASSUME NEW i \in DOMAIN q, NEW j \in DOMAIN q, i < j
                 PROVE  q[i].at < q[j].at
    BY DEF InOrder
  <2>2. i \in 1..Len(h) /\ q[i] = h[i]
    BY <1>2, <1>3, <2>1
  <2>3. CASE j \in 1..Len(h)
    <3>1. h[i].at < h[j].at
      BY <1>1, <1>3, <2>1, <2>2, <2>3 DEF InOrder
    <3> QED
      BY <1>2, <2>2, <2>3, <3>1
  <2>4. CASE j = Len(h) + 1
    BY <1>2, <1>5, <2>2, <2>4
  <2> QED
    BY <1>2, <1>3, <2>3, <2>4
<1>7. /\ r \in Seq(SampleType) /\ Len(r) <= MaxSamples /\ InOrder(r)
      /\ \A j \in DOMAIN r : \E i \in DOMAIN q : r[j] = q[i]
  BY <1>2, <1>6, CutFacts
<1>8. \A i \in DOMAIN q :
          \/ \E j \in DOMAIN r : r[j] = q[i]
          \/ Len(r) = MaxSamples /\ \A j \in DOMAIN r : r[j].at > q[i].at
  BY <1>2, <1>6, CutFacts
<1>9. Len(h) = MaxSamples => Len(r) = MaxSamples
  <2>1. MaxSamples \in Nat \ {0}
    BY ForecastAssumption
  <2>2. SUFFICES ASSUME Len(h) = MaxSamples PROVE Len(r) = MaxSamples
    OBVIOUS
  <2>3. Len(q) > MaxSamples /\ Len(q) \in Nat
    BY <1>2, <2>2
  <2>4. r = SubSeq(q, Len(q) - MaxSamples + 1, Len(q))
    BY <2>3 DEF KeepNewest
  <2> QED
    BY <1>2, <2>1, <2>2, <2>4
<1> HIDE DEF r
<1>10. ASSUME NEW j \in DOMAIN r PROVE r[j] = s \/ \E i \in DOMAIN h : r[j] = h[i]
  <2>1. PICK i \in DOMAIN q : r[j] = q[i]
    BY <1>7
  <2>2. i \in 1..Len(h) \/ i = Len(h) + 1
    BY <1>2, <1>3
  <2> QED
    BY <1>2, <1>3, <2>1, <2>2
<1>11. ASSUME NEW t \in Int, Covers(h, t) PROVE Covers(r, t)
  <2>1. CASE \E i \in DOMAIN h : h[i].at = t
    <3>1. PICK i \in DOMAIN h : h[i].at = t
      BY <2>1
    <3>2. i \in DOMAIN q /\ q[i] = h[i]
      BY <1>2, <1>3
    <3> QED
      BY <1>8, <3>1, <3>2 DEF Covers
  <2>2. CASE Len(h) = MaxSamples /\ \A i \in DOMAIN h : t < h[i].at
    <3>1. MaxSamples \in Nat \ {0}
      BY ForecastAssumption
    <3>2. 1 \in DOMAIN h /\ h[1] \in SampleType
      BY <1>1, <1>2, <1>3, <1>4, <2>2, <3>1
    <3>3. t < h[1].at /\ h[1].at < s.at /\ h[1].at \in Int /\ s.at \in Int
      BY <1>3, <1>5, <2>2, <3>2 DEF SampleType
    <3>4. t < s.at
      BY <3>3
    <3>5. \A j \in DOMAIN r : t < r[j].at
      BY <1>10, <2>2, <3>4
    <3> QED
      BY <1>9, <2>2, <3>5 DEF Covers
  <2> QED
    BY <1>11, <2>1, <2>2 DEF Covers
<1> QED
  BY <1>7, <1>10, <1>11 DEF Histories, r, q

\* A sample of the time of the last one replaces it.
LEMMA ReplaceFacts ==
    ASSUME NEW h \in Histories, NEW s \in SampleType,
           h # <<>>, h[Len(h)].at = s.at
    PROVE  LET r == [h EXCEPT ![Len(h)] = s]
           IN  /\ r \in Histories
               /\ \A j \in DOMAIN r : r[j] = s \/ \E i \in DOMAIN h : r[j] = h[i]
               /\ \A t \in Int : Covers(h, t) => Covers(r, t)
<1> DEFINE r == [h EXCEPT ![Len(h)] = s]
<1>1. h \in Seq(SampleType) /\ InOrder(h) /\ Len(h) <= MaxSamples
  BY DEF Histories
<1>2. r \in Seq(SampleType) /\ Len(r) = Len(h) /\ DOMAIN r = DOMAIN h
  BY <1>1
<1>3. \A j \in DOMAIN h : r[j] = IF j = Len(h) THEN s ELSE h[j]
  BY <1>1
<1> HIDE DEF r
<1>4. \A j \in DOMAIN h : r[j].at = h[j].at
  BY <1>3
<1>5. InOrder(r)
  BY <1>1, <1>2, <1>4 DEF InOrder
<1>6. \A t \in Int : Covers(h, t) => Covers(r, t)
  BY <1>2, <1>4 DEF Covers
<1>7. \A j \in DOMAIN r : r[j] = s \/ \E i \in DOMAIN h : r[j] = h[i]
  BY <1>2, <1>3
<1> QED
  BY <1>1, <1>2, <1>5, <1>6, <1>7 DEF Histories, r

\* What an update makes of a history: bounded, in order, timely, of its samples
\* and the new one, and no timely sample of enough value is lost.
LEMMA AppendFacts ==
    ASSUME NEW h \in Seq(SampleType), InOrder(h), NEW s \in SampleType \union {NoSample},
           NEW now, NEW floor
    PROVE  LET r == AppendSample(h, s, now, floor)
           IN  /\ r \in Histories
               /\ \A j \in DOMAIN r :
                     /\ Timely(r[j], now)
                     /\ \/ r[j] = s /\ s # NoSample
                        \/ \E i \in DOMAIN h : r[j] = h[i]
               /\ \A i \in DOMAIN h :
                     Timely(h[i], now) /\ h[i].value >= floor => Covers(r, h[i].at)
<1> DEFINE k == pruneSamples(h, now, floor)
           r == AppendSample(h, s, now, floor)
<1>1. /\ k \in Histories
      /\ \A j \in DOMAIN k : Timely(k[j], now) /\ \E i \in DOMAIN h : k[j] = h[i]
  BY PruneFacts
<1>2. \A i \in DOMAIN h : Timely(h[i], now) /\ h[i].value >= floor => Covers(k, h[i].at)
  BY PruneFacts
<1>3. \/ r = k
      \/ /\ s # NoSample /\ Timely(s, now)
         /\ \/ (k = <<>> \/ k[Len(k)].at < s.at) /\ r = KeepNewest(Append(k, s))
            \/ k # <<>> /\ k[Len(k)].at = s.at /\ r = [k EXCEPT ![Len(k)] = s]
  BY DEF AppendSample, Acceptable
<1> HIDE DEF k, r
<1>4. ASSUME NEW i \in DOMAIN h PROVE h[i].at \in Int
  <2>1. h[i] \in SampleType
    OBVIOUS
  <2> QED
    BY <2>1 DEF SampleType
<1>5. CASE r = k
  BY <1>1, <1>2, <1>5 DEF r
<1>6. CASE r # k
  <2>1. s \in SampleType /\ s # NoSample /\ Timely(s, now)
    BY <1>3, <1>6
  <2>2. CASE (k = <<>> \/ k[Len(k)].at < s.at) /\ r = KeepNewest(Append(k, s))
    <3>1. /\ r \in Histories
          /\ \A j \in DOMAIN r : r[j] = s \/ \E i \in DOMAIN k : r[j] = k[i]
          /\ \A t \in Int : Covers(k, t) => Covers(r, t)
      BY <1>1, <2>1, <2>2, ExtendFacts
    <3> QED
      BY <1>1, <1>2, <1>4, <2>1, <3>1 DEF r
  <2>3. CASE k # <<>> /\ k[Len(k)].at = s.at /\ r = [k EXCEPT ![Len(k)] = s]
    <3>1. /\ r \in Histories
          /\ \A j \in DOMAIN r : r[j] = s \/ \E i \in DOMAIN k : r[j] = k[i]
          /\ \A t \in Int : Covers(k, t) => Covers(r, t)
      BY <1>1, <2>1, <2>3, ReplaceFacts
    <3> QED
      BY <1>1, <1>2, <1>4, <2>1, <3>1 DEF r
  <2> QED
    BY <1>3, <1>6, <2>2, <2>3
<1> QED
  BY <1>5, <1>6

\* A forecast is HIGH only of a fit that passed every test.
LEMMA HighIsFitted ==
    ASSUME NEW h, NEW now, NEW horizon, LinearForecast(h, now, horizon).quality = "HIGH"
    PROVE  Fittable(FitSamples(h), now, horizon)
<1> SUFFICES ASSUME ~Fittable(FitSamples(h), now, horizon) PROVE FALSE
  OBVIOUS
<1>1. LinearForecast(h, now, horizon) = NoForecast
  BY Zenon DEF LinearForecast
<1>2. NoForecast.quality = "LOW"
  BY DEF NoForecast
<1> QED
  BY <1>1, <1>2

-----------------------------------------------------------------------------
\* The memory.

\* Among entries that hold an update time one is the oldest, and Oldest picks it.
LEMMA OldestFacts ==
    ASSUME NEW live, live # {}, live \subseteq Nat,
           \A k \in live : histories[k].updated \in Nat
    PROVE  /\ Oldest(live) \in live
           /\ \A j \in live : histories[Oldest(live)].updated <= histories[j].updated
<1> DEFINE T == {histories[k].updated : k \in live}
<1>1. T \subseteq Nat /\ T # {}
  OBVIOUS
<1>2. PICK m \in T : \A n \in T : m <= n
  <2> HIDE DEF T
  <2> QED
    BY <1>1, LeastNumber
<1> DEFINE L == {k \in live : histories[k].updated = m}
<1>3. L \subseteq Nat /\ L # {}
  OBVIOUS
<1>4. PICK k \in L : \A j \in L : k <= j
  <2> HIDE DEF L
  <2> QED
    BY <1>3, LeastNumber
<1>5. \A j \in live : \/ histories[k].updated < histories[j].updated
                      \/ histories[k].updated = histories[j].updated /\ k <= j
  <2>1. SUFFICES ASSUME NEW j \in live
                 PROVE  \/ histories[k].updated < histories[j].updated
                        \/ histories[k].updated = histories[j].updated /\ k <= j
    OBVIOUS
  <2>2. histories[k].updated = m /\ m <= histories[j].updated
    BY <1>2, <1>4
  <2>3. CASE histories[j].updated = m
    BY <1>4, <2>2, <2>3
  <2>4. CASE histories[j].updated # m
    <3>1. m \in Nat /\ histories[j].updated \in Nat
      BY <1>1, <1>2
    <3> QED
      BY <2>2, <2>4, <3>1
  <2> QED
    BY <2>3, <2>4
<1>6. /\ Oldest(live) \in live
      /\ \A j \in live : \/ histories[Oldest(live)].updated < histories[j].updated
                         \/ histories[Oldest(live)].updated = histories[j].updated
                            /\ Oldest(live) <= j
  <2>1. k \in live
    BY <1>4
  <2> QED
    BY <1>5, <2>1 DEF Oldest
<1>7. ASSUME NEW j \in live
      PROVE  histories[Oldest(live)].updated <= histories[j].updated
  <2>1. histories[Oldest(live)].updated \in Nat /\ histories[j].updated \in Nat
    BY <1>6
  <2> QED
    BY <1>6, <2>1
<1> QED
  BY <1>6, <1>7

\* Every time a sample carries is near a time at which this process read it.
SampledHere(history) ==
    \A i \in DOMAIN history :
        \E c \in started..clock, lag \in Lags : history[i].at = c + lag

\* The inductive invariant.
IInv ==
    /\ TypeOK
    /\ IsFiniteSet(DOMAIN histories)
    /\ MemoryBounded
    /\ Chronological
    /\ started <= clock
    /\ \A k \in DOMAIN histories :
          /\ histories[k].updated <= clock
          /\ SampledHere(histories[k].demand)
    /\ NoTrustAfterRestart

\* Init establishes the invariant: the memory is empty and nothing is trusted.
LEMMA InitInv == Init => IInv
<1> SUFFICES ASSUME Init PROVE IInv
  OBVIOUS
<1>1. clock = HistoryWindow /\ started = HistoryWindow /\ HistoryWindow \in Nat
  BY ForecastAssumption DEF Init
<1>2. DOMAIN histories = {}
  BY DEF Init, NoHistories
<1>3. IsFiniteSet(DOMAIN histories) /\ Cardinality(DOMAIN histories) = 0
  BY <1>2, FS_EmptySet
<1>4. trend.quality # "HIGH"
  BY DEF Init, NoForecast
<1> QED
  BY <1>1, <1>2, <1>3, <1>4, HistoryAssumption
  DEF IInv, TypeOK, MemoryBounded, Chronological, NoTrustAfterRestart

\* A tick moves nothing but the clock.
LEMMA TickInv == IInv /\ Tick => IInv'
<1> SUFFICES ASSUME IInv, Tick PROVE IInv'
  OBVIOUS
<1>1. clock' = clock + 1 /\ UNCHANGED <<histories, started, trend>>
  BY DEF Tick
<1>2. TypeOK' /\ IsFiniteSet(DOMAIN histories)' /\ MemoryBounded' /\ Chronological'
  BY <1>1 DEF IInv, TypeOK, MemoryBounded, Chronological
<1>3. clock \in Nat /\ started \in Nat /\ started <= clock
  BY DEF IInv, TypeOK
<1>4. ASSUME NEW k \in DOMAIN histories
      PROVE  histories[k].updated <= clock' /\ SampledHere(histories[k].demand)'
  <2>1. histories[k].updated \in Nat /\ histories[k].updated <= clock
    BY DEF IInv, TypeOK
  <2>2. SampledHere(histories[k].demand)
    BY DEF IInv
  <2>3. \A c \in started..clock : c \in started'..clock'
    BY <1>1, <1>3
  <2> QED
    BY <1>1, <1>3, <2>1, <2>2, <2>3 DEF SampledHere
<1>5. NoTrustAfterRestart'
  <2>1. SUFFICES ASSUME trend.quality = "HIGH"
                 PROVE  \E early, late \in Lags : clock' + late - (started + early) >= MinimumSpan
    BY <1>1 DEF NoTrustAfterRestart
  <2>2. PICK early \in Lags, late \in Lags : clock + late - (started + early) >= MinimumSpan
    BY <2>1 DEF IInv, NoTrustAfterRestart
  <2>3. early \in Int /\ late \in Int /\ MinimumSpan \in Nat
    BY HistoryAssumption, ForecastAssumption
  <2>4. clock' + late - (started + early) >= MinimumSpan
    BY <1>1, <1>3, <2>2, <2>3
  <2> QED
    BY <2>4
<1> QED
  BY <1>1, <1>2, <1>3, <1>4, <1>5 DEF IInv

\* A restart forgets everything.
LEMMA RestartInv == IInv /\ Restart => IInv'
<1> SUFFICES ASSUME IInv, Restart PROVE IInv'
  OBVIOUS
<1>1. clock \in Nat /\ clock' = clock /\ started' = clock
  BY DEF Restart, IInv, TypeOK
<1>2. DOMAIN histories' = {}
  BY DEF Restart, NoHistories
<1>3. IsFiniteSet(DOMAIN histories') /\ Cardinality(DOMAIN histories') = 0
  BY <1>2, FS_EmptySet
<1>4. trend'.quality # "HIGH"
  BY DEF Restart, NoForecast
<1> QED
  BY <1>1, <1>2, <1>3, <1>4, HistoryAssumption
  DEF IInv, TypeOK, MemoryBounded, Chronological, NoTrustAfterRestart

\* The entry an update writes.
Before(key) == IF key \in DOMAIN histories THEN histories[key] ELSE EmptyHistory

NewDemand(key, demand) == AppendSample(Before(key).demand, demand, clock, DemandFloor)
NewCapacity(key, capacity) == AppendSample(Before(key).capacity, capacity, clock, CapacityFloor)

\* What a query brings is a sample of about this time, or nothing.
LEMMA SampleFacts ==
    ASSUME NEW values, values \subseteq Nat, clock \in Nat, NEW s \in Samples(values)
    PROVE  /\ s \in SampleType \union {NoSample}
           /\ s # NoSample => \E lag \in Lags : s.at = clock + lag
<1>1. Lags \subseteq Int
  BY HistoryAssumption
<1>2. CASE s = NoSample
  BY <1>2
<1>3. CASE s # NoSample
  <2>1. PICK lag \in Lags, v \in values : s = [at |-> clock + lag, value |-> v]
    BY <1>3 DEF Samples
  <2>2. clock + lag \in Int /\ v \in Nat
    BY <1>1
  <2> QED
    BY <2>1, <2>2 DEF SampleType
<1> QED
  BY <1>2, <1>3

\* What an update starts from is a history in order, of this process.
LEMMA BeforeFacts ==
    ASSUME IInv, NEW key \in Keys
    PROVE  /\ Before(key).demand \in Seq(SampleType) /\ InOrder(Before(key).demand)
           /\ SampledHere(Before(key).demand)
           /\ Before(key).capacity \in Seq(SampleType) /\ InOrder(Before(key).capacity)
<1>1. CASE key \in DOMAIN histories
  <2>1. Before(key) = histories[key]
    BY <1>1 DEF Before
  <2>2. /\ histories[key]["demand"] \in Seq(SampleType)
        /\ histories[key]["capacity"] \in Seq(SampleType)
    BY <1>1 DEF IInv, TypeOK, SampleType
  <2>3. InOrder(histories[key].demand) /\ InOrder(histories[key].capacity)
    BY <1>1 DEF IInv, Chronological
  <2>4. SampledHere(histories[key].demand)
    BY <1>1 DEF IInv
  <2> QED
    BY <2>1, <2>2, <2>3, <2>4
<1>2. CASE key \notin DOMAIN histories
  <2>1. Before(key).demand = <<>> /\ Before(key).capacity = <<>>
    BY <1>2 DEF Before, EmptyHistory
  <2>2. <<>> \in Seq(SampleType) /\ InOrder(<<>>) /\ SampledHere(<<>>)
    BY DEF InOrder, SampledHere
  <2> QED
    BY <2>1, <2>2
<1> QED
  BY <1>1, <1>2

\* The demand an update writes is bounded, in order, inside the window and of
\* this process.
LEMMA NewDemandFacts ==
    ASSUME IInv, NEW key \in Keys, NEW demand \in Samples(DemandRates)
    PROVE  /\ NewDemand(key, demand) \in Histories
           /\ \A j \in DOMAIN NewDemand(key, demand) : Timely(NewDemand(key, demand)[j], clock)
           /\ SampledHere(NewDemand(key, demand))
<1> DEFINE b == Before(key).demand
           r == NewDemand(key, demand)
<1>1. clock \in Nat /\ started \in Nat /\ started <= clock
  BY DEF IInv, TypeOK
<1>2. /\ demand \in SampleType \union {NoSample}
      /\ demand # NoSample => \E lag \in Lags : demand.at = clock + lag
  BY <1>1, HistoryAssumption, SampleFacts
<1>3. b \in Seq(SampleType) /\ InOrder(b) /\ SampledHere(b)
  BY BeforeFacts
<1>4. /\ r \in Histories
      /\ \A j \in DOMAIN r :
            /\ Timely(r[j], clock)
            /\ \/ r[j] = demand /\ demand # NoSample
               \/ \E i \in DOMAIN b : r[j] = b[i]
  <2>1. r = AppendSample(b, demand, clock, DemandFloor)
    BY DEF NewDemand
  <2> HIDE DEF b, r
  <2> QED
    BY <1>2, <1>3, <2>1, AppendFacts
<1> HIDE DEF b, r
<1>5. clock \in started..clock
  BY <1>1
<1>6. SampledHere(r)
  BY <1>2, <1>3, <1>4, <1>5 DEF SampledHere
<1> QED
  BY <1>4, <1>6 DEF r

\* Who trusts a forecast has watched demand for as long as it looks ahead, and for
\* the minimum span.
LEMMA HighIsWatched ==
    ASSUME IInv, NEW key \in Keys, NEW demand \in Samples(DemandRates), NEW horizon \in Horizons,
           LinearForecast(NewDemand(key, demand), clock, horizon).quality = "HIGH"
    PROVE  \E early, late \in Lags :
               /\ clock + late - (started + early) >= MinimumSpan
               /\ clock + late - (started + early) >= horizon
<1> DEFINE d == NewDemand(key, demand)
           fit == FitSamples(d)
           P == {i \in DOMAIN d : d[i].at >= d[Len(d)].at - TrendFitWindow}
<1>1. d \in Seq(SampleType) /\ SampledHere(d)
  BY NewDemandFacts DEF Histories
<1>2. Fittable(fit, clock, horizon)
  BY HighIsFitted
<1> HIDE DEF d
<1>3. fit = Subsequence(d, P) /\ P \subseteq DOMAIN d
  BY DEF FitSamples
<1> HIDE DEF P
<1>4. /\ Cardinality(P) \in Nat
      /\ Len(fit) = Cardinality(P)
      /\ \A j \in 1..Cardinality(P) : Nth(P, j) \in P /\ fit[j] = d[Nth(P, j)]
  BY <1>1, <1>3, SubsequenceFacts
<1> HIDE DEF fit
<1>5. /\ Len(fit) >= MinimumSamples
      /\ fit[Len(fit)].at - fit[1].at >= MinimumSpan
      /\ horizon <= fit[Len(fit)].at - fit[1].at
  BY <1>2 DEF Fittable, Span
<1>6. MinimumSamples \in Nat /\ MinimumSamples > 1 /\ MinimumSpan \in Nat /\ horizon \in Nat
  BY ForecastAssumption, HistoryAssumption
<1>7. 1 \in 1..Cardinality(P) /\ Len(fit) \in 1..Cardinality(P)
  BY <1>4, <1>5, <1>6
<1>8. PICK i \in DOMAIN d : fit[1] = d[i]
  BY <1>3, <1>4, <1>7
<1>9. PICK j \in DOMAIN d : fit[Len(fit)] = d[j]
  BY <1>3, <1>4, <1>7
<1>10. PICK c1 \in started..clock, early \in Lags : d[i].at = c1 + early
  BY <1>1 DEF SampledHere
<1>11. PICK c2 \in started..clock, late \in Lags : d[j].at = c2 + late
  BY <1>1 DEF SampledHere
<1>12. /\ clock \in Nat /\ started \in Nat
       /\ early \in Int /\ late \in Int /\ c1 \in Int /\ c2 \in Int
       /\ c1 >= started /\ c2 <= clock
  BY HistoryAssumption DEF IInv, TypeOK
<1>13. /\ clock + late - (started + early) >= MinimumSpan
       /\ clock + late - (started + early) >= horizon
  BY <1>5, <1>6, <1>8, <1>9, <1>10, <1>11, <1>12
<1> QED
  BY <1>13

\* The capacity samples an update writes are bounded, in order and inside the
\* window.
LEMMA NewCapacityFacts ==
    ASSUME IInv, NEW key \in Keys, NEW capacity \in Samples(Efficiencies)
    PROVE  /\ NewCapacity(key, capacity) \in Histories
           /\ \A j \in DOMAIN NewCapacity(key, capacity) :
                 Timely(NewCapacity(key, capacity)[j], clock)
<1> DEFINE b == Before(key).capacity
<1>1. clock \in Nat
  BY DEF IInv, TypeOK
<1>2. Efficiencies \subseteq Nat
  BY HistoryAssumption
<1>3. capacity \in SampleType \union {NoSample}
  BY <1>1, <1>2, SampleFacts
<1>4. b \in Seq(SampleType) /\ InOrder(b)
  BY BeforeFacts
<1> HIDE DEF b
<1> QED
  BY <1>3, <1>4, AppendFacts DEF NewCapacity, b

\* The entries that stay beside a new one leave room for it.
LEMMA RoomFacts ==
    ASSUME IInv, NEW key
    PROVE  /\ RoomFor(key, Live) \subseteq Live
           /\ IsFiniteSet(RoomFor(key, Live) \union {key})
           /\ Cardinality(RoomFor(key, Live) \union {key}) <= MaxHistories
<1>1. /\ IsFiniteSet(DOMAIN histories)
      /\ Cardinality(DOMAIN histories) <= MaxHistories
      /\ DOMAIN histories \subseteq Nat
      /\ \A k \in DOMAIN histories : histories[k].updated \in Nat
  BY HistoryAssumption DEF IInv, TypeOK, MemoryBounded
<1>2. MaxHistories \in Nat \ {0}
  BY HistoryAssumption
<1>3. Live \in SUBSET DOMAIN histories
  BY DEF Live
<1>4. IsFiniteSet(Live) /\ Cardinality(Live) \in Nat /\ Cardinality(Live) <= MaxHistories
  <2>1. IsFiniteSet(Live) /\ Cardinality(Live) <= Cardinality(DOMAIN histories)
    BY <1>1, <1>3, FS_Subset
  <2>2. Cardinality(Live) \in Nat /\ Cardinality(DOMAIN histories) \in Nat
    BY <1>1, <2>1, FS_CardinalityType
  <2> QED
    BY <1>1, <1>2, <2>1, <2>2
<1>5. CASE key \notin Live /\ Cardinality(Live) >= MaxHistories
  <2>1. RoomFor(key, Live) = Live \ {Oldest(Live)}
    BY <1>5 DEF RoomFor
  <2>2. Live # {}
    BY <1>2, <1>4, <1>5, FS_EmptySet
  <2>3. Oldest(Live) \in Live
    BY <1>1, <1>3, <2>2, OldestFacts
  <2>4. /\ IsFiniteSet(Live \ {Oldest(Live)})
        /\ Cardinality(Live \ {Oldest(Live)}) = Cardinality(Live) - 1
    BY <1>4, <2>3, FS_RemoveElement
  <2>5. key \notin Live \ {Oldest(Live)}
    BY <1>5
  <2>6. /\ IsFiniteSet((Live \ {Oldest(Live)}) \union {key})
        /\ Cardinality((Live \ {Oldest(Live)}) \union {key})
             = Cardinality(Live \ {Oldest(Live)}) + 1
    BY <2>4, <2>5, FS_AddElement
  <2> QED
    BY <1>4, <2>1, <2>4, <2>6
<1>6. CASE key \in Live
  <2>1. RoomFor(key, Live) = Live /\ Live \union {key} = Live
    BY <1>6 DEF RoomFor
  <2> QED
    BY <1>4, <2>1
<1>7. CASE key \notin Live /\ ~(Cardinality(Live) >= MaxHistories)
  <2>1. RoomFor(key, Live) = Live
    BY <1>7 DEF RoomFor
  <2>2. /\ IsFiniteSet(Live \union {key})
        /\ Cardinality(Live \union {key}) = Cardinality(Live) + 1
    BY <1>4, <1>7, FS_AddElement
  <2> QED
    BY <1>2, <1>4, <1>7, <2>1, <2>2
<1> QED
  BY <1>5, <1>6, <1>7

\* What an update leaves behind: one entry written, others of the memory kept.
Updated(key, demand, capacity, horizon) ==
    /\ clock' = clock /\ started' = started
    /\ DOMAIN histories' = RoomFor(key, Live) \union {key}
    /\ histories'[key].demand = NewDemand(key, demand)
    /\ histories'[key].capacity = NewCapacity(key, capacity)
    /\ histories'[key].updated = clock
    /\ histories'[key]["demand"] = NewDemand(key, demand)
    /\ histories'[key]["capacity"] = NewCapacity(key, capacity)
    /\ \A k \in DOMAIN histories' : k # key => histories'[k] = histories[k]
    /\ trend' = LinearForecast(NewDemand(key, demand), clock, horizon)

\* An update, said of the entry it leaves.
LEMMA UpdateFacts ==
    ASSUME NEW key, NEW demand, NEW capacity, NEW horizon, Update(key, demand, capacity, horizon)
    PROVE  Updated(key, demand, capacity, horizon)
<1> DEFINE entry == [demand   |-> NewDemand(key, demand),
                     capacity |-> NewCapacity(key, capacity),
                     updated  |-> clock]
<1>1. /\ histories' = [k \in RoomFor(key, Live) \union {key} |->
                          IF k = key THEN entry ELSE histories[k]]
      /\ trend' = LinearForecast(NewDemand(key, demand), clock, horizon)
      /\ clock' = clock /\ started' = started
  BY DEF Update, NewDemand, NewCapacity, Before
<1>2. key \in RoomFor(key, Live) \union {key}
  OBVIOUS
<1>3. histories'[key] = entry
  BY <1>1, <1>2
<1> QED
  BY <1>1, <1>3 DEF Updated

\* An update preserves the invariant.
LEMMA UpdateInv ==
    ASSUME IInv, NEW key \in Keys, NEW horizon \in Horizons,
           NEW demand \in Samples(DemandRates), NEW capacity \in Samples(Efficiencies),
           Update(key, demand, capacity, horizon)
    PROVE  IInv'
<1> DEFINE d == NewDemand(key, demand)
           c == NewCapacity(key, capacity)
<1>0. Updated(key, demand, capacity, horizon)
  BY UpdateFacts
<1>1. /\ clock' = clock /\ started' = started
      /\ DOMAIN histories' = RoomFor(key, Live) \union {key}
      /\ histories'[key].demand = d /\ histories'[key].capacity = c
      /\ histories'[key]["demand"] = d /\ histories'[key]["capacity"] = c
      /\ histories'[key].updated = clock
      /\ trend' = LinearForecast(d, clock, horizon)
  BY <1>0 DEF Updated
<1>2. \A k \in DOMAIN histories' : k # key => histories'[k] = histories[k]
  BY <1>0 DEF Updated
<1>3. /\ d \in Histories /\ SampledHere(d)
      /\ \A j \in DOMAIN d : Timely(d[j], clock)
  BY NewDemandFacts
<1>4. /\ c \in Histories
      /\ \A j \in DOMAIN c : Timely(c[j], clock)
  BY NewCapacityFacts
<1>5. /\ RoomFor(key, Live) \subseteq Live
      /\ IsFiniteSet(DOMAIN histories')
      /\ Cardinality(DOMAIN histories') <= MaxHistories
  BY <1>1, RoomFacts
<1>6. clock \in Nat /\ started \in Nat /\ started <= clock
  BY DEF IInv, TypeOK
<1>7. \A k \in DOMAIN histories' : k # key => k \in DOMAIN histories
  BY <1>1, <1>5 DEF Live
<1> HIDE DEF d, c
<1>8. TypeOK'
  <2>1. DOMAIN histories' \subseteq Keys
    BY <1>7 DEF IInv, TypeOK
  <2>2. ASSUME NEW k \in DOMAIN histories'
        PROVE  /\ histories'[k].updated \in Nat
               /\ \A field \in {"demand", "capacity"} :
                     histories'[k][field] \in Seq([at : Int, value : Nat])
    <3>1. CASE k = key
      <4>1. d \in Seq([at : Int, value : Nat]) /\ c \in Seq([at : Int, value : Nat])
        BY <1>3, <1>4 DEF Histories, SampleType
      <4> QED
        BY <1>1, <1>6, <3>1, <4>1
    <3>2. CASE k # key
      BY <1>2, <1>7, <3>2 DEF IInv, TypeOK
    <3> QED
      BY <3>1, <3>2
  <2> QED
    BY <1>1, <1>6, <2>1, <2>2 DEF TypeOK
<1>9. MemoryBounded'
  <2>1. ASSUME NEW k \in DOMAIN histories'
        PROVE  Len(histories'[k].demand) <= MaxSamples /\ Len(histories'[k].capacity) <= MaxSamples
    <3>1. CASE k = key
      BY <1>1, <1>3, <1>4, <3>1 DEF Histories
    <3>2. CASE k # key
      BY <1>2, <1>7, <3>2 DEF IInv, MemoryBounded
    <3> QED
      BY <3>1, <3>2
  <2> QED
    BY <1>5, <2>1 DEF MemoryBounded
<1>10. Chronological'
  <2>1. SUFFICES ASSUME NEW k \in DOMAIN histories',
                        NEW s \in {histories'[k].demand, histories'[k].capacity}
                 PROVE  /\ InOrder(s)
                        /\ \A i \in DOMAIN s :
                              s[i].at \in histories'[k].updated - HistoryWindow..histories'[k].updated + FutureSkew
    BY DEF Chronological, InOrder
  <2>2. CASE k = key
    <3>1. s \in {d, c}
      BY <1>1, <2>2
    <3>2. s \in Histories /\ \A i \in DOMAIN s : Timely(s[i], clock)
      BY <1>3, <1>4, <3>1
    <3>3. InOrder(s) /\ s \in Seq(SampleType)
      BY <3>2 DEF Histories
    <3>4. HistoryWindow \in Nat /\ FutureSkew \in Nat
      BY ForecastAssumption
    <3>5. ASSUME NEW i \in DOMAIN s
          PROVE  s[i].at \in clock - HistoryWindow..clock + FutureSkew
      <4>1. s[i] \in SampleType
        BY <3>3
      <4>2. s[i].at \in Int
        BY <4>1 DEF SampleType
      <4>3. s[i].at >= clock - HistoryWindow /\ s[i].at <= clock + FutureSkew
        BY <3>2 DEF Timely
      <4> QED
        BY <1>6, <3>4, <4>2, <4>3
    <3> QED
      BY <1>1, <2>2, <3>3, <3>5
  <2>3. CASE k # key
    <3>1. k \in DOMAIN histories /\ histories'[k] = histories[k]
      BY <1>2, <1>7, <2>3
    <3> QED
      BY <3>1 DEF IInv, Chronological
  <2> QED
    BY <2>2, <2>3
<1>11. ASSUME NEW k \in DOMAIN histories'
       PROVE  histories'[k].updated <= clock /\ SampledHere(histories'[k].demand)
  <2>1. CASE k = key
    BY <1>1, <1>3, <1>6, <2>1
  <2>2. CASE k # key
    <3>1. k \in DOMAIN histories /\ histories'[k] = histories[k]
      BY <1>2, <1>7, <2>2
    <3> QED
      BY <3>1 DEF IInv
  <2> QED
    BY <2>1, <2>2
<1>12. \A k \in DOMAIN histories' : SampledHere(histories[k].demand)' <=> SampledHere(histories'[k].demand)
  BY <1>1 DEF SampledHere
<1>13. NoTrustAfterRestart'
  <2>1. SUFFICES ASSUME LinearForecast(NewDemand(key, demand), clock, horizon).quality = "HIGH"
                 PROVE  \E early, late \in Lags : clock + late - (started + early) >= MinimumSpan
    BY <1>1 DEF NoTrustAfterRestart, d
  <2> QED
    BY <2>1, HighIsWatched
<1> QED
  BY <1>1, <1>5, <1>6, <1>8, <1>9, <1>10, <1>11, <1>12, <1>13 DEF IInv

\* Every step preserves the invariant.
LEMMA NextInv == IInv /\ [Next]_vars => IInv'
<1> SUFFICES ASSUME IInv, [Next]_vars PROVE IInv'
  OBVIOUS
<1>1. CASE \E key \in Keys, horizon \in Horizons :
              \E demand \in Samples(DemandRates), capacity \in Samples(Efficiencies) :
                 Update(key, demand, capacity, horizon)
  BY <1>1, UpdateInv
<1>2. CASE Restart
  BY <1>2, RestartInv
<1>3. CASE Tick
  BY <1>3, TickInv
<1>4. CASE UNCHANGED vars
  BY <1>4 DEF vars, IInv, TypeOK, MemoryBounded, Chronological, SampledHere,
              NoTrustAfterRestart
<1> QED
  BY <1>1, <1>2, <1>3, <1>4 DEF Next

\* The invariant holds in every state of the memory.
LEMMA Invariance == Spec => []IInv
<1> QED
  BY InitInv, NextInv, PTL DEF Spec

-----------------------------------------------------------------------------
\* The theorems.

\* The memory keeps its shape (updatePredictionHistory).
THEOREM TypeCorrect == Spec => []TypeOK
<1>1. IInv => TypeOK
  BY DEF IInv
<1> QED
  BY <1>1, Invariance, PTL

\* Whatever resources come, go and are queried, the memory holds at most
\* MaxHistories entries of at most MaxSamples samples (updatePredictionHistory,
\* AppendSample, AppendCapacitySample).
THEOREM BoundedMemory == Spec => []MemoryBounded
<1>1. IInv => MemoryBounded
  BY DEF IInv
<1> QED
  BY <1>1, Invariance, PTL

\* Samples in any order of time make histories strictly in order and inside the
\* window (AppendSample, AppendCapacitySample).
THEOREM OrderedMemory == Spec => []Chronological
<1>1. IInv => Chronological
  BY DEF IInv
<1> QED
  BY <1>1, Invariance, PTL

\* After a restart no forecast is trusted before samples of this process cover
\* the minimum span (LinearForecast over a memory that restarts empty).
THEOREM TrustIsEarned == Spec => []NoTrustAfterRestart
<1>1. IInv => NoTrustAfterRestart
  BY DEF IInv
<1> QED
  BY <1>1, Invariance, PTL

\* What an update may drop beside its own entry: an entry idle for longer than
\* Retention, or the least recently updated (updatePredictionHistory).
DropsLeastRecent ==
    started' = started =>
        \A k \in DOMAIN histories \ DOMAIN histories' :
            \/ histories[k].updated < clock - Retention
            \/ \A j \in DOMAIN histories \intersect DOMAIN histories' :
                  histories[j].updated >= histories[k].updated

\* The step of LeastRecentMakesRoom.
LEMMA DropsLeastRecentStep ==
    ASSUME IInv, NEW key \in Keys, NEW horizon \in Horizons,
           NEW demand \in Samples(DemandRates), NEW capacity \in Samples(Efficiencies),
           Update(key, demand, capacity, horizon)
    PROVE  DropsLeastRecent
<1>0. Updated(key, demand, capacity, horizon)
  BY UpdateFacts
<1>1. DOMAIN histories' = RoomFor(key, Live) \union {key}
  BY <1>0 DEF Updated
<1>2. SUFFICES ASSUME NEW k \in DOMAIN histories \ DOMAIN histories',
                      ~(histories[k].updated < clock - Retention),
                      NEW j \in DOMAIN histories \intersect DOMAIN histories'
               PROVE  histories[j].updated >= histories[k].updated
  BY DEF DropsLeastRecent
<1>3. /\ DOMAIN histories \subseteq Nat
      /\ \A i \in DOMAIN histories : histories[i].updated \in Nat
      /\ clock \in Nat /\ Retention \in Nat
  BY HistoryAssumption DEF IInv, TypeOK
<1>4. histories[k].updated \in Nat /\ histories[j].updated \in Nat
  BY <1>3
<1>5. k \in Live
  <2>1. histories[k].updated >= clock - Retention
    BY <1>2, <1>3, <1>4
  <2> QED
    BY <2>1 DEF Live
<1>6. RoomFor(key, Live) = Live \ {Oldest(Live)} /\ key \notin Live /\ k = Oldest(Live)
  BY <1>1, <1>5 DEF RoomFor
<1>7. \A i \in Live : histories[k].updated <= histories[i].updated
  <2>1. Live # {} /\ Live \subseteq Nat /\ \A i \in Live : histories[i].updated \in Nat
    BY <1>3, <1>5 DEF Live
  <2> QED
    BY <1>6, <2>1, OldestFacts
<1>8. CASE j \in Live
  BY <1>4, <1>7, <1>8
<1>9. CASE j \notin Live
  \* Then j is key, whose entry is idle beside a memory full of live ones.
  <2>1. j = key /\ key \in DOMAIN histories
    BY <1>1, <1>6, <1>9
  <2>2. /\ IsFiniteSet(DOMAIN histories)
        /\ Cardinality(DOMAIN histories) <= MaxHistories
        /\ MaxHistories \in Nat
    BY HistoryAssumption DEF IInv, MemoryBounded
  <2>3. Live \union {key} \in SUBSET DOMAIN histories
    BY <2>1 DEF Live
  <2>4. IsFiniteSet(Live) /\ Live \in SUBSET DOMAIN histories
    BY <2>2, FS_Subset DEF Live
  <2>5. Cardinality(Live \union {key}) = Cardinality(Live) + 1
    BY <1>6, <2>4, FS_AddElement
  <2>6. Cardinality(Live \union {key}) <= Cardinality(DOMAIN histories)
    BY <2>2, <2>3, FS_Subset
  <2>7. Cardinality(Live) >= MaxHistories
    BY <1>5, <1>6 DEF RoomFor
  <2>8. Cardinality(Live) \in Nat /\ Cardinality(DOMAIN histories) \in Nat
    BY <2>2, <2>4, FS_CardinalityType
  <2> QED
    BY <2>2, <2>5, <2>6, <2>7, <2>8
<1> QED
  BY <1>8, <1>9

\* No step drops an entry that was used later than one it keeps
\* (updatePredictionHistory).
THEOREM LeastRecentDropped == Spec => LeastRecentMakesRoom
<1>1. ASSUME IInv, [Next]_vars PROVE [DropsLeastRecent]_vars
  <2>1. CASE \E key \in Keys, horizon \in Horizons :
                \E demand \in Samples(DemandRates), capacity \in Samples(Efficiencies) :
                   Update(key, demand, capacity, horizon)
    BY <1>1, <2>1, DropsLeastRecentStep
  <2>2. CASE Restart
    <3>1. DOMAIN histories \intersect DOMAIN histories' = {}
      BY <2>2 DEF Restart, NoHistories
    <3> QED
      BY <3>1 DEF DropsLeastRecent
  <2>3. CASE Tick
    BY <2>3 DEF Tick, DropsLeastRecent
  <2>4. CASE UNCHANGED vars
    BY <2>4
  <2> QED
    BY <1>1, <2>1, <2>2, <2>3, <2>4 DEF Next
<1>2. [DropsLeastRecent]_vars <=>
        [started' = started =>
            \A k \in DOMAIN histories \ DOMAIN histories' :
                \/ histories[k].updated < clock - Retention
                \/ \A j \in DOMAIN histories \intersect DOMAIN histories' :
                      histories[j].updated >= histories[k].updated]_vars
  BY DEF DropsLeastRecent
<1> QED
  BY <1>1, <1>2, Invariance, PTL DEF Spec, LeastRecentMakesRoom

\* What a step keeps of the demand samples of an entry that lives on.
KeepsEvidence ==
    \A k \in DOMAIN histories \intersect DOMAIN histories' :
        LET before == histories[k].demand
            after  == histories'[k].demand
        IN  \A i \in DOMAIN before :
              \/ \E j \in DOMAIN after : after[j].at = before[i].at
              \/ before[i].at < clock - HistoryWindow
              \/ Len(after) = MaxSamples /\ after[1].at > before[i].at

\* The step of NoEvidenceLost.
LEMMA KeepsEvidenceStep ==
    ASSUME IInv, NEW key \in Keys, NEW horizon \in Horizons,
           NEW demand \in Samples(DemandRates), NEW capacity \in Samples(Efficiencies),
           Update(key, demand, capacity, horizon)
    PROVE  KeepsEvidence
<1>0. Updated(key, demand, capacity, horizon)
  BY UpdateFacts
<1>1. histories'[key].demand = NewDemand(key, demand)
  BY <1>0 DEF Updated
<1>2. \A k \in DOMAIN histories' : k # key => histories'[k] = histories[k]
  BY <1>0 DEF Updated
<1>3. SUFFICES ASSUME NEW k \in DOMAIN histories \intersect DOMAIN histories',
                      NEW i \in DOMAIN histories[k].demand
               PROVE  \/ \E j \in DOMAIN histories'[k].demand :
                            histories'[k].demand[j].at = histories[k].demand[i].at
                      \/ histories[k].demand[i].at < clock - HistoryWindow
                      \/ /\ Len(histories'[k].demand) = MaxSamples
                         /\ histories'[k].demand[1].at > histories[k].demand[i].at
  BY Zenon DEF KeepsEvidence
<1>4. CASE k # key
  BY <1>2, <1>4
<1>5. CASE k = key
  <2> DEFINE b == Before(key).demand
             r == NewDemand(key, demand)
  <2>1. b = histories[k].demand
    BY <1>5 DEF Before
  <2>2. clock \in Nat /\ histories[k].updated \in Nat /\ histories[k].updated <= clock
    BY DEF IInv, TypeOK
  <2>3. b \in Seq(SampleType) /\ InOrder(b)
    BY BeforeFacts
  <2>4. demand \in SampleType \union {NoSample}
    BY <2>2, HistoryAssumption, SampleFacts
  <2> HIDE DEF b
  <2>5. r \in Histories
    BY <2>3, <2>4, AppendFacts DEF NewDemand, b
  <2>6. Timely(b[i], clock) /\ b[i].value >= DemandFloor => Covers(r, b[i].at)
    <3>1. i \in DOMAIN b
      BY <2>1
    <3>2. r = AppendSample(b, demand, clock, DemandFloor)
      BY DEF NewDemand, b
    <3> HIDE DEF r
    <3> QED
      BY <2>3, <2>4, <3>1, <3>2, AppendFacts
  <2> HIDE DEF r
  <2>7. b[i] \in SampleType
    BY <2>1, <2>3
  <2>8. b[i].at \in Int /\ b[i].value >= DemandFloor
    BY <2>7 DEF SampleType, DemandFloor
  <2>9. b[i].at <= clock + FutureSkew
    <3>1. histories[k].demand[i].at
            \in histories[k].updated - HistoryWindow..histories[k].updated + FutureSkew
      BY DEF IInv, Chronological
    <3>2. FutureSkew \in Nat /\ HistoryWindow \in Nat
      BY ForecastAssumption
    <3> QED
      BY <2>1, <2>2, <3>1, <3>2
  <2>10. CASE b[i].at < clock - HistoryWindow
    BY <2>1, <2>10
  <2>11. CASE ~(b[i].at < clock - HistoryWindow)
    <3>1. HistoryWindow \in Nat
      BY ForecastAssumption
    <3>2. Timely(b[i], clock)
      BY <2>2, <2>8, <2>9, <2>11, <3>1 DEF Timely
    <3>3. Covers(r, b[i].at)
      BY <2>6, <2>8, <3>2
    <3>4. CASE \E j \in DOMAIN r : r[j].at = b[i].at
      BY <1>1, <1>5, <2>1, <3>4 DEF r
    <3>5. CASE Len(r) = MaxSamples /\ \A j \in DOMAIN r : b[i].at < r[j].at
      <4>1. MaxSamples \in Nat \ {0}
        BY ForecastAssumption
      <4>2. 1 \in DOMAIN r /\ r[1] \in SampleType
        BY <2>5, <3>5, <4>1 DEF Histories
      <4>3. r[1].at > b[i].at
        BY <2>8, <3>5, <4>2 DEF SampleType
      <4> QED
        BY <1>1, <1>5, <2>1, <3>5, <4>3 DEF r
    <3> QED
      BY <3>3, <3>4, <3>5 DEF Covers
  <2> QED
    BY <2>10, <2>11
<1> QED
  BY <1>4, <1>5

\* A late, repeated or invalid sample never costs an entry its evidence
\* (AppendSample).
THEOREM EvidenceKept == Spec => NoEvidenceLost
<1>1. ASSUME IInv, [Next]_vars PROVE [KeepsEvidence]_vars
  <2>1. CASE \E key \in Keys, horizon \in Horizons :
                \E demand \in Samples(DemandRates), capacity \in Samples(Efficiencies) :
                   Update(key, demand, capacity, horizon)
    BY <1>1, <2>1, KeepsEvidenceStep
  <2>2. CASE Restart
    <3>1. DOMAIN histories \intersect DOMAIN histories' = {}
      BY <2>2 DEF Restart, NoHistories
    <3> QED
      BY <3>1 DEF KeepsEvidence
  <2>3. CASE Tick
    BY <2>3 DEF Tick, KeepsEvidence
  <2>4. CASE UNCHANGED vars
    BY <2>4
  <2> QED
    BY <1>1, <2>1, <2>2, <2>3, <2>4 DEF Next
<1>2. [KeepsEvidence]_vars <=>
        [\A k \in DOMAIN histories \intersect DOMAIN histories' :
            LET before == histories[k].demand
                after  == histories'[k].demand
            IN  \A i \in DOMAIN before :
                  \/ \E j \in DOMAIN after : after[j].at = before[i].at
                  \/ before[i].at < clock - HistoryWindow
                  \/ Len(after) = MaxSamples /\ after[1].at > before[i].at]_vars
  BY DEF KeepsEvidence
<1> QED
  BY <1>1, <1>2, Invariance, PTL DEF Spec, NoEvidenceLost

=============================================================================
