----------------------------- MODULE MCForecast -----------------------------
(***************************************************************************)
(* The forecast and the capacity estimate over bounded histories, with the *)
(* constants of the code in units of 5 s: reconciles come every three      *)
(* units, sooner when the spec changes; the longest gap accepted is nine.  *)
(***************************************************************************)
EXTENDS OneForecast

CONSTANTS
    Length,     \* samples in a history
    Rates,      \* values they take
    Gaps        \* times between them

\* The history of values y and gaps g.
History(y, g) ==
    [i \in 1..Length |-> [at |-> 1 + SumFunction([j \in 1..i - 1 |-> g[j]]), value |-> y[i]]]

AllHistories == {History(y, g) : y \in [1..Length -> Rates], g \in [1..Length - 1 -> Gaps]}

\* As old as a sample may be.
Oldest == {MaximumSampleAge}

\* Subsequence selects what SelectSeq does.
ASSUME SelectionAssumption ==
    \A y \in UNION {[1..n -> Rates] : n \in 0..4}, v \in Rates :
        Subsequence(y, {i \in DOMAIN y : y[i] >= v}) = SelectSeq(y, LAMBDA w : w >= v)

=============================================================================
