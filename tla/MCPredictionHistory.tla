------------------------- MODULE MCPredictionHistory -------------------------
(***************************************************************************)
(* Instances of PredictionHistory for TLC.                                 *)
(***************************************************************************)
EXTENDS PredictionHistory

\* The timestamp of a sample is the clock or a tick ahead of it: one that is on
\* time may come after one that was early.
OnTimeOrEarly == {0, 1}

=============================================================================
