SPECIFICATION ForecastSpec
CONSTANTS
  MaxSamples = 20
  HistoryWindow = 60
  FutureSkew = 6
  TrendFitWindow = 24
  MinimumSamples = 5
  MinimumSpan = 12
  MaximumSampleAge = 9
  MaximumSampleGap = 9
  MinimumCapacitySamples = 3
  SampleHistories <- AllHistories
  Ages <- Oldest
  Length = 6
  Rates = {0, 1, 3}
  Gaps = {1, 3, 9}
  PlanningHorizons = {1, 12, 30}
INVARIANTS NeverBelowTheMean BoundedExtrapolation OnlyTheWindowCounts TrendIsInTheRates CapacityIsConservative
CHECK_DEADLOCK FALSE
