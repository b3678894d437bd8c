SPECIFICATION Spec
CONSTANTS
  MaxSamples = 3
  HistoryWindow = 2
  FutureSkew = 1
  TrendFitWindow = 2
  MinimumSamples = 2
  MinimumSpan = 2
  MaximumSampleAge = 1
  MaximumSampleGap = 2
  MinimumCapacitySamples = 1
  Keys = {1, 2, 3}
  MaxHistories = 2
  Retention = 1
  DemandRates = {0, 1}
  Efficiencies = {}
  Lags <- OnTimeOrEarly
  Horizons = {1}
  MaxClock = 6
INVARIANTS TypeOK MemoryBounded Chronological NoTrustAfterRestart
PROPERTIES LeastRecentMakesRoom NoEvidenceLost
CHECK_DEADLOCK FALSE
