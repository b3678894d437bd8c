SPECIFICATION PredictionSpec
CONSTANTS
  MaxInt = 7
  MaxSamples = 3
  HistoryWindow = 3
  FutureSkew = 0
  TrendFitWindow = 2
  MinimumSamples = 2
  MinimumSpan = 1
  MaximumSampleAge = 0
  MaximumSampleGap = 3
  MinimumCapacitySamples = 1
  Keys = {1}
  MaxHistories = 1
  Retention = 6
  DemandRates = {2, 4}
  Efficiencies = {1, 2}
  Lags <- OnTime
  Horizons = {1, 2}
  MaxClock = 7
  spec <- TargetSpec
  Readings <- TargetReadings
  Interval = 1
  MaxDisturbances = 1
INVARIANTS OneStepAhead WatchedAsLongAsForecast PrescaleIsNeeded EvidenceIsCurrent
CHECK_DEADLOCK FALSE
