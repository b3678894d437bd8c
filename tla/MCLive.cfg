SPECIFICATION LiveSpec
CONSTANTS
  MaxInt = 5
  Controllers = {c1}
  Deployments = {"demo-api"}
  DependencyNames = {}
  Specs <- StridingSpec
  InitialSpec <- Striding
  InitialReplicas <- OneReplica
  ExternalReplicas = {1}
  Telemetry <- HotTarget
  Forecasts <- TrustedOnly
  TicksPerSecond = 1
  MaxClock = 6
  MaxEdits = 1
PROPERTY TargetReachesMaximum
CHECK_DEADLOCK FALSE
