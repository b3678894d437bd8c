SPECIFICATION Spec
CONSTANTS
  MaxInt = 5
  Controllers = {c1}
  Deployments = {"demo-api"}
  DependencyNames = {}
  Specs <- OneSpec
  InitialSpec <- TargetOnly
  InitialReplicas <- OneReplica
  ExternalReplicas = {0}
  Telemetry <- HotTarget
  Forecasts <- TrustedOnly
  TicksPerSecond = 1
  MaxClock = 2
  MaxEdits = 0
INVARIANT ScalesRespectCooldown
CHECK_DEADLOCK FALSE
