SPECIFICATION Spec
CONSTANTS
  MaxInt = 5
  Controllers = {c1, c2}
  Deployments = {"demo-api"}
  DependencyNames = {}
  Specs <- TwoSpecs
  InitialSpec <- TargetOnly
  InitialReplicas <- OneReplica
  ExternalReplicas = {0, 1}
  Telemetry <- TargetTelemetry
  Forecasts <- TrustedOnly
  TicksPerSecond = 1
  MaxClock = 1
  MaxEdits = 1
INVARIANT RecordedScaleHappened
PROPERTIES EveryStepBounded RecordedScalesRespectCooldown
CHECK_DEADLOCK FALSE
SYMMETRY Processes
