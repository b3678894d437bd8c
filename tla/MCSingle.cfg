SPECIFICATION Spec
CONSTANTS
  MaxInt = 5
  Controllers = {c1}
  Deployments = {"demo-api", "inventory"}
  DependencyNames = {"inventory", "mirror"}
  Specs <- AllSpecs
  InitialSpec <- WithInventory
  InitialReplicas <- OneReplica
  ExternalReplicas = {0, 2}
  Telemetry <- AnyTelemetry
  Forecasts <- TrustedOnly
  TicksPerSecond = 2
  MaxClock = 2
  MaxEdits = 1
INVARIANT TypeOK
PROPERTY Governed
CHECK_DEADLOCK FALSE
