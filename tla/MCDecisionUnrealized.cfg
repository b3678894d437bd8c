SPECIFICATION Spec
CONSTANTS
  MaxInt = 7
  Now = 3
  Deployments <- Workloads
  DependencyNames <- Names
  Inputs <- AllInputs
  UpSteps = {1}
  Forecasts <- OnlyTrusted
  ServingCounts = {2, 4}
  Ages <- NeverScaled
  Topologies <- NoTopologies
INVARIANT HeldWhileUnrealized
CHECK_DEADLOCK FALSE
