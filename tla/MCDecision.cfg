SPECIFICATION Spec
CONSTANTS
  MaxInt = 7
  Now = 3
  Deployments <- Workloads
  DependencyNames <- Names
  Inputs <- AllInputs
  UpSteps = {2, 7}
  Forecasts <- TrustedOrNot
  ServingCounts = {0, 2, 3, 4}
  Ages <- AnyAge
  Topologies <- AllTopologies
INVARIANTS BoundedMutation SettlesUntilCooldown LossNeverActs PrescaleIsLastResort
           SoleRoot BlameMovesDownstream
CHECK_DEADLOCK FALSE
