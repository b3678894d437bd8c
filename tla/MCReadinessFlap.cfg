SPECIFICATION Spec
CONSTANTS
  Revisions = {r1}
  PodNames = {p1}
  MaxClock = 2
  MaxRollouts = 0
  FleetClock = 2
PROPERTY LearnedIsStartup
CHECK_DEADLOCK FALSE
SYMMETRY Symmetry
