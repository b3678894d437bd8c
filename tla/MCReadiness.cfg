SPECIFICATION Spec
CONSTANTS
  Revisions = {r1, r2}
  PodNames = {p1, p2}
  MaxClock = 2
  MaxRollouts = 2
  FleetClock = 1
CONSTRAINT FewPodsOrFewRollouts
INVARIANTS TypeOK EvidenceOfItsRevision
PROPERTY LearnsOnlyWhatIsSettled
CHECK_DEADLOCK FALSE
SYMMETRY Symmetry
