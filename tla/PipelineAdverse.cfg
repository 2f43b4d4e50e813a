SPECIFICATION Spec
CONSTANTS
  MaxIterations = 2
  Workers = {w1, w2}
  MaxBuilds = 3
  MaxCrashes = 1
  MaxFaults = 1
  Allowed = {"payment", "fix"}
SYMMETRY WorkerSymmetry
CHECK_DEADLOCK FALSE
INVARIANT ShownHasBuild
INVARIANT FlaggedNotBuilt
INVARIANT DeliveredWasGuaranteed
INVARIANT CounterHasRecord
