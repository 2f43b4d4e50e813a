SPECIFICATION Spec
CONSTANTS
  MaxIterations = 2
  Workers = {w1, w2}
  MaxBuilds = 2
  MaxCrashes = 1
  MaxFaults = 0
  Allowed = {}
SYMMETRY WorkerSymmetry
CHECK_DEADLOCK FALSE
INVARIANT NothingBuildsUnscreened
