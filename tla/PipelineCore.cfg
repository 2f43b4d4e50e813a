SPECIFICATION Spec
CONSTANTS
  MaxIterations = 2
  Workers = {w1, w2}
  MaxBuilds = 3
  MaxCrashes = 2
  MaxFaults = 0
  Allowed = {"payment", "unpay", "touch", "expiry"}
SYMMETRY WorkerSymmetry
CHECK_DEADLOCK FALSE
INVARIANT TypeOK
INVARIANT SingleBuilder
PROPERTY DrivenStaysBuilding
PROPERTY FreeBuildsCapped
PROPERTY ImplementsLifecycle
