SPECIFICATION Spec
CONSTANTS
  MaxIterations = 2
  Workers = {w1, w2}
  MaxBuilds = 3
  MaxCrashes = 0
  MaxFaults = 0
  Allowed = {"fix"}
SYMMETRY WorkerSymmetry
CHECK_DEADLOCK FALSE
PROPERTY DrivenStaysBuilding
