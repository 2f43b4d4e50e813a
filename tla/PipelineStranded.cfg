SPECIFICATION FairSpec
CONSTANTS
  MaxIterations = 2
  Workers = {w1, w2}
  MaxBuilds = 2
  MaxCrashes = 1
  MaxFaults = 0
  Allowed = {}
CHECK_DEADLOCK FALSE
PROPERTY BuildSettles
