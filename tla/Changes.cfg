SPECIFICATION ChangesSpec
CONSTANTS
  PerMonth = 1
  MaxIterations = 3
  MaxMonths = 2
  MaxChanges = 5
  MaxCrashes = 2
  MaxPasses = 2
  MaxVersion = 2
  MaxRestarts = 2
  MaxLosses = 1
  FrozenLimit = 2
  Pictures = {"g1", "g2"}
  Slots = {"hero"}
  Uploads = {"logo"}
  MaxImages = 2
  MaxRebuilds = 2
  MaxFaults = 1
  Requests = {"q1", "q2", "q3"}
  Projects = {"p1", "p2"}
  Others = {}
  Links = {"l1"}
  MaxPerDay = 1
  Builds = {"b1", "b2", "b3"}
  MaxConcurrent = 1
  MaxBuilds = 2
  Viewers = {"b1"}
  MaxLines = 4
  Chunk = 2
  Buffer = 1
  HistSize = 2
  MaxCuts = 2
CHECK_DEADLOCK FALSE
INVARIANT ChangesTypeOK
INVARIANT UsedIsShipped
INVARIANT OverageBilledOnce
INVARIANT FinalisedAfterAgent
INVARIANT AllowanceKept
INVARIANT UnappliedIsOffered
INVARIANT CapsKept
INVARIANT ViewersMissOnlyDrops
PROPERTY AttachedFinishes
PROPERTY MachineReleased
PROPERTY SetsStayTheirOwners
PROPERTY PurgedFirst
