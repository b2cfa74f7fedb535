\* The engine and its sources, one part at a time.
SPECIFICATION SuiteSpec
CONSTANTS
  planP = planP
  planQ = planQ
  x = x
  y = y
  i = i
  j = j
  a = a
  b = b
  NoKey = NoKey
  Plans = {planP, planQ}
  Actions = {x, y}
  Inputs = {i, j}
  Offers <- Tangle
  MaxRevision = 2
  None = None
  Calls = {"c", "d"}
  MaxChanges = 1
  Turns = {1}
  Slots = {1, 2, 3}
  PlanActions = {1, 2}
  MaxAlternatives = 2
  Work = {1, 2}
  HostCalls = {4}
  MachineUnits = 3
  Sizes = {1, 2}
  Ranks = {1, 2}
  MaxSamples = 2
  ToldCalls = {1, 2}
  Predictions = {1}
  Producers = {"x", "y"}
  EventCapacity = 1
  Speculations = {"s"}
  Observations = {"o"}
  ActorCalls = {"a"}
  RuntimeWorlds <- SessionWorlds
  FallbackWorlds <- HostWorlds
  Registered = {"vm", "local"}
  MaxWorldChanges = 1
INVARIANTS GraphSafe CapturesEndOnce SourcesSafe   PatternsSafe
PROPERTIES NothingLate CancelsWhatItMust
CHECK_DEADLOCK FALSE
