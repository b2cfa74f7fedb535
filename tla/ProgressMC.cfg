\* The parts that promise to come to an end, one at a time.
SPECIFICATION SuiteSpec
CONSTANTS
  b1 = b1
  p1 = p1
  o1 = o1
  r1 = r1
  r2 = r2
  d1 = d1
  d2 = d2
  e1 = e1
  e2 = e2
  e3 = e3
  x = x
  y = y
  Borrowers = {b1}
  Proofs = {p1}
  Operations = {o1}
  Resources = {r1, r2}
  Teardown = Teardown
  Clients = {d1, d2}
  Kinds = {"warm", "filesystem", "process", "overlay"}
  Attempts = 2
  MaxEdits = 1
  MaxRepositories = 1
  MaxCheckouts = 2
  MaxTasks = 2
  Processes = {e1, e2}
  Analyzers = {d1}
  Orders = {1}
  MaxTurns = 2
  MaxFailures = 1
  Sessions = {e1, e2, e3}
  Items = {x, y}
  Stores = {1, 2}
  MaxTroubles = 1
INVARIANTS LaneSafe PoolSafe HeldSafe LearningSafe
PROPERTIES LaneSteps LearningSteps ShutdownEnds NothingIsLost
CHECK_DEADLOCK FALSE
