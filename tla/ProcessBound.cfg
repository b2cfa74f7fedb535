\* How many launches are being learned at a time.
SPECIFICATION SuiteSpec
CONSTANTS
  shell = shell
  first = first
  second = second
  Owners = {"o1", "o2"}
  Joiners = {"j"}
  MaxRecords = 2
  MaxCompleted = 1
  MaxBytes = 2
  Owner = "o"
  Borrowers = {"b1", "b2"}
  Lender <- Lends
  MaxClaims = 2
  Requests = {1, 2, 3}
  Outlets = {1}
  MaxTroubles = 2
  Processes = {1, 2, 3}
  Key <- Keys
  Duration <- Durations
  LearnedLaunches = 1
  MaxBindings = 2
  Workers = {1, 2}
  Connections = {1, 2}
  Observations = {"n1"}
  Works = {"s1"}
  MaxReplays = 1
  Boundaries = {1, 2}
  Callbacks = {"n1", "n2"}
  Commands = {"r1"}
  Executions = {"e1", "e2"}
  ChildRequests = {"r1"}
  MaxEdits = 1
INVARIANTS DiscoveryBounded
CHECK_DEADLOCK FALSE
