\* What outlives a call, one part at a time.
SPECIFICATION SuiteSpec
CONSTANTS
  u1 = u1
  c1 = c1
  c2 = c2
  r1 = r1
  row = row
  image = image
  p1 = p1
  p2 = p2
  w1 = w1
  w2 = w2
  f = f
  dir = dir
  Publisher = {u1}
  Collector = {c1, c2}
  Restorer = {r1}
  Record = {row}
  Digest = {image}
  Needs <- Shared
  Image <- Picture
  NoOne = NoOne
  NoRoot = NoRoot
  MaxTicket = 1
  MaxClaim = 2
  MaxRevision = 2
  MaxSaves = 1
  MaxEdits = 1
  MaxWriteFaults = 1
  MaxReadFaults = 0
  ActorRuns = {"a"}
  ProducerRuns = {"p"}
  Pools = {1, 2}
  Processes = {1, 2, 3, 4}
  MaxStops = 1
SYMMETRY Interchangeable
INVARIANTS StoreSafe  ResourcesSafe SessionSafe
PROPERTIES StoreSteps 
CHECK_DEADLOCK FALSE
