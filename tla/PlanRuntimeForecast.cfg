\* A chain whose child needs its parent's forecast.
SPECIFICATION Spec
CONSTANTS
  p = p
  q = q
  x = x
  y = y
  i = i
  j = j
  c = c
  Plans = {p}
  Actions = {x, y}
  Inputs = {i, j}
  Offers <- Forecast
  MaxRevision = 2
  MaxDecision = 1
  Observations = {"expected", "other"}
  Candidates = {c}
  Computes <- Work
  NoCandidate = NoCandidate
  None = None
 
PROPERTY SettledForGood
CHECK_DEADLOCK FALSE
