\* A poisoned commit, and a later call that demands hardware.
SPECIFICATION Spec
CONSTANTS
  a1 = a1
  a2 = a2
  c1 = c1
  c2 = c2
  Actors = {a1, a2}
  Previews = {}
  Candidates = {c1}
  Exclusive = {c1}
  Matches <- Compete
  NoCandidate = NoCandidate
INVARIANT UnitsAreFallbacks
CHECK_DEADLOCK FALSE
