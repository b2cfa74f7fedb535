\* Safety: two calls compete for an exclusive and a shared candidate.
SPECIFICATION Spec
CONSTANTS
  a1 = a1
  a2 = a2
  c1 = c1
  c2 = c2
  Actors = {a1, a2}
  Previews = {}
  Candidates = {c1, c2}
  Exclusive = {c1}
  Matches <- Compete
  NoCandidate = NoCandidate
SYMMETRY Alike
INVARIANTS AdoptionSafe
PROPERTIES ReservedIsKept KeepsPromise
CHECK_DEADLOCK FALSE
