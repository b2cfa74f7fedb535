\* Liveness: a call competes with another one, or with a preview, for an exclusive candidate.
SPECIFICATION PairSpec
CONSTANTS
  a1 = a1
  a2 = a2
  c1 = c1
  c2 = c2
  Actors = {a1, a2}
  Previews = {p1}
  Candidates = {c1}
  Exclusive = {c1}
  Matches <- Compete
  NoCandidate = NoCandidate
PROPERTIES CallsDecided
CHECK_DEADLOCK FALSE
