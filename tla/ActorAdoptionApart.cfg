\* Two calls, each with an exclusive candidate of its own.
SPECIFICATION UndisturbedSpec
CONSTANTS
  a1 = a1
  a2 = a2
  c1 = c1
  c2 = c2
  Actors = {a1, a2}
  Previews = {}
  Candidates = {c1, c2}
  Exclusive = {c1, c2}
  Matches <- Apart
  NoCandidate = NoCandidate
PROPERTIES CallsDecided
CHECK_DEADLOCK FALSE
