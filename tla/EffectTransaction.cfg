\* Two validations, one reconstructed query and two commits in every order.
SPECIFICATION FairSpec
CONSTANTS
  Validators = {v1, v2}
  Queries = {q1}
  Committers = {c1, c2}
  NoCall = NoCall
INVARIANTS EffectSafe
PROPERTIES EffectSteps AppliesOnce EffectProgress
CHECK_DEADLOCK FALSE
