SPECIFICATION Spec
CONSTANTS
  Candidates = {c1}
  Attempts = {a1}
  Clients = {k1, k2}
  NoCandidate = NoCandidate
PROPERTY LifecycleSteps
CHECK_DEADLOCK FALSE
