SPECIFICATION Spec
CONSTANTS
  Candidates = {c1, c2}
  Attempts = {a1, a2}
  Clients = {k1}
  NoCandidate = NoCandidate
INVARIANTS
  TrailIsAPath
  OneSuccessPerCandidate
PROPERTY ImplementsLifecycle
CHECK_DEADLOCK FALSE
