SPECIFICATION Spec
CONSTANTS
  Candidates = {c1}
  Attempts = {a1, a2}
  Clients = {k1, k2}
  NoCandidate = NoCandidate
SYMMETRY Symmetry
INVARIANTS
  TypeOK
  RowMatchesLog
  LogIsCausal
  ApprovedBeforePromoted
  AttemptsFollowApproval
PROPERTY PromotionIsAtomic
CHECK_DEADLOCK FALSE
