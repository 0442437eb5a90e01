SPECIFICATION FlowSpec
CONSTANTS
  Candidates = {1, 2}
  Attempts = {a1, a2}
  Clients = {reviewer, hook, scanner}
  Reviewers = {reviewer}
  Hooks = {hook}
  Scanners = {scanner}
  NoCandidate = NoCandidate
  RelationTypes = {conflict, duplicate, relatedTo}
  Gates = {conflict, duplicate}
  MaxRelations = 1
SYMMETRY Symmetry
INVARIANTS
  PromotedHasAttempt
  NeverPromotesUnpromotable
  ScansPromoteOnlyClear
