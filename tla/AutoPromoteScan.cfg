SPECIFICATION ScanSpec
CONSTANTS
  Candidates = {1, 2}
  Attempts = {a1, a2}
  Clients = {reviewer, scanner}
  Reviewers = {reviewer}
  Hooks = {}
  Scanners = {scanner}
  NoCandidate = NoCandidate
  RelationTypes = {conflict, relatedTo}
  Gates = {conflict}
  MaxRelations = 1
PROPERTY UnblockedLeaves
CHECK_DEADLOCK FALSE
