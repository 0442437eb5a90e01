SPECIFICATION Spec
CONSTANTS
  Events = {e1, e2, e3, e4}
  Writers = {w1, w2}
  MaxRows = 2
  RotateEvery = 2
  SizeBatch = 1
SYMMETRY Symmetry
INVARIANTS
  TypeOK
  AuditHasEvent
PROPERTIES
  OldestFirst
  KeepsRecent
