SPECIFICATION Spec
CONSTANTS
  Calls = {c1, c2, c3}
  MaxEntries = 1
INVARIANTS
  TypeOK
  BoundedByPuts
  FailedPutHoldsNothing
PROPERTY
  ImplementsCorrelation
SYMMETRY Symmetry
CHECK_DEADLOCK FALSE
