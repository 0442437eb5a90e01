SPECIFICATION Spec
CONSTANTS
  Calls = {c1, c2}
  Workers = 1
  MaxEntries = 1
INVARIANTS
  TypeOK
  FailClosed
  RoutedIsQueued
  DryRunWins
  AuditedOnce
PROPERTY
  PreHookAnswers
CHECK_DEADLOCK FALSE
