SPECIFICATION Spec
CONSTANTS
  Plugins = {p1}
  Clis = {q1}
  Columns = {actor, content}
  Head = 2
  Repeatable = {2}
  Intents = {preflight, compatibility}
  Compatibility = compatibility
  Matrix = {preflight}
  MinVersion <- MCMinVersion
  Releases = {1, 2}
  Unknown = Unknown
  MaxFailures = 1
INVARIANTS
  TypeOK
  VersionIsApplied
  OpenedIsMigrated
  RetiredByNewerRelease
PROPERTIES
  MigratesInOrder
  EverybodyStarts
