SPECIFICATION Spec
CONSTANTS
  MaxLines = 7
  MaxShapes = 1
  Headers <- SomeHeaders
  Columns = {"a", "b", "indexes_on"}
  Prefixed = {"indexes_on"}
  Settings <- SomeSettings
  Indexes <- SomeIndexes
  Links <- SomeLinks
  Malformed = Malformed
  NoRef = NoRef
INVARIANTS
  TypeOK
  RefusalsNamed
  DocumentKept
  ReferencesKept
CHECK_DEADLOCK FALSE
