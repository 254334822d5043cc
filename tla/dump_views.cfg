SPECIFICATION SafeSpec
CONSTANTS
  MaxStatements = 4
  SchemaNames = {"app", "main"}
  TableNames = {"t"}
  Columns = {"a", "b"}
  ColumnLists <- ShortLists
  MaxValues = 2
  Options <- SomeOptions
  None = None
INVARIANT
  ViewsOnlyIfAsked
