SPECIFICATION SafeSpec
CONSTANTS
  MaxStatements = 2
  SchemaNames = {"app", "public"}
  TableNames = {"t"}
  Columns = {"a", "b"}
  ColumnLists <- ShortLists
  Options <- SomeOptions
  None = None
INVARIANT
  SelectionHonoured
