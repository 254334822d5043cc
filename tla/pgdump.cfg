SPECIFICATION SafeSpec
CONSTANTS
  MaxStatements = 4
  SchemaNames = {"app", "public"}
  TableNames = {"t"}
  Columns = {"a", "b"}
  ColumnLists <- ShortLists
  Options <- SomeOptions
  None = None
INVARIANTS
  TypeOK
  DetailsKept
  RowsKept
  ResultIsTheDump
