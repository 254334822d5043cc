SPECIFICATION SafeSpec
CONSTANTS
  SchemaOrder <- TwoSchemas
  TableNames = {"t"}
  ColumnLists <- ShortLists
  Requests <- SomeRequests
  MaxChanges = 2
INVARIANTS
  TypeOK
  UntouchedExact
  ExamplesAligned
  QuietNeverFails
