SPECIFICATION Spec
CONSTANTS
  Adapters = {"postgres", "sqlite", "duckdb", "mysql", "mariadb", "mssql", "oracle"}
  Declarations <- SomeDeclarations
  MaxDeclared = 4
  TableColumns <- AB
  Events = {"delete", "update"}
  Schema = "app"
  t = "t"
  Hidden <- Unseen
  Null = Null
INVARIANTS
  TypeOK
  KeysExact
  RefusedForNulls
CHECK_DEADLOCK FALSE
