SPECIFICATION CliSpec
CONSTANTS
  Names = {"app", "audit"}
INVARIANTS
  CliTypeOK
  OldOutputKept
  DocumentIsWhole
  NamedSchemasOnly
