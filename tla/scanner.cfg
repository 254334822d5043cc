SPECIFICATION ScanSpec
CONSTANTS
  Readers <- AllReaders
  Contents <- SomeContents
  MaxConstructs <- Bounds
  MaxFilled <- Filled
INVARIANTS
  ScanTypeOK
  SplitAsMeant
CHECK_DEADLOCK FALSE
