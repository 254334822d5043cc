SPECIFICATION Spec
CONSTANTS
  MaxTables = 2
  Caps <- SmallCaps
  Sizes <- SmallSizes
  MinimumOutputBytes = 2
  MaximumOutputBytes = 4
INVARIANTS
  TypeOK
  WholeUnlessGenericDump
  FailuresHaveCauses
  SourceReleased
  OutputBounded
PROPERTY
  CallReturns
