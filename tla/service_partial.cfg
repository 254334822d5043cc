SPECIFICATION SafeSpec
CONSTANTS
  MaxTables = 2
  Caps <- SmallCaps
  Sizes <- SmallSizes
  MinimumOutputBytes = 2
  MaximumOutputBytes = 4
INVARIANT
  SuccessIsWhole
