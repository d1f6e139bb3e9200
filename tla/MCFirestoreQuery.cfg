\* Pages of queries over mixed values, and updates by masks and transforms.
SPECIFICATION Spec
CONSTANTS
  None = None
  Width = 5
  Precision = 3
  Setups <- EachSetup
  Ascending <- InOrder
  Paths <- ThePaths
  MaxWrites = 2
CHECK_DEADLOCK FALSE
INVARIANT
  PagesAreComplete
PROPERTY
  ImplementsPages
  UpdateIsExact
