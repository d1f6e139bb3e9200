\* A slow listener with two targets, of a store in SQLite or in memory.
SPECIFICATION LiveSpec
CONSTANTS
  n1 = n1
  n2 = n2
  None = None
  Modes = {TRUE, FALSE}
  Names = {n1, n2}
  TargetIds = {1, 2}
  Wanted <- Selected
  MaxCommits = 2
  Capacity = 1
  OutLimit = 1
  MaxRequests = 3
CHECK_DEADLOCK FALSE
INVARIANT
  ViewIsASnapshot
PROPERTY
  ViewsConverge
