\* Two targets, and two commits, over requests that are given up and repeated.
SPECIFICATION Spec
CONSTANTS
  n1 = n1
  n2 = n2
  p1 = p1
  p2 = p2
  g1 = g1
  g2 = g2
  None = None
  Modes = {TRUE}
  Sessions <- EachSession
  Posts = {p1, p2}
  Gets = {g1, g2}
  Names = {n1, n2}
  TargetIds = {1, 2}
  Wanted <- Selected
  MaxCommits = 2
  MaxFailures = 1
CHECK_DEADLOCK FALSE
INVARIANT
  GotIsAPrefix
  AppliedOnceInOrder
  ViewIsASnapshot
