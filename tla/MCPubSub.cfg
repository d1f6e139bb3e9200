\* Two subscriptions of one topic; and one subscription with a stream.
SPECIFICATION Spec
CONSTANTS
  t1 = t1
  s1 = s1
  s2 = s2
  c1 = c1
  x1 = x1
  Topics = {t1}
  Size <- Sizes
  Subs = {s1, s2}
  Clients = {c1}
  Streams = {x1}
  MaxPending = 3
  MaxBytes = 5
  Retention = 2
  AckDeadline = 1
  PullCount = 2
  PullBytes = 3
  StreamCount = 2
  StreamBytes = 3
  StreamBatch = 2
  MaxMsgs = 2
  MaxAcks = 3
  Setups <- EachSetup
SYMMETRY Symmetry
INVARIANTS
  NoOrphans
  AckNamesItsRow
  BacklogBounded
  StreamBounded
PROPERTIES
  NeverReturns
  RemovedForCause
  LeaseHonoured
