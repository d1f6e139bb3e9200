\* A renewed lease and the limit of a stream.
SPECIFICATION SentSpec
CONSTANTS
  t1 = t1
  s1 = s1
  s2 = s2
  c1 = c1
  x1 = x1
  Topics = {t1}
  Size <- Sizes
  Subs = {s1}
  Clients = {c1}
  Streams = {x1}
  MaxPending = 3
  MaxBytes = 5
  Retention = 3
  AckDeadline = 1
  PullCount = 1
  PullBytes = 2
  StreamCount = 1
  StreamBytes = 3
  StreamBatch = 2
  MaxMsgs = 2
  MaxAcks = 2
  Setups <- OneStream
INVARIANT
  StreamLimitEnforced
