\* Durable and direct work together, with fairness.  The handlers that ran are a
\* matter of the run outbox: here no function matches an event.
SPECIFICATION FairSpec
CONSTANTS
  MaxEvents = 2
  Capacity = 2
  MaxAttempts = 2
  LeaseSeconds = 1
  History = 1
  h1 = h1
  h2 = h2
  Handlers = {}
  ChannelSize = 2
  BurstLimit = 1
  LoopLimit = 1
  FailureLimit = 2
  Retries = 1
  MaxBatch = 1
  MaxDirect = 2
  MaxFaults = 2
INVARIANTS
  FailureHistoryBounded
  PendingIsExact
  DirectNotStarved
PROPERTIES
  EventsSettle
  DirectServed
