\* The durable half: three events, two handlers, no direct events.
SPECIFICATION Spec
CONSTANTS
  MaxEvents = 3
  Capacity = 2
  MaxAttempts = 2
  LeaseSeconds = 2
  History = 1
  h1 = h1
  h2 = h2
  Handlers <- HandlerSet
  ChannelSize = 1
  BurstLimit = 2
  LoopLimit = 1
  FailureLimit = 2
  Retries = 2
  MaxBatch = 2
  MaxDirect = 0
  MaxFaults = 3
SYMMETRY HandlerSymmetry
INVARIANTS
  HeldRowIsLeased
  DeliveredWasHandled
  OutstandingBounded
  CompletedOnce
  ExtraClaimsAreFaults
PROPERTY
  ImplementsDelivery
