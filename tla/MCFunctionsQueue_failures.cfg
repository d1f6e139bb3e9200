\* A direct event and an outbox row with the same number.
SPECIFICATION Spec
CONSTANTS
  MaxEvents = 2
  Capacity = 2
  MaxAttempts = 2
  LeaseSeconds = 1
  History = 1
  h1 = h1
  h2 = h2
  Handlers = {h1}
  ChannelSize = 2
  BurstLimit = 1
  LoopLimit = 1
  FailureLimit = 2
  Retries = 1
  MaxBatch = 1
  MaxDirect = 2
  MaxFaults = 0
PROPERTY
  DirectFailureIsKept
