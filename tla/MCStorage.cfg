\* One object: uploads in one request and resumable ones, deletes and downloads,
\* with crashes, power losses and dropped requests.
SPECIFICATION FairSpec
CONSTANTS
  o1 = o1
  u1 = u1
  Objects = {o1}
  Sessions = {u1}
  MaxUpload = 2
  UploadTTL = 1
  QueueSize = 1
  MaxRequests = 3
  Setups <- EachSetup
CHECK_DEADLOCK FALSE
INVARIANTS
  RowHasBlob
  ReadHasBlob
  UploadIsExact
  LeaksAreFailures
PROPERTIES
  ImplementsStore
  RequestsEnd
