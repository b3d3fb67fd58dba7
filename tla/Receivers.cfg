SPECIFICATION MCSpec
CONSTANTS
  Clients = {"g", "max", "nolen"}
  Request <- MCRequest
  MaxBody = 4
  Chunk = 2
  max_record_bytes = 3
  max_queue_bytes = 4
  MaxAttempts = 2
  Starts <- MCStarts
  Updates <- MCUpdates
  SigningKey = TRUE
INVARIANT AckedStored
 
INVARIANT RequestsContiguous
INVARIANT RunningUsable
PROPERTY HandlersEnd
PROPERTY OnlyGoodUpdates
CHECK_DEADLOCK FALSE
