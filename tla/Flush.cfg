SPECIFICATION MCSpec
CONSTANTS
  Batch <- MCBatch
  Protocol <- MCProtocol
  Configs <- MCConfigs
  max_attempts = 2
  MaxFlushes = 1
  SensitiveKeys = {"token"}
  Overhead = 1
  RedactedLen = 2
  Second = 2
  max_record_bytes = 9
  max_bytes_per_second = 8
  max_items = 2
  MaxRecords = 3
  MaxTime = 3
  MaxFailures = 1
  MaxFresh = 1
INVARIANT CommittedDelivered
INVARIANT ChainSound
PROPERTY BatchCommitted
CHECK_DEADLOCK FALSE
