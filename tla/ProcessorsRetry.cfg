SPECIFICATION Spec
CONSTANTS
  Chain <- MCChain
  Records <- MCRecords
  SensitiveKeys = {"token"}
  Overhead = 1
  RedactedLen = 2
  Second = 2
  max_record_bytes = 9
  max_bytes_per_second = 8
  max_items = 2
  MaxRecords = 3
  MaxTime = 4
  MaxFailures = 1
  MaxFresh = 0
INVARIANT SurvivesRetry
CHECK_DEADLOCK FALSE
