SPECIFICATION FairSpec
CONSTANTS
  N = 5
  Payload <- MCPayload
  max_segment_bytes = 7
  max_queue_bytes = 14
  max_items = 2
  Faults = {"crash", "error_in_rotate", "error_in_commit"}
  MaxFaults = 3
PROPERTY ImplementsDurableQueue
PROPERTY AcceptedExported
