SPECIFICATION FairSpec
CONSTANTS
  N = 4
  Payload <- MCPayload
  max_segment_bytes = 7
  max_queue_bytes = 10
  max_items = 2
  Faults = {"crash", "crash_in_write", "crash_in_quarantine", "error_in_write",
            "error_in_quarantine", "error_in_rotate", "error_in_commit", "bit_rot"}
  MaxFaults = 2
INVARIANT AcceptedKept
INVARIANT ReadInOrder
INVARIANT CountersExact
INVARIANT QuotaRespected
PROPERTY NothingComesBack
PROPERTY AcceptedDisposed
