SPECIFICATION Spec
CONSTANTS
  N = 4
  Payload <- MCPayload
  max_segment_bytes = 7
  max_queue_bytes = 14
  max_items = 2
  Faults = {"bit_rot","crash_in_quarantine"}
  MaxFaults = 2
INVARIANT AcceptedNeverLost
