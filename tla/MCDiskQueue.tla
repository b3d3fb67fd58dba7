---------------------------- MODULE MCDiskQueue ----------------------------
EXTENDS DiskQueueReading, SequencesExt

MCPayload == [r \in Records |-> IF r = 2 THEN 2 ELSE 1]

-----------------------------------------------------------------------------
\* The records read one after the other in file f from offset o on.
RecordsFrom(f, o) ==
  LET run[p \in 0..Len(f)] ==
        LET here == {r \in Records : FrameAt(f, p, r)}
        IN  IF here = {} THEN <<>>
            ELSE LET r == CHOOSE r \in here : TRUE
                 IN  <<r>> \o run[p + storage_bytes_for_payload(r)]
  IN  IF o \in 0..Len(f) THEN run[o] ELSE <<>>

\* The records a reader at cursor c gets before the first damaged byte of each
\* segment.
Readable(c) ==
  LET ids == SetToSortSeq({s \in DOMAIN segments : s >= c.segment_id}, <)
  IN  FlattenSeq([i \in DOMAIN ids |->
        RecordsFrom(segments[ids[i]],
                    IF ids[i] = c.segment_id THEN c.offset ELSE 0)])

\* A record whose enqueue returned Ok was exported or is read by the process
\* started after a crash: commit_cursor removes segments before it persists the
\* cursor, and read_step_at steps over the missing ones.
AcceptedRecoverable == accepted \subseteq exported \cup ToSet(Readable(RecoveryCursor))

\* A queue that has delivered everything it holds accepts the next record.
EmptyQueueAccepts ==
  /\ pc = "idle"
  /\ batch = NoBatch
  /\ Readable(cursor) = <<>>
  /\ submitted < N
  /\ storage_bytes_for_payload(submitted + 1) <= max_queue_bytes
  => WithinQuota(submitted + 1)
============================================================================
