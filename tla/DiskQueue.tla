------------------------------ MODULE DiskQueue ------------------------------
(***************************************************************************)
(* The segmented disk queue of the agent (crates/telemetry-buffer), at the *)
(* grain of its file operations, so that a crash or an I/O error can fall  *)
(* between any two of them.                                                *)
(*                                                                         *)
(* The queue is used under the runtime's mutex, so one operation runs at a *)
(* time; `pc' says which.  The mutex is released between read_batch and    *)
(* commit_batch, while the batch is exported, so enqueues come in between. *)
(*                                                                         *)
(* Files are sequences of cells.  A record is HEADER cells (the length and *)
(* the checksum word) and Payload[r] payload cells.  Reading a frame that  *)
(* does not start on a record boundary, or whose cells are not all there,  *)
(* finds a truncated record or a wrong checksum: the model leaves out that *)
(* FNV-1a accepts damaged bytes by chance.                                 *)
(***************************************************************************)
EXTENDS Integers, Sequences, FiniteSetsExt, Functions

CONSTANTS
  N,                  \* records are submitted as 1, 2, ..., N
  Payload,            \* payload cells of each record
  max_segment_bytes,  \* DiskQueueOptions, in cells
  max_queue_bytes,    \* TenantLimits, in cells
  max_items,          \* flush batch size
  Faults,             \* the kinds of fault that happen, a subset of FaultKinds
  MaxFaults           \* how many faults happen

Records == 1..N

FaultKinds == {"crash", "crash_in_write", "crash_in_quarantine",
               "error_in_write", "error_in_quarantine", "error_in_rotate",
               "error_in_commit", "bit_rot"}

ASSUME QueueAssumption ==
  /\ N \in Nat
  /\ Payload \in [Records -> Nat \ {0}]
  /\ max_segment_bytes \in Nat
  /\ max_queue_bytes \in Nat
  /\ max_items \in Nat \ {0}
  /\ Faults \subseteq FaultKinds
  /\ MaxFaults \in Nat

VARIABLES
  segments,     \* the *.segment files: segment id -> cells           (on disk)
  cursor_file,  \* the cursor file, NoCursor when there is none    (on disk)
  pc,           \* the operation under way; "closed": no process
  active_segment_id, active_segment_bytes, queued_bytes, cursor,
  todo,         \* cells the enqueue under way has still to write
  rd,           \* the loop state of the read_batch under way
  batch,        \* the PendingBatch being exported, NoBatch if none
  submitted,    \* how many records were handed to enqueue
  accepted,     \* records whose enqueue returned Ok
  exported,     \* records every exporter has taken
  quarantined,  \* records with an intact frame in a *.corrupt file
  rotten,       \* records hit by bit rot
  faults        \* faults so far: <<kind, how many of the kind came before>>

memory == <<active_segment_id, active_segment_bytes, queued_bytes, cursor>>
disk == <<segments, cursor_file>>
history == <<submitted, accepted, exported, quarantined, rotten>>
vars == <<disk, pc, memory, todo, rd, batch, history, faults>>

-----------------------------------------------------------------------------
HEADER == 2
Cell == Records \X Nat
Cursor == [segment_id : Nat, offset : Nat]
NoCursor == [segment_id |-> 0, offset |-> 0]
NoBatch == [payloads |-> <<>>, next_cursor |-> NoCursor, sent |-> FALSE]
NoRead == [at |-> NoCursor, payloads |-> <<>>, should_commit |-> FALSE]

storage_bytes_for_payload(r) == HEADER + Payload[r]

Frame(r) == [k \in 1..storage_bytes_for_payload(r) |-> <<r, k>>]

\* File f holds the whole, undamaged frame of r from byte offset o on.
FrameAt(f, o, r) ==
  /\ o + storage_bytes_for_payload(r) <= Len(f)
  /\ \A k \in 1..storage_bytes_for_payload(r) : f[o + k] = <<r, k>>

\* File::create: an existing file is truncated.
Create(id) ==
  [s \in DOMAIN segments \cup {id} |-> IF s = id THEN <<>> ELSE segments[s]]

no_sub(a, b) == a

saturating_sub(a, b) == IF b > a THEN 0 ELSE a - b

\* The bytes of the files, each by its segment and its place in it.
FileBytes(files) == UNION {{s} \X (1..Len(files[s])) : s \in DOMAIN files}

total_segment_bytes == Cardinality(FileBytes(segments))

\* The cursor DiskQueue::open starts from, given what is on disk.
RecoveryCursor ==
  IF cursor_file # NoCursor THEN cursor_file
  ELSE [segment_id |-> IF DOMAIN segments = {} THEN 1 ELSE Min(DOMAIN segments),
        offset |-> 0]

Step(kind, rec, next) == [kind |-> kind, rec |-> rec, next |-> next]

\* Mutant: the reader does not go on to the next segment.
no_cursor_after(id) == Step("empty", 0, NoCursor)

next_cursor_after(id) ==
  LET later == {s \in DOMAIN segments : s > id}
  IN  IF later = {} THEN Step("empty", 0, NoCursor)
      ELSE Step("move", 0, [segment_id |-> Min(later), offset |-> 0])

\* Mutant: the cursor stays at the record just read.
SameRecord(c, r) == c

AfterRecord(c, r) == [c EXCEPT !.offset = @ + storage_bytes_for_payload(r)]

\* What one read at cursor c finds.  "corrupt" stands for both errors that
\* send the segment to quarantine: a truncated payload and a bad checksum.
read_step_at(c) ==
  IF c.segment_id \notin DOMAIN segments THEN next_cursor_after(c.segment_id)
  ELSE LET f == segments[c.segment_id]
           here == {r \in Records : FrameAt(f, c.offset, r)}
       IN  IF Len(f) < c.offset + HEADER
           THEN IF c.segment_id < active_segment_id
                THEN next_cursor_after(c.segment_id)
                ELSE Step("empty", 0, NoCursor)
           ELSE IF here = {} THEN Step("corrupt", 0, NoCursor)
           ELSE LET r == CHOOSE r \in here : TRUE
                IN  Step("record", r, AfterRecord(c, r))

-----------------------------------------------------------------------------
Init ==
  /\ segments = [s \in {} |-> <<>>]
  /\ cursor_file = NoCursor
  /\ pc = "closed"
  /\ active_segment_id = 0 /\ active_segment_bytes = 0 /\ queued_bytes = 0
  /\ cursor = NoCursor
  /\ todo = <<>> /\ rd = NoRead /\ batch = NoBatch
  /\ submitted = 0
  /\ accepted = {} /\ exported = {} /\ quarantined = {} /\ rotten = {}
  /\ faults = {}

LastSegment == IF DOMAIN segments = {} THEN 1 ELSE Max(DOMAIN segments)

OpenAt(c) ==
  /\ pc = "closed"
  /\ active_segment_id' = LastSegment
  /\ segments' = IF LastSegment \in DOMAIN segments THEN segments
                 ELSE Create(LastSegment)
  /\ active_segment_bytes' = Len(segments'[LastSegment])
  /\ queued_bytes' = total_segment_bytes
  /\ cursor' = c
  /\ cursor_file' = c
  /\ pc' = "idle"
  /\ UNCHANGED <<todo, rd, batch, history, faults>>

\* Mutant: the offset of the cursor file is lost.
OpenAtSegmentStart == OpenAt([RecoveryCursor EXCEPT !.offset = 0])

\* A process start.  One step: a crash between creating the first segment and
\* writing the cursor file leaves an empty segment, which the next open finds
\* as it would have found none.
Open == OpenAt(RecoveryCursor)

MustRotate(r) ==
  /\ active_segment_bytes > 0
  /\ active_segment_bytes + storage_bytes_for_payload(r) > max_segment_bytes

\* Mutant: the size of the record itself is left out.
WithinQuotaSoFar(r) == queued_bytes <= max_queue_bytes

\* AgentRuntime::ingest_inner accepts the record under the queue quota.
WithinQuota(r) ==
  queued_bytes + storage_bytes_for_payload(r) <= max_queue_bytes

\* AgentRuntime::ingest_inner and the first half of DiskQueue::enqueue: the
\* quota check, the rotation, the opening of the active file for appending.
Enqueue ==
  /\ pc = "idle"
  /\ submitted < N
  /\ LET r == submitted + 1
     IN  /\ WithinQuota(r)
         /\ IF MustRotate(r)
            THEN /\ active_segment_id' = active_segment_id + 1
                 /\ active_segment_bytes' = 0
                 /\ segments' = Create(active_segment_id + 1)
            ELSE /\ UNCHANGED <<active_segment_id, active_segment_bytes>>
                 /\ segments' = IF active_segment_id \in DOMAIN segments
                                THEN segments ELSE Create(active_segment_id)
         /\ submitted' = r
         /\ todo' = Frame(r)
  /\ pc' = "write"
  /\ UNCHANGED <<cursor_file, queued_bytes, cursor, rd, batch, accepted,
                 exported, quarantined, rotten, faults>>

\* The three write_all calls reach the file cell by cell.
WriteCell ==
  /\ pc = "write"
  /\ todo # <<>>
  /\ segments' = [segments EXCEPT ![active_segment_id] = Append(@, Head(todo))]
  /\ todo' = Tail(todo)
  /\ UNCHANGED <<cursor_file, pc, memory, rd, batch, history, faults>>

EnqueueReturn ==
  /\ pc = "write"
  /\ todo = <<>>
  /\ active_segment_bytes' =
       active_segment_bytes + storage_bytes_for_payload(submitted)
  /\ queued_bytes' = queued_bytes + storage_bytes_for_payload(submitted)
  /\ accepted' = accepted \cup {submitted}
  /\ pc' = "idle"
  /\ UNCHANGED <<disk, active_segment_id, cursor, todo, rd, batch, submitted,
                 exported, quarantined, rotten, faults>>

-----------------------------------------------------------------------------
ReadBatch ==
  /\ pc = "idle"
  /\ batch = NoBatch
  /\ rd' = [at |-> cursor, payloads |-> <<>>, should_commit |-> FALSE]
  /\ pc' = "read"
  /\ UNCHANGED <<disk, memory, todo, batch, history, faults>>

ReadRecord ==
  /\ pc = "read"
  /\ Len(rd.payloads) < max_items
  /\ LET step == read_step_at(rd.at)
     IN  /\ step.kind = "record"
         /\ rd' = [rd EXCEPT !.at = step.next,
                             !.payloads = Append(@, step.rec)]
  /\ UNCHANGED <<disk, pc, memory, todo, batch, history, faults>>

ReadMove ==
  /\ pc = "read"
  /\ Len(rd.payloads) < max_items
  /\ LET step == read_step_at(rd.at)
     IN  /\ step.kind = "move"
         /\ rd' = [rd EXCEPT !.at = step.next, !.should_commit = TRUE]
  /\ UNCHANGED <<disk, pc, memory, todo, batch, history, faults>>

\* quarantine_segment: the rename.  The segment's records leave the queue
\* although the cursor is not committed.
QuarantineSegment ==
  /\ pc = "read"
  /\ Len(rd.payloads) < max_items
  /\ read_step_at(rd.at).kind = "corrupt"
  /\ LET id == rd.at.segment_id
         f == segments[id]
     IN  /\ segments' = Restrict(segments, DOMAIN segments \ {id})
         /\ queued_bytes' = saturating_sub(queued_bytes, Len(f))
         /\ quarantined' = quarantined \cup
              {r \in Records : \E o \in 0..Len(f) : FrameAt(f, o, r)}
  /\ pc' = "quarantine"
  /\ UNCHANGED <<cursor_file, active_segment_id, active_segment_bytes, cursor,
                 todo, rd, batch, submitted, accepted, exported, rotten, faults>>

\* A batch without records is committed at once, to leave consumed segments.
CursorAfterRead ==
  IF rd.payloads = <<>> /\ rd.should_commit THEN rd.at ELSE cursor

ReadReturn ==
  /\ pc = "read"
  /\ Len(rd.payloads) = max_items \/ read_step_at(rd.at).kind = "empty"
  /\ batch' = IF rd.payloads = <<>> THEN NoBatch
              ELSE [payloads |-> rd.payloads, next_cursor |-> rd.at, sent |-> FALSE]
  /\ cursor' = CursorAfterRead
  /\ pc' = IF rd.payloads = <<>> /\ rd.should_commit THEN "commit" ELSE "idle"
  /\ rd' = NoRead
  /\ UNCHANGED <<disk, active_segment_id, active_segment_bytes, queued_bytes,
                 todo, history, faults>>

\* quarantine_and_advance after the rename: the reason file is written, and a
\* new active segment created when the active one was quarantined.
QuarantineAdvance ==
  /\ pc = "quarantine"
  /\ IF rd.at.segment_id >= active_segment_id
     THEN LET id == rd.at.segment_id + 1
          IN  /\ active_segment_id' = id
              /\ active_segment_bytes' = 0
              /\ segments' = Create(id)
              /\ rd' = [rd EXCEPT !.at = [segment_id |-> id, offset |-> 0],
                                  !.should_commit = TRUE]
     ELSE LET step == next_cursor_after(rd.at.segment_id)
          IN  /\ rd' = IF step.kind = "empty" THEN rd
                       ELSE [rd EXCEPT !.at = step.next, !.should_commit = TRUE]
              /\ UNCHANGED <<segments, active_segment_id, active_segment_bytes>>
  /\ pc' = "read"
  /\ UNCHANGED <<cursor_file, queued_bytes, cursor, todo, batch, history, faults>>

-----------------------------------------------------------------------------
\* Every exporter took the batch; the lock is not held.
ExportSucceeds ==
  /\ batch # NoBatch
  /\ ~batch.sent
  /\ batch' = [batch EXCEPT !.sent = TRUE]
  /\ exported' = exported \cup Range(batch.payloads)
  /\ UNCHANGED <<disk, pc, memory, todo, rd, submitted, accepted, quarantined,
                 rotten, faults>>

\* An exporter failed: the batch is dropped and read again by a later flush.
ExportFails ==
  /\ batch # NoBatch
  /\ ~batch.sent
  /\ batch' = NoBatch
  /\ UNCHANGED <<disk, pc, memory, todo, rd, history, faults>>

\* commit_batch: the cursor moves in memory first.
CommitBatch ==
  /\ pc = "idle"
  /\ batch.sent
  /\ cursor' = batch.next_cursor
  /\ batch' = NoBatch
  /\ pc' = "commit"
  /\ UNCHANGED <<disk, active_segment_id, active_segment_bytes, queued_bytes,
                 todo, rd, history, faults>>

\* Mutant: the segment the cursor is in goes too.
ConsumedAndCurrent == {s \in DOMAIN segments : s <= cursor.segment_id}

Consumed == {s \in DOMAIN segments : s < cursor.segment_id}

\* remove_segments_before, one file at a time, oldest first.
RemoveSegment ==
  /\ pc = "commit"
  /\ Consumed # {}
  /\ LET id == Min(Consumed)
     IN  /\ segments' = Restrict(segments, DOMAIN segments \ {id})
         /\ queued_bytes' = saturating_sub(queued_bytes, Len(segments[id]))
  /\ UNCHANGED <<cursor_file, pc, active_segment_id, active_segment_bytes,
                 cursor, todo, rd, batch, history, faults>>

\* persist_cursor: write cursor.tmp, rename it over the cursor file.
PersistCursor ==
  /\ pc = "commit"
  /\ Consumed = {}
  /\ cursor_file' = cursor
  /\ pc' = "idle"
  /\ UNCHANGED <<segments, memory, todo, rd, batch, history, faults>>

-----------------------------------------------------------------------------
Fault(kind) ==
  /\ kind \in Faults
  /\ Cardinality(faults) < MaxFaults
  /\ faults' = faults \cup {<<kind, Cardinality({f \in faults : f[1] = kind})>>}

CrashKind ==
  CASE pc = "write" -> "crash_in_write"
    [] pc = "quarantine" -> "crash_in_quarantine"
    [] OTHER -> "crash"

\* The process dies: what it wrote stays (the page cache survives it), what
\* it held in memory is gone.
Crash ==
  /\ pc # "closed"
  /\ Fault(CrashKind)
  /\ pc' = "closed"
  /\ active_segment_id' = 0 /\ active_segment_bytes' = 0 /\ queued_bytes' = 0
  /\ cursor' = NoCursor
  /\ todo' = <<>> /\ rd' = NoRead /\ batch' = NoBatch
  /\ UNCHANGED <<disk, history>>

\* A write fails half way (disk full): enqueue returns the error at once.
WriteFails ==
  /\ pc = "write"
  /\ todo # <<>>
  /\ Fault("error_in_write")
  /\ todo' = <<>>
  /\ pc' = "idle"
  /\ UNCHANGED <<disk, memory, rd, batch, history>>

\* Writing the reason file, or creating the next segment, fails: read_batch
\* returns the error with the segment renamed and no file in its place.
QuarantineFails ==
  /\ pc = "quarantine"
  /\ Fault("error_in_quarantine")
  /\ \/ UNCHANGED <<active_segment_id, active_segment_bytes>>
     \/ /\ rd.at.segment_id >= active_segment_id
        /\ active_segment_id' = rd.at.segment_id + 1
        /\ active_segment_bytes' = 0
  /\ rd' = NoRead
  /\ pc' = "idle"
  /\ UNCHANGED <<disk, queued_bytes, cursor, todo, batch, history>>

\* Creating the next segment fails: the new id is already in memory.
RotateFails ==
  /\ pc = "idle"
  /\ submitted < N
  /\ WithinQuota(submitted + 1)
  /\ MustRotate(submitted + 1)
  /\ Fault("error_in_rotate")
  /\ active_segment_id' = active_segment_id + 1
  /\ active_segment_bytes' = 0
  /\ submitted' = submitted + 1
  /\ UNCHANGED <<disk, pc, queued_bytes, cursor, todo, rd, batch, accepted,
                 exported, quarantined, rotten>>

\* Removing a segment or persisting the cursor fails: the cursor has already
\* moved in memory.
CommitFails ==
  /\ pc = "commit"
  /\ Fault("error_in_commit")
  /\ pc' = "idle"
  /\ UNCHANGED <<disk, memory, todo, rd, batch, history>>

\* A cell of a stored record changes on disk.  Which cell of the frame it is
\* makes no difference to the reader, so the model changes the first.
BitRot ==
  /\ Fault("bit_rot")
  /\ \E s \in DOMAIN segments : \E i \in 1..Len(segments[s]) :
       /\ segments[s][i][2] = 1
       /\ segments' = [segments EXCEPT ![s][i] = <<@[1], 0>>]
       /\ rotten' = rotten \cup {segments[s][i][1]}
  /\ UNCHANGED <<cursor_file, pc, memory, todo, rd, batch, submitted, accepted,
                 exported, quarantined>>

-----------------------------------------------------------------------------
System ==
  \/ Open \/ Enqueue \/ WriteCell \/ EnqueueReturn
  \/ ReadBatch \/ ReadRecord \/ ReadMove \/ QuarantineSegment \/ ReadReturn
  \/ QuarantineAdvance
  \/ ExportSucceeds \/ ExportFails \/ CommitBatch \/ RemoveSegment \/ PersistCursor

Environment ==
  \/ Crash \/ WriteFails \/ QuarantineFails \/ RotateFails \/ CommitFails \/ BitRot

Next == System \/ Environment

Spec == Init /\ [][Next]_vars

\* The flush worker and the process supervisor keep running, whatever it is
\* they have to do next...
Progress ==
  \/ Open \/ WriteCell \/ EnqueueReturn
  \/ ReadBatch \/ ReadRecord \/ ReadMove \/ QuarantineSegment \/ ReadReturn
  \/ QuarantineAdvance \/ CommitBatch \/ RemoveSegment \/ PersistCursor

\* ... and an exporter that is tried again and again is not down for ever.
FairSpec == Spec /\ WF_vars(Progress) /\ SF_vars(ExportSucceeds)

-----------------------------------------------------------------------------
(***************************************************************************)
(* What a reader finds.                                                    *)
(***************************************************************************)

\* r lies whole in a segment that a reader at cursor c has still to read.
StoredAfter(c, r) ==
  \E s \in DOMAIN segments :
    /\ s >= c.segment_id
    /\ \E o \in 0..Len(segments[s]) :
         /\ s = c.segment_id => o >= c.offset
         /\ FrameAt(segments[s], o, r)

Stored(r) == StoredAfter(RecoveryCursor, r)

TypeOK ==
  /\ DOMAIN segments \subseteq Nat \ {0}
  /\ \A s \in DOMAIN segments : segments[s] \in Seq(Cell)
  /\ cursor_file \in Cursor
  /\ pc \in {"closed", "idle", "write", "read", "quarantine", "commit"}
  /\ active_segment_id \in Nat
  /\ active_segment_bytes \in Nat
  /\ queued_bytes \in Nat
  /\ cursor \in Cursor
  /\ todo \in Seq(Cell)
  /\ rd \in [at : Cursor, payloads : Seq(Records), should_commit : BOOLEAN]
  /\ batch \in [payloads : Seq(Records), next_cursor : Cursor, sent : BOOLEAN]
  /\ submitted \in 0..N
  /\ accepted \subseteq Records
  /\ exported \subseteq Records
  /\ quarantined \subseteq Records
  /\ rotten \subseteq Records
  /\ faults \subseteq FaultKinds \X Nat

-----------------------------------------------------------------------------
(***************************************************************************)
(* Safety.                                                                 *)
(***************************************************************************)
Happened(kinds) == \E f \in faults : f[1] \in kinds

\* A fault fell into a quarantine or a rotation, which work on several files.
Interrupted == Happened({"crash_in_quarantine", "error_in_quarantine", "error_in_rotate"})

\* With damaged files, an accepted record that was not itself hit is exported,
\* or kept in a *.corrupt file, or still lies ahead of the cursor: none is
\* deleted or stepped over by read_batch, commit_batch or a restart.
AcceptedNeverLost ==
  \A r \in accepted : r \in exported \cup quarantined \cup rotten \/ Stored(r)

\* Only an interrupted quarantine or rotation loses a record.
AcceptedKept == Interrupted \/ AcceptedNeverLost

\* The two byte counters kept in memory agree with the files whenever no
\* operation is under way; ingest_inner and enqueue decide by them.  Only a
\* write that failed half way, and for the active segment a quarantine that
\* failed, leave them behind.
CountersExact ==
  pc = "idle" =>
    /\ Happened({"error_in_write"}) \/ queued_bytes = total_segment_bytes
    /\ \/ Happened({"error_in_write", "error_in_quarantine"})
       \/ active_segment_bytes = IF active_segment_id \in DOMAIN segments
                                 THEN Len(segments[active_segment_id]) ELSE 0

\* The files of the queue never outgrow the tenant's max_queue_bytes, unless a
\* write has failed half way: its bytes are not counted.
QuotaRespected ==
  Happened({"error_in_write"}) \/ total_segment_bytes <= max_queue_bytes

\* Until its export succeeds, every record of the batch that was not itself hit
\* by damage is still in the queue ahead of the cursor, so a failed export loses
\* nothing: read_batch takes no record off the queue.
WholeBatchKept ==
  batch # NoBatch /\ ~batch.sent =>
    \A r \in Range(batch.payloads) \ rotten : StoredAfter(cursor, r)

\* A record that a restart would no longer find ahead of its cursor never comes
\* back: neither reused segment ids nor a cursor file older than the removals
\* bring it back.
NothingComesBack ==
  [][\A r \in Records :
       ~Stored(r) /\ Stored(r)' => pc = "write" /\ r = submitted]_vars

-----------------------------------------------------------------------------
(***************************************************************************)
(* Liveness.                                                               *)
(***************************************************************************)

\* Every accepted record is exported in the end, across restarts and failed
\* removals, when exports do not fail for ever.
AcceptedExported == \A r \in Records : r \in accepted ~> r \in exported

\* Damage never blocks the reader: every accepted record that was not itself
\* hit is exported or ends up in quarantine.
AcceptedDisposed ==
  \A r \in Records :
    r \in accepted ~> r \in exported \cup quarantined \cup rotten \/ Interrupted
=============================================================================
