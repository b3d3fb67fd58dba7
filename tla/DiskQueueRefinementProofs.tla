--------------------- MODULE DiskQueueRefinementProofs ---------------------
(***************************************************************************)
(* The queue is a durable FIFO, through crashes outside a write and errors *)
(* of a rotation or a commit: the faults that damage no file.  Every       *)
(* cursor is then on a record boundary (Placed), so no reader finds a      *)
(* segment corrupt, and what lies between two cursors is exactly what was  *)
(* read from the one to the other (Exact).                                 *)
(***************************************************************************)
EXTENDS DiskQueueOrderProofs

Undamaging == {"crash", "error_in_rotate", "error_in_commit"}

\* The length of a file without the record under way.
Whole(s) == Len(segments[s]) - (IF pc = "write" /\ s = active_segment_id THEN Written ELSE 0)

Boundary(s, o) ==
  o = Whole(s) \/ (o < Whole(s) /\ \E r \in Records : FrameAt(segments[s], o, r))

\* Records follow each other without a gap.
Tiled ==
  \A s \in DOMAIN segments :
    /\ Boundary(s, 0)
    /\ \A o \in Nat : \A r \in Records :
         o < Whole(s) /\ FrameAt(segments[s], o, r) => Boundary(s, o + storage_bytes_for_payload(r))

UnderWay ==
  pc = "write" =>
    LET f == segments[active_segment_id] IN
    Written <= Len(f) /\ \A k \in 1..Written : f[Len(f) - Written + k] = <<submitted, k>>

Placed(c) ==
  /\ \E s \in DOMAIN segments : c.segment_id <= s
  /\ c.segment_id \in DOMAIN segments => Boundary(c.segment_id, c.offset)

CursorsPlaced ==
  /\ cursor_file # NoCursor => Placed(cursor_file)
  /\ pc # "closed" => Placed(cursor)
  /\ pc = "read" => Placed(rd.at)
  /\ batch # NoBatch => Placed(batch.next_cursor)

Sound == Tiled /\ UnderWay /\ CursorsPlaced /\ pc # "quarantine"

Between(c, d) == Ahead(c) \ Ahead(d)

Exact ==
  /\ pc # "closed" => Between(cursor_file, cursor) \subseteq exported
  /\ pc = "read" => Range(rd.payloads) = Between(cursor, rd.at)
  /\ batch # NoBatch => Range(batch.payloads) = Between(cursor, batch.next_cursor)
  /\ batch.sent => Range(batch.payloads) \subseteq exported

-----------------------------------------------------------------------------
\* The provers, and the seconds each may take, for a step that names none.
USE SMTT(30), Z3T(30), ZenonT(30)

LEMMA NotCorrupt ==
  ASSUME Order, pc = "read", Placed(rd.at)
  PROVE  read_step_at(rd.at).kind # "corrupt"
<1> DEFINE c == rd.at
           f == segments[c.segment_id]
           here == {r \in Records : FrameAt(f, c.offset, r)}
<1>1. c \in Cursor /\ c.segment_id \in Nat /\ c.offset \in Nat
  BY DEF Order, Types, Cursor
<1>2. next_cursor_after(c.segment_id).kind # "corrupt"
  BY <1>1, Moves DEF Order
<1>3. CASE c.segment_id \notin DOMAIN segments
  BY <1>2, <1>3 DEF read_step_at
<1>4. CASE c.segment_id \in DOMAIN segments
  <2>1. Len(f) \in Nat
    BY <1>4, CellIs
  <2>2. c.offset = Len(f) \/ here # {}
    BY <1>4, <2>1 DEF Placed, Boundary, Whole
  <2>3. CASE Len(f) < c.offset + HEADER
    BY <1>2, <1>4, <2>3 DEF read_step_at, Step
  <2>4. CASE ~(Len(f) < c.offset + HEADER)
    <3>1. here # {}
      BY <1>1, <2>1, <2>2, <2>4 DEF HEADER
    <3>2. \E r : read_step_at(c) = Step("record", r, AfterRecord(c, r))
      BY <1>4, <2>4, <3>1, ZenonT(30) DEF read_step_at
    <3> QED
      BY <3>2 DEF Step
  <2> QED
    BY <2>3, <2>4
<1> QED
  BY <1>3, <1>4

\* The steps that damage or quarantine a file do not happen.
LEMMA NoDamage ==
  ASSUME Faults \subseteq Undamaging, Order, Sound
  PROVE  /\ ~QuarantineSegment /\ ~QuarantineAdvance /\ ~QuarantineFails /\ ~WriteFails /\ ~BitRot
         /\ Crash => pc # "write"
<1>1. ~QuarantineSegment
  BY NotCorrupt, ZenonT(30) DEF QuarantineSegment, Sound, CursorsPlaced
<1>2. ~QuarantineAdvance /\ ~QuarantineFails
  BY DEF QuarantineAdvance, QuarantineFails, Sound
<1>3. ~WriteFails /\ ~BitRot
  BY DEF WriteFails, BitRot, Fault, Undamaging
<1>4. Crash => pc # "write"
  BY DEF Crash, CrashKind, Fault, Undamaging
<1> QED
  BY <1>1, <1>2, <1>3, <1>4

\* Only these steps change the files.
LEMMA FilesStep ==
  ASSUME Faults \subseteq Undamaging, Order, Below, Sound, [Next]_vars, ~WriteCell, ~RemoveSegment
  PROVE  \/ segments' = segments
         \/ /\ Open \/ Enqueue
            /\ \E id \in Nat \ {0} : (\A s \in DOMAIN segments : s < id) /\ segments' = Create(id)
<1>1. CASE Open
  <2>1. segments' = IF LastSegment \in DOMAIN segments THEN segments ELSE Create(LastSegment)
    BY <1>1 DEF Open, OpenAt
  <2>2. CASE DOMAIN segments = {}
    BY <1>1, <2>1, <2>2 DEF LastSegment
  <2>3. CASE DOMAIN segments # {}
    BY <2>1, <2>3, LastSegmentIsLast DEF LastOne, Order
  <2> QED
    BY <2>2, <2>3, ZenonT(30)
<1>2. CASE Enqueue
  <2> DEFINE a == active_segment_id
  <2>1. /\ pc = "idle"
        /\ \/ segments' = segments
           \/ segments' = Create(a + 1)
           \/ a \notin DOMAIN segments /\ segments' = Create(a)
    BY <1>2 DEF Enqueue
  <2>2. a \in Nat \ {0} /\ DOMAIN segments \subseteq Nat
    BY <2>1 DEF Order, Types, CursorsOrdered, FilesOK
  <2>3. \A s \in DOMAIN segments : s <= a
    BY <2>1 DEF Below
  <2>4. CASE segments' = Create(a + 1)
    BY <1>2, <2>2, <2>3, <2>4
  <2>5. CASE a \notin DOMAIN segments /\ segments' = Create(a)
    <3>1. \A s \in DOMAIN segments : s < a
      BY <2>2, <2>3, <2>5
    <3> QED
      BY <1>2, <2>2, <2>5, <3>1
  <2> QED
    BY <2>1, <2>4, <2>5
<1>3. CASE UNCHANGED vars
  BY <1>3 DEF vars, disk
<1> QED
  BY <1>1, <1>2, <1>3, NoDamage, ZenonT(30)
     DEF Next, System, Environment, disk, EnqueueReturn, ReadBatch, ReadRecord, ReadMove, ReadReturn,
         ExportSucceeds, ExportFails, CommitBatch, PersistCursor, Crash, RotateFails, CommitFails

\* A new file is empty and the last.
LEMMA FileIs ==
  ASSUME Faults \subseteq Undamaging, Order, Below, Sound, [Next]_vars, ~WriteCell, NEW s \in DOMAIN segments'
  PROVE  \/ s \in DOMAIN segments /\ segments'[s] = segments[s]
         \/ /\ s \notin DOMAIN segments /\ segments'[s] = <<>>
            /\ \A t \in DOMAIN segments : t < s
<1>0. FilesOK(segments)
  BY DEF Order, Types
<1>1. CASE RemoveSegment
  <2>1. segments' = Restrict(segments, DOMAIN segments \ {Min(Consumed)})
    BY <1>1 DEF RemoveSegment
  <2> QED
    BY <2>1 DEF Restrict
<1>2. CASE ~RemoveSegment /\ segments' # segments
  <2>1. PICK id \in Nat \ {0} : (\A t \in DOMAIN segments : t < id) /\ segments' = Create(id)
    BY <1>2, FilesStep
  <2>2. id \notin DOMAIN segments
    BY <2>1
  <2> QED
    BY <1>0, <2>1, <2>2, Created, ZenonT(30)
<1> QED
  BY <1>1, <1>2

\* Files go only by RemoveSegment, and then the oldest, before the cursor.
LEMMA FileStays ==
  ASSUME Faults \subseteq Undamaging, Order, Below, Sound, [Next]_vars, NEW s \in DOMAIN segments, s \notin DOMAIN segments'
  PROVE  /\ RemoveSegment /\ pc = "commit" /\ s < cursor.segment_id
         /\ \A t \in DOMAIN segments : s <= t
         /\ DOMAIN segments' = DOMAIN segments \ {s}
         /\ \A t \in DOMAIN segments' : segments'[t] = segments[t]
         /\ UNCHANGED <<cursor_file, pc, cursor, exported, accepted, batch, rd>>
<1>0. FilesOK(segments) /\ DOMAIN segments \subseteq Nat /\ cursor \in Cursor /\ cursor.segment_id \in Nat
  BY DEF Order, Types, FilesOK, Cursor
<1>1. CASE WriteCell
  BY <1>1, Written1, ZenonT(30)
<1>2. CASE RemoveSegment
  <2>1. /\ pc = "commit" /\ Consumed # {} /\ segments' = Restrict(segments, DOMAIN segments \ {Min(Consumed)})
        /\ UNCHANGED <<cursor_file, pc, cursor, exported, accepted, batch, rd>>
    BY <1>2 DEF RemoveSegment, history
  <2>2. Min(Consumed) \in Consumed /\ \A t \in Consumed : Min(Consumed) <= t
    <3>1. Consumed \subseteq DOMAIN segments /\ Ranged(DOMAIN segments)
      BY <1>0 DEF Consumed, FilesOK
    <3> QED
      BY <2>1, <3>1, MinIsLeast, ZenonT(30)
  <2>3. /\ DOMAIN segments' = DOMAIN segments \ {Min(Consumed)}
        /\ \A t \in DOMAIN segments' : segments'[t] = segments[t]
    BY <2>1 DEF Restrict
  <2>4. s = Min(Consumed)
    BY <2>3
  <2>5. \A t \in DOMAIN segments : s <= t
    BY <1>0, <2>2, <2>4 DEF Consumed
  <2> QED
    BY <1>2, <2>1, <2>2, <2>3, <2>4, <2>5 DEF Consumed
<1>3. CASE ~WriteCell /\ ~RemoveSegment
  <2>1. segments' # segments
    OBVIOUS
  <2>2. PICK id \in Nat \ {0} : segments' = Create(id)
    BY <1>3, <2>1, FilesStep
  <2> QED
    BY <1>0, <2>2, Created, ZenonT(30)
<1> QED
  BY <1>1, <1>2, <1>3

-----------------------------------------------------------------------------
LEMMA WholeIs ==
  ASSUME Order, UnderWay, NEW s \in DOMAIN segments
  PROVE  /\ Whole(s) \in Nat /\ Whole(s) <= Len(segments[s])
         /\ pc # "write" \/ s # active_segment_id => Whole(s) = Len(segments[s])
<1>1. Len(segments[s]) \in Nat
  BY CellIs
<1>2. pc = "write" /\ s = active_segment_id => Written \in Nat /\ Written <= Len(segments[s])
  BY Sizes DEF UnderWay, Order, Writing
<1> QED
  BY <1>1, <1>2 DEF Whole

LEMMA WritesOnly ==
  ASSUME Faults \subseteq Undamaging, Order, Sound, [Next]_vars, ~Enqueue, ~EnqueueReturn, ~WriteCell
  PROVE  \/ pc # "write" /\ pc' # "write"
         \/ UNCHANGED <<pc, active_segment_id, todo, submitted>>
BY NoDamage, ZenonT(30)
   DEF Next, System, Environment, vars, memory, history, Open, OpenAt, ReadBatch, ReadRecord, ReadMove,
       ReadReturn, ExportSucceeds, ExportFails, CommitBatch, RemoveSegment, PersistCursor, Crash,
       RotateFails, CommitFails

LEMMA EnqueueStarts ==
  ASSUME Order, Enqueue
  PROVE  pc = "idle" /\ pc' = "write" /\ Written' = 0 /\ submitted' \in Records
<1>1. pc = "idle" /\ pc' = "write" /\ submitted' = submitted + 1 /\ submitted < N /\ todo' = Frame(submitted + 1)
  BY DEF Enqueue
<1>2. submitted + 1 \in Records
  BY <1>1, Sizes DEF Order, Types, Records
<1>3. Len(Frame(submitted + 1)) = storage_bytes_for_payload(submitted + 1)
  <2>1. storage_bytes_for_payload(submitted + 1) \in Nat
    BY <1>2, Sizes
  <2> QED
    BY <2>1 DEF Frame
<1> QED
  BY <1>1, <1>2, <1>3, Sizes DEF Written

LEMMA WholeStays ==
  ASSUME Faults \subseteq Undamaging, Order, Below, Sound, [Next]_vars, ~EnqueueReturn, ~WriteCell,
         NEW s \in DOMAIN segments'
  PROVE  Whole(s)' = IF s \in DOMAIN segments THEN Whole(s) ELSE 0
<1>1. Len(segments'[s]) = IF s \in DOMAIN segments THEN Len(segments[s]) ELSE 0
  BY FileIs
<1>2. s \in DOMAIN segments => Len(segments[s]) \in Nat
  BY CellIs
<1>3. CASE Enqueue
  BY <1>1, <1>2, <1>3, EnqueueStarts DEF Whole
<1>4. CASE pc # "write" /\ pc' # "write"
  BY <1>1, <1>2, <1>4 DEF Whole
<1>5. CASE UNCHANGED <<pc, active_segment_id, todo, submitted>> /\ ~Enqueue
  <2>1. Written' = Written
    BY <1>5 DEF Written
  <2>2. pc = "write" => active_segment_id \in DOMAIN segments
    BY DEF Order, Writing
  <2> QED
    BY <1>1, <1>5, <2>1, <2>2 DEF Whole
<1> QED
  BY <1>3, <1>4, <1>5, WritesOnly

\* What WriteCell does to a file.
LEMMA WriteGrows ==
  ASSUME Order, UnderWay, WriteCell, NEW s \in DOMAIN segments
  PROVE  /\ DOMAIN segments' = DOMAIN segments /\ Whole(s)' = Whole(s)
         /\ Len(segments[s]) \in Nat /\ Len(segments'[s]) \in Nat /\ Len(segments[s]) <= Len(segments'[s])
         /\ \A i \in 1..Len(segments[s]) : segments'[s][i] = segments[s][i]
         /\ s # active_segment_id => segments'[s] = segments[s]
         /\ s = active_segment_id =>
              /\ Len(segments'[s]) = Len(segments[s]) + 1
              /\ segments'[s][Len(segments[s]) + 1] = <<submitted, Written + 1>>
<1> DEFINE a == active_segment_id
           f == Append(segments[a], <<submitted, Written + 1>>)
<1>1. /\ a \in DOMAIN segments /\ segments[a] \in Seq(Cell) /\ <<submitted, Written + 1>> \in Cell
      /\ segments' = [segments EXCEPT ![a] = f]
      /\ Written \in Nat /\ Written' = Written + 1 /\ pc = "write"
  BY Written1
<1>2. pc' = pc /\ active_segment_id' = a
  BY DEF WriteCell, memory
<1>3. /\ DOMAIN segments' = DOMAIN segments /\ segments'[a] = f
      /\ s # a => segments'[s] = segments[s]
  BY <1>1 DEF Order, Types, FilesOK
<1>4. Len(segments[s]) \in Nat
  BY CellIs
<1>5. /\ Len(f) = Len(segments[a]) + 1 /\ f[Len(segments[a]) + 1] = <<submitted, Written + 1>>
      /\ \A i \in 1..Len(segments[a]) : f[i] = segments[a][i]
  BY <1>1, AppendIs
<1> HIDE DEF f
<1>6. Whole(s)' = Whole(s)
  BY <1>1, <1>2, <1>3, <1>4, <1>5 DEF Whole
<1> QED
  BY <1>3, <1>4, <1>5, <1>6

LEMMA FrameGrows ==
  ASSUME NEW f, NEW g, Len(f) \in Nat, Len(g) \in Nat, Len(f) <= Len(g),
         \A i \in 1..Len(f) : g[i] = f[i], NEW o \in Nat, NEW r \in Records, FrameAt(f, o, r)
  PROVE  FrameAt(g, o, r)
<1>1. storage_bytes_for_payload(r) \in Nat
  BY Sizes
<1>2. \A k \in 1..storage_bytes_for_payload(r) : o + k \in 1..Len(f)
  BY <1>1 DEF FrameAt
<1> QED
  BY <1>1, <1>2 DEF FrameAt

\* The frame of the record that is written out.
LEMMA WrittenOut ==
  ASSUME Order, UnderWay, EnqueueReturn
  PROVE  LET a == active_segment_id IN
         /\ a \in DOMAIN segments /\ submitted \in Records
         /\ Len(segments[a]) = Whole(a) + storage_bytes_for_payload(submitted)
         /\ FrameAt(segments[a], Whole(a), submitted)
         /\ \A k \in 1..storage_bytes_for_payload(submitted) : segments[a][Whole(a) + k] = <<submitted, k>>
<1> DEFINE a == active_segment_id
           z == storage_bytes_for_payload(submitted)
<1>1. pc = "write" /\ todo = <<>> /\ a \in DOMAIN segments /\ submitted \in Records
  BY DEF EnqueueReturn, Order, Writing
<1>2. z \in Nat /\ Written = z
  BY <1>1, Sizes DEF Written
<1>3. Len(segments[a]) \in Nat /\ z <= Len(segments[a]) /\ Whole(a) = Len(segments[a]) - z
  BY <1>1, <1>2, CellIs DEF UnderWay, Whole
<1>4. \A k \in 1..z : segments[a][Whole(a) + k] = <<submitted, k>>
  BY <1>1, <1>2, <1>3 DEF UnderWay
<1> QED
  BY <1>1, <1>2, <1>3, <1>4 DEF FrameAt

LEMMA BoundaryStays ==
  ASSUME Faults \subseteq Undamaging, Order, Below, Sound, [Next]_vars,
         NEW s \in DOMAIN segments, s \in DOMAIN segments', NEW o \in Nat, Boundary(s, o)
  PROVE  Boundary(s, o)'
<1>0. Whole(s) \in Nat /\ Whole(s) <= Len(segments[s])
  BY WholeIs DEF Sound
<1>1. CASE WriteCell
  <2>1. Whole(s)' = Whole(s)
    BY <1>1, WriteGrows DEF Sound
  <2>2. ASSUME NEW r \in Records, FrameAt(segments[s], o, r)
        PROVE  FrameAt(segments'[s], o, r)
    BY <1>1, <2>2, WriteGrows, FrameGrows, ZenonT(30) DEF Sound
  <2> QED
    BY <2>1, <2>2 DEF Boundary
<1>2. CASE EnqueueReturn
  <2>1. segments' = segments /\ pc' = "idle"
    BY <1>2 DEF EnqueueReturn, disk
  <2>2. Whole(s)' = Len(segments[s]) /\ Len(segments[s]) \in Nat
    BY <2>1, CellIs DEF Whole
  <2>3. CASE s = active_segment_id
    <3>1. /\ submitted \in Records /\ FrameAt(segments[s], Whole(s), submitted)
          /\ Len(segments[s]) = Whole(s) + storage_bytes_for_payload(submitted)
      BY <1>2, <2>3, WrittenOut DEF Sound
    <3>2. Whole(s) < Len(segments[s])
      BY <1>0, <3>1, Sizes DEF HEADER
    <3> QED
      BY <1>0, <2>1, <2>2, <3>1, <3>2 DEF Boundary
  <2>4. CASE s # active_segment_id
    <3>1. Whole(s) = Len(segments[s])
      BY <2>4, WholeIs DEF Sound
    <3> QED
      BY <2>1, <2>2, <3>1 DEF Boundary
  <2> QED
    BY <2>3, <2>4
<1>3. CASE ~WriteCell /\ ~EnqueueReturn
  <2>1. Whole(s)' = Whole(s) /\ segments'[s] = segments[s]
    BY <1>3, WholeStays, FileIs
  <2> QED
    BY <2>1 DEF Boundary
<1> QED
  BY <1>1, <1>2, <1>3

LEMMA NextTiled ==
  ASSUME Faults \subseteq Undamaging, Order, Below, Sound, [Next]_vars
  PROVE  Tiled'
<1> SUFFICES ASSUME NEW s \in DOMAIN segments'
             PROVE  /\ Boundary(s, 0)'
                    /\ \A o \in Nat : \A r \in Records :
                         o < Whole(s)' /\ FrameAt(segments'[s], o, r) =>
                           Boundary(s, o + storage_bytes_for_payload(r))'
  BY DEF Tiled
<1>1. CASE s \notin DOMAIN segments
  <2>1. ~WriteCell /\ ~EnqueueReturn
    <3>1. WriteCell => DOMAIN segments' = DOMAIN segments
      BY Written1 DEF Order, Types, FilesOK
    <3>2. EnqueueReturn => segments' = segments
      BY DEF EnqueueReturn, disk
    <3> QED
      BY <1>1, <3>1, <3>2
  <2>2. Whole(s)' = 0
    BY <1>1, <2>1, WholeStays
  <2> QED
    BY <2>2 DEF Boundary
<1>2. CASE s \in DOMAIN segments
  <2> DEFINE f == segments[s]
  <2>0. Whole(s) \in Nat /\ Whole(s) <= Len(f) /\ Len(f) \in Nat
    BY <1>2, WholeIs, CellIs DEF Sound
  <2>1. Boundary(s, 0)'
    BY <1>2, BoundaryStays DEF Sound, Tiled
  <2>2. ASSUME NEW o \in Nat, NEW r \in Records, o < Whole(s), FrameAt(f, o, r)
        PROVE  Boundary(s, o + storage_bytes_for_payload(r))'
    <3>1. o + storage_bytes_for_payload(r) \in Nat
      BY Sizes
    <3> QED
      BY <1>2, <2>2, <3>1, BoundaryStays DEF Sound, Tiled
  <2>3. ASSUME NEW o \in Nat, NEW r \in Records, o < Whole(s)', FrameAt(segments'[s], o, r)
        PROVE  Boundary(s, o + storage_bytes_for_payload(r))'
    <3> DEFINE z == storage_bytes_for_payload(r)
    <3>0. z \in Nat /\ z > 0
      BY Sizes DEF HEADER
    <3>1. CASE WriteCell
      <4>1. Whole(s)' = Whole(s)
        BY <1>2, <3>1, WriteGrows DEF Sound
      <4>2. FrameAt(f, o, r)
        <5>1. CASE s # active_segment_id
          BY <1>2, <2>3, <3>1, <5>1, WriteGrows DEF Sound
        <5>2. CASE s = active_segment_id
          <6>1. /\ Len(segments'[s]) = Len(f) + 1 /\ segments'[s][Len(f) + 1] = <<submitted, Written + 1>>
                /\ \A i \in 1..Len(f) : segments'[s][i] = f[i]
            BY <1>2, <3>1, <5>2, WriteGrows DEF Sound
          <6>2. CASE o + z <= Len(f)
            BY <2>3, <3>0, <6>1, <6>2 DEF FrameAt
          <6>3. CASE o + z = Len(f) + 1
            <7>1. <<r, z>> = <<submitted, Written + 1>>
              BY <2>3, <3>0, <6>1, <6>3 DEF FrameAt
            <7>2. Whole(s) = Len(f) - Written /\ Written \in Nat
              BY <3>1, <5>2, Written1 DEF Whole
            <7> QED
              BY <2>0, <2>3, <4>1, <6>3, <7>1, <7>2
          <6> QED
            BY <2>0, <2>3, <3>0, <6>1, <6>2, <6>3 DEF FrameAt
        <5> QED
          BY <5>1, <5>2
      <4> QED
        BY <2>2, <2>3, <4>1, <4>2
    <3>2. CASE EnqueueReturn
      <4>1. segments' = segments /\ pc' = "idle"
        BY <3>2 DEF EnqueueReturn, disk
      <4>2. Whole(s)' = Len(f)
        BY <2>0, <4>1 DEF Whole
      <4>3. CASE o < Whole(s)
        BY <2>2, <2>3, <4>1, <4>3
      <4>4. CASE s = active_segment_id /\ ~(o < Whole(s))
        <5> DEFINE y == storage_bytes_for_payload(submitted)
        <5>1. /\ submitted \in Records /\ Len(f) = Whole(s) + y
              /\ \A k \in 1..y : f[Whole(s) + k] = <<submitted, k>>
          BY <3>2, <4>4, WrittenOut DEF Sound
        <5>2. y \in Nat /\ y > 0
          BY <5>1, Sizes DEF HEADER
        <5> DEFINE k == o + 1 - Whole(s)
        <5>3. k \in 1..y /\ Whole(s) + k = o + 1
          BY <2>0, <2>3, <4>2, <4>4, <5>1, <5>2
        <5>4. f[o + 1] = <<r, 1>>
          BY <2>3, <3>0, <4>1 DEF FrameAt
        <5>5. <<r, 1>> = <<submitted, k>>
          BY <5>1, <5>3, <5>4
        <5>6. o + z = Whole(s)'
          BY <2>0, <4>2, <5>1, <5>3, <5>5
        <5> QED
          BY <5>6 DEF Boundary
      <4>5. CASE s # active_segment_id
        <5>1. Whole(s) = Len(f)
          BY <1>2, <4>5, WholeIs DEF Sound
        <5> QED
          BY <2>3, <4>2, <4>3, <5>1
      <4> QED
        BY <4>3, <4>4, <4>5
    <3>3. CASE ~WriteCell /\ ~EnqueueReturn
      BY <1>2, <2>2, <2>3, <3>3, WholeStays, FileIs
    <3> QED
      BY <3>1, <3>2, <3>3
  <2> QED
    BY <2>1, <2>3
<1> QED
  BY <1>1, <1>2

LEMMA NextUnderWay ==
  ASSUME Faults \subseteq Undamaging, Order, Order', Sound, [Next]_vars
  PROVE  UnderWay'
<1> SUFFICES ASSUME pc' = "write"
             PROVE  LET g == segments'[active_segment_id'] IN
                    Written' <= Len(g) /\ \A k \in 1..Written' : g[Len(g) - Written' + k] = <<submitted', k>>
  BY DEF UnderWay
<1>1. CASE Enqueue
  <2>1. Len(segments'[active_segment_id']) \in Nat
    BY CellIs DEF Order, Types, FilesOK, Writing
  <2> QED
    BY <1>1, <2>1, EnqueueStarts
<1>2. CASE WriteCell
  <2> DEFINE a == active_segment_id
             f == segments[a]
             g == segments'[a]
             w == Written
  <2>1. UNCHANGED <<active_segment_id, submitted>> /\ pc = "write"
    BY <1>2 DEF WriteCell, memory, history
  <2>2. a \in DOMAIN segments /\ w \in Nat /\ Written' = w + 1
    BY <1>2, Written1
  <2>3. /\ Len(f) \in Nat /\ Len(g) = Len(f) + 1 /\ g[Len(f) + 1] = <<submitted, w + 1>>
        /\ \A i \in 1..Len(f) : g[i] = f[i]
    BY <1>2, <2>2, WriteGrows DEF Sound
  <2>4. w <= Len(f) /\ \A k \in 1..w : f[Len(f) - w + k] = <<submitted, k>>
    BY <2>1 DEF Sound, UnderWay
  <2> HIDE DEF a, f, g, w
  <2>5. ASSUME NEW k \in 1..(w + 1)
        PROVE  g[Len(g) - (w + 1) + k] = <<submitted, k>>
    <3>1. Len(g) - (w + 1) + k = Len(f) - w + k
      BY <2>2, <2>3
    <3>2. CASE k \in 1..w
      <4>1. Len(f) - w + k \in 1..Len(f)
        BY <2>2, <2>3, <2>4, <3>2
      <4> QED
        BY <2>3, <2>4, <3>1, <3>2, <4>1
    <3>3. CASE k = w + 1
      <4>1. Len(f) - w + k = Len(f) + 1
        BY <2>2, <2>3, <3>3
      <4> QED
        BY <2>3, <3>1, <3>3, <4>1
    <3> QED
      BY <2>2, <3>2, <3>3
  <2>6. w + 1 <= Len(g)
    BY <2>2, <2>3, <2>4
  <2> QED
    BY <2>1, <2>2, <2>5, <2>6, ZenonT(30) DEF a, f, g, w
<1>3. CASE ~Enqueue /\ ~WriteCell
  <2>1. ~EnqueueReturn
    BY DEF EnqueueReturn
  <2>2. UNCHANGED <<pc, active_segment_id, todo, submitted>> /\ Written' = Written
    BY <1>3, <2>1, WritesOnly DEF Written
  <2>3. ExportSucceeds \/ ExportFails \/ UNCHANGED vars
    BY <1>3, <2>2, NoDamage, ZenonT(30)
       DEF Next, System, Environment, Open, OpenAt, EnqueueReturn, ReadBatch, ReadRecord, ReadMove, ReadReturn,
           CommitBatch, RemoveSegment, PersistCursor, Crash, RotateFails, CommitFails
  <2>4. segments' = segments
    BY <2>3 DEF ExportSucceeds, ExportFails, vars, disk
  <2> QED
    BY <2>2, <2>4 DEF Sound, UnderWay
<1> QED
  BY <1>1, <1>2, <1>3

-----------------------------------------------------------------------------
LEMMA PlacedStays ==
  ASSUME Faults \subseteq Undamaging, Order, Below, Sound, [Next]_vars, NEW c \in Cursor, Placed(c)
  PROVE  Placed(c)'
<1>0. c.segment_id \in Nat /\ c.offset \in Nat /\ DOMAIN segments \subseteq Nat
      /\ cursor.segment_id \in Nat
  BY DEF Cursor, Order, Types, FilesOK
<1>1. PICK s \in DOMAIN segments : c.segment_id <= s
  BY DEF Placed
<1>2. \E t \in DOMAIN segments' : c.segment_id <= t
  <2>1. CASE s \notin DOMAIN segments'
    <3>1. s < cursor.segment_id /\ DOMAIN segments' = DOMAIN segments \ {s} /\ pc = "commit"
      BY <2>1, FileStays, ZenonT(30)
    <3>2. PICK t \in DOMAIN segments : cursor.segment_id <= t
      BY <3>1 DEF Sound, CursorsPlaced, Placed
    <3> QED
      BY <1>0, <1>1, <3>1, <3>2
  <2> QED
    BY <1>1, <2>1
<1>3. ASSUME c.segment_id \in DOMAIN segments'
      PROVE  Boundary(c.segment_id, c.offset)'
  <2>1. CASE c.segment_id \in DOMAIN segments
    BY <1>0, <1>3, <2>1, BoundaryStays DEF Placed
  <2>2. CASE c.segment_id \notin DOMAIN segments
    <3>1. ~WriteCell
      BY <1>3, <2>2, Written1 DEF Order, Types, FilesOK
    <3> QED
      BY <1>0, <1>1, <1>3, <2>2, <3>1, FileIs
  <2> QED
    BY <2>1, <2>2
<1> QED
  BY <1>2, <1>3 DEF Placed

\* The cursor of the first start.
LEMMA OpenPlaced ==
  ASSUME Faults \subseteq Undamaging, Order, Below, Sound, Open, [Next]_vars
  PROVE  Placed(cursor_file)' /\ cursor' = cursor_file'
<1>1. cursor' = RecoveryCursor /\ cursor_file' = RecoveryCursor /\ pc' = "idle"
      /\ segments' = IF LastSegment \in DOMAIN segments THEN segments ELSE Create(LastSegment)
  BY DEF Open, OpenAt
<1>2. CASE cursor_file # NoCursor
  <2>1. PICK c : c = cursor_file
    OBVIOUS
  <2>2. c \in Cursor /\ Placed(c) /\ cursor_file' = c
    BY <1>1, <1>2, <2>1 DEF Order, Types, Sound, CursorsPlaced, RecoveryCursor
  <2> QED
    BY <1>1, <2>2, PlacedStays DEF Placed, Boundary, Whole
<1>3. CASE cursor_file = NoCursor
  <2>1. DOMAIN segments = {} /\ cursor_file' = [segment_id |-> 1, offset |-> 0] /\ segments' = Create(1)
    BY <1>1, <1>3 DEF Order, Fresh, RecoveryCursor, LastSegment
  <2>2. DOMAIN segments' = {1} /\ segments'[1] = <<>>
    BY <2>1 DEF Create
  <2>3. Whole(1)' = 0
    BY <1>1, <2>2 DEF Whole
  <2> QED
    BY <1>1, <2>1, <2>2, <2>3 DEF Placed, Boundary
<1> QED
  BY <1>2, <1>3

LEMMA ReadPlaced ==
  ASSUME Order, Sound, pc = "read", read_step_at(rd.at).kind \in {"record", "move"}
  PROVE  Placed(read_step_at(rd.at).next)
<1> DEFINE c == rd.at
           step == read_step_at(c)
<1>1. c \in Cursor /\ c.segment_id \in Nat /\ c.offset \in Nat
  BY DEF Order, Types, Cursor
<1>2. CASE step.kind = "move"
  <2>1. step.next.offset = 0 /\ step.next.segment_id \in DOMAIN segments
    BY <1>1, <1>2, Reads, ZenonT(30) DEF Order
  <2>2. step.next.segment_id <= step.next.segment_id
    BY <2>1, CellIs
  <2> HIDE DEF step
  <2>3. Boundary(step.next.segment_id, step.next.offset)
    BY <2>1 DEF Sound, Tiled
  <2> QED
    BY <2>1, <2>2, <2>3 DEF Placed, step
<1>3. CASE step.kind = "record"
  <2> DEFINE s == c.segment_id
             z == storage_bytes_for_payload(step.rec)
  <2>1. /\ s \in DOMAIN segments /\ step.rec \in Records /\ FrameAt(segments[s], c.offset, step.rec)
        /\ step.next = [c EXCEPT !.offset = @ + storage_bytes_for_payload(step.rec)]
    BY <1>1, <1>3, Reads, ZenonT(30) DEF Order
  <2> HIDE DEF step
  <2>2. step.next.segment_id = s /\ step.next.offset = c.offset + z
    BY <1>1, <2>1 DEF Cursor
  <2>3. Whole(s) = Len(segments[s]) /\ Len(segments[s]) \in Nat
    BY <2>1, WholeIs, CellIs DEF Sound
  <2>4. c.offset < Whole(s)
    BY <1>1, <2>1, <2>3, Sizes DEF FrameAt, HEADER
  <2>5. Boundary(s, c.offset + z)
    BY <1>1, <2>1, <2>4 DEF Sound, Tiled
  <2> QED
    BY <1>1, <2>1, <2>2, <2>5 DEF Placed, step
<1> QED
  BY <1>2, <1>3

LEMMA NextPlaced ==
  ASSUME Faults \subseteq Undamaging, Order, Order', Below, Sound, [Next]_vars
  PROVE  CursorsPlaced'
<1>0. /\ cursor_file' \in Cursor /\ cursor' \in Cursor /\ rd'.at \in Cursor /\ batch'.next_cursor \in Cursor
      /\ DOMAIN rd = {"at", "payloads", "should_commit"} /\ DOMAIN batch = {"payloads", "next_cursor", "sent"}
  BY DEF Order, Types
\* A cursor that was placed, whoever holds it now.
<1>1. ASSUME NEW c, c \in Cursor, Placed(c)
      PROVE  Placed(c)'
  BY <1>1, PlacedStays
<1>2. ASSUME cursor_file' # NoCursor
      PROVE  Placed(cursor_file)'
  <2>1. CASE ~Open
    <3>1. /\ cursor_file' \in {cursor_file, cursor}
          /\ cursor_file' = cursor_file \/ pc # "closed"
      BY <2>1, ZenonT(30)
         DEF Next, System, Environment, vars, disk, Enqueue, WriteCell, EnqueueReturn, ReadBatch, ReadRecord,
             ReadMove, QuarantineSegment, ReadReturn, QuarantineAdvance, ExportSucceeds, ExportFails,
             CommitBatch, RemoveSegment, PersistCursor, Crash, WriteFails, QuarantineFails, RotateFails,
             CommitFails, BitRot
    <3>2. PICK c : c = cursor_file'
      OBVIOUS
    <3>3. Placed(c)
      BY <1>2, <3>1, <3>2 DEF Sound, CursorsPlaced
    <3>4. Placed(c)'
      BY <1>0, <1>1, <3>2, <3>3
    <3> QED
      BY <3>2, <3>4 DEF Placed, Boundary, Whole
  <2> QED
    BY <2>1, OpenPlaced
<1>3. ASSUME pc' # "closed"
      PROVE  Placed(cursor)'
  <2>1. CASE ~Open
    <3>1. \/ cursor' = cursor /\ pc # "closed"
          \/ cursor' = rd.at /\ pc = "read"
          \/ cursor' = batch.next_cursor /\ batch # NoBatch
      <4>1. CASE CommitBatch
        <5>1. batch.sent /\ cursor' = batch.next_cursor
          BY <4>1 DEF CommitBatch
        <5>2. ~NoBatch.sent
          BY DEF NoBatch
        <5> QED
          BY <5>1, <5>2
      <4>2. CASE ReadReturn
        BY <4>2, ZenonT(30) DEF ReadReturn, CursorAfterRead
      <4> QED
        BY <1>3, <2>1, <4>1, <4>2, ZenonT(30)
           DEF Next, System, Environment, vars, memory, Enqueue, WriteCell, EnqueueReturn, ReadBatch, ReadRecord,
               ReadMove, QuarantineSegment, QuarantineAdvance, ExportSucceeds, ExportFails, RemoveSegment,
               PersistCursor, Crash, WriteFails, QuarantineFails, RotateFails, CommitFails, BitRot
    <3>2. PICK c : c = cursor'
      OBVIOUS
    <3>3. Placed(c)
      BY <3>1, <3>2 DEF Sound, CursorsPlaced
    <3>4. Placed(c)'
      BY <1>0, <1>1, <3>2, <3>3
    <3> QED
      BY <3>2, <3>4 DEF Placed, Boundary, Whole
  <2>2. CASE Open
    BY <2>2, OpenPlaced DEF Placed, Boundary, Whole
  <2> QED
    BY <2>1, <2>2
<1>4. ASSUME pc' = "read"
      PROVE  Placed(rd.at)'
  <2>1. \/ rd'.at = cursor /\ pc = "idle"
        \/ rd'.at = rd.at /\ pc = "read"
        \/ rd'.at = read_step_at(rd.at).next /\ pc = "read" /\ read_step_at(rd.at).kind \in {"record", "move"}
    <3>1. CASE ReadRecord
      BY <3>1, RecordTaken
    <3>2. CASE ReadMove
      BY <1>0, <3>2 DEF ReadMove
    <3>3. CASE ReadBatch
      BY <3>3 DEF ReadBatch
    <3> QED
      BY <1>4, <3>1, <3>2, <3>3, NoDamage, ZenonT(30)
         DEF Next, System, Environment, vars, Open, OpenAt, Enqueue, WriteCell, EnqueueReturn,
             ReadReturn, ExportSucceeds, ExportFails, CommitBatch, RemoveSegment, PersistCursor,
             Crash, RotateFails, CommitFails
  <2>2. PICK c : c = rd'.at
    OBVIOUS
  <2>3. Placed(c)
    BY <2>1, <2>2, ReadPlaced DEF Sound, CursorsPlaced
  <2>4. Placed(c)'
    BY <1>0, <1>1, <2>2, <2>3
  <2> QED
    BY <2>2, <2>4 DEF Placed, Boundary, Whole
<1>5. ASSUME batch' # NoBatch
      PROVE  Placed(batch.next_cursor)'
  <2>1. \/ batch'.next_cursor = batch.next_cursor /\ batch # NoBatch
        \/ batch'.next_cursor = rd.at /\ pc = "read"
    <3>1. CASE ReadReturn
      BY <1>5, <3>1 DEF ReadReturn
    <3>2. CASE ExportSucceeds
      BY <1>0, <3>2 DEF ExportSucceeds
    <3> QED
      BY <1>5, <3>1, <3>2, ZenonT(30)
         DEF Next, System, Environment, vars, Open, OpenAt, Enqueue, WriteCell, EnqueueReturn, ReadBatch,
             ReadRecord, ReadMove, QuarantineSegment, QuarantineAdvance,
             ExportFails, CommitBatch, RemoveSegment, PersistCursor,
             Crash, WriteFails, QuarantineFails, RotateFails, CommitFails, BitRot
  <2>2. PICK c : c = batch'.next_cursor
    OBVIOUS
  <2>3. Placed(c)
    BY <2>1, <2>2 DEF Sound, CursorsPlaced
  <2>4. Placed(c)'
    BY <1>0, <1>1, <2>2, <2>3
  <2> QED
    BY <2>2, <2>4 DEF Placed, Boundary, Whole
<1> QED
  BY <1>2, <1>3, <1>4, <1>5, ZenonT(30) DEF CursorsPlaced, NoCursor, NoBatch

LEMMA NextSound ==
  ASSUME Faults \subseteq Undamaging, Order, Order', Below, Sound, [Next]_vars
  PROVE  Sound'
<1>1. pc' # "quarantine"
  BY NoDamage, ZenonT(30)
     DEF Sound, Next, System, Environment, vars, Open, OpenAt, Enqueue, WriteCell, EnqueueReturn, ReadBatch,
         ReadRecord, ReadMove, ReadReturn, ExportSucceeds, ExportFails, CommitBatch, RemoveSegment,
         PersistCursor, Crash, RotateFails, CommitFails
<1> QED
  BY <1>1, NextTiled, NextUnderWay, NextPlaced DEF Sound

\* A read takes one record, a move none.
LEMMA ReadAhead ==
  ASSUME Order, CellsInOrder, NoneNewer
  PROVE  LET step == read_step_at(rd.at) IN
         /\ step.kind = "record" => Ahead(step.next) = Ahead(rd.at) \ {step.rec}
         /\ step.kind = "move" => Ahead(step.next) = Ahead(rd.at)
<1> DEFINE c == rd.at
           step == read_step_at(c)
           d == step.next
           x == step.rec
<1>0. c \in Cursor /\ FilesOK(segments) /\ c.segment_id \in Nat
  BY DEF Order, Types, Cursor
<1>1. ASSUME step.kind = "record"
      PROVE  Ahead(d) = Ahead(c) \ {x}
  <2>1. /\ c.segment_id \in DOMAIN segments /\ x \in Records /\ FrameAt(segments[c.segment_id], c.offset, x)
        /\ d = [c EXCEPT !.offset = @ + storage_bytes_for_payload(x)] /\ d \in Cursor /\ Before(c, d)
    BY <1>0, <1>1, Reads, ZenonT(30) DEF Order
  <2>2. \A r \in Ahead(d) : x < r
    BY <1>1, RecordFound
  <2> HIDE DEF c, step
  <2>3. Ahead(d) \subseteq Ahead(c) /\ x \notin Ahead(d)
    <3>1. x \in Nat
      BY <2>1, Sizes DEF Records
    <3> QED
      BY <1>0, <2>1, <2>2, <3>1, AheadLater
  <2>4. \A r \in Ahead(c) : r # x => r \in Ahead(d)
    BY <1>0, <2>1, SkipRecord, ZenonT(30) DEF Ahead
  <2> QED
    BY <2>3, <2>4
<1>2. ASSUME step.kind = "move"
      PROVE  Ahead(d) = Ahead(c)
  <2>1. /\ d \in Cursor /\ d.offset = 0 /\ d.segment_id > c.segment_id
        /\ \A s \in DOMAIN segments : s > c.segment_id => s >= d.segment_id
        /\ c.segment_id \in DOMAIN segments => Len(segments[c.segment_id]) < c.offset + HEADER
    BY <1>0, <1>2, Reads, ZenonT(30) DEF Order
  <2> HIDE DEF c, step
  <2>2. Before(c, d)
    BY <2>1 DEF Before
  <2>3. Ahead(d) \subseteq Ahead(c)
    BY <1>0, <2>1, <2>2, AheadLater
  <2>4. Ahead(c) \subseteq Ahead(d)
    BY <1>0, <2>1, SkipEnd DEF Ahead
  <2> QED
    BY <2>3, <2>4
<1> QED
  BY <1>1, <1>2

-----------------------------------------------------------------------------
\* Nothing that lies ahead is lost but by a removal.
LEMMA AheadKept ==
  ASSUME Faults \subseteq Undamaging, Order, Below, Sound, [Next]_vars, NEW c \in Cursor,
         RemoveSegment => c.segment_id >= cursor.segment_id
  PROVE  Ahead(c) \subseteq Ahead(c)'
<1> SUFFICES ASSUME NEW r \in Records, StoredAfter(c, r)
             PROVE  StoredAfter(c, r)'
  BY DEF Ahead
<1>0. FilesOK(segments) /\ cursor.segment_id \in Nat /\ c.segment_id \in Nat
  BY DEF Order, Types, Cursor
<1>1. CASE WriteCell
  <2>1. StoredIn(segments', c, r)
    BY <1>0, <1>1, Written1, AppendStored, ZenonT(30) DEF StoredAfter, StoredIn
  <2> QED
    BY <2>1 DEF StoredAfter, StoredIn
<1>2. CASE ~WriteCell
  <2>1. PICK s \in DOMAIN segments :
          /\ s >= c.segment_id
          /\ \E o \in 0..Len(segments[s]) :
               (s = c.segment_id => o >= c.offset) /\ FrameAt(segments[s], o, r)
    BY DEF StoredAfter
  <2>2. s \in DOMAIN segments'
    <3> SUFFICES ASSUME s \notin DOMAIN segments' PROVE FALSE
      OBVIOUS
    <3>1. RemoveSegment /\ s < cursor.segment_id
      BY FileStays, ZenonT(30)
    <3> QED
      BY <1>0, <2>1, <3>1, CellIs
  <2>3. segments'[s] = segments[s]
    BY <1>2, <2>2, FileIs, ZenonT(30)
  <2> QED
    BY <2>1, <2>2, <2>3, ZenonT(30) DEF StoredAfter
<1> QED
  BY <1>1, <1>2

LEMMA AheadSame ==
  ASSUME Faults \subseteq Undamaging, Order, Below, Sound, [Next]_vars, NEW c \in Cursor,
         ~WriteCell, RemoveSegment => c.segment_id >= cursor.segment_id
  PROVE  Ahead(c)' = Ahead(c)
<1>1. Ahead(c) \subseteq Ahead(c)'
  BY AheadKept
<1>2. Ahead(c)' \subseteq Ahead(c)
  BY AheadShrinks
<1> QED
  BY <1>1, <1>2

\* The record under way starts at or after every cursor.
LEMMA StartsAhead ==
  ASSUME Order, Below, Sound, pc = "write", NEW d \in Cursor, Placed(d)
  PROVE  LET a == active_segment_id IN
         a \in DOMAIN segments /\ a >= d.segment_id /\ (a = d.segment_id => Whole(a) >= d.offset)
<1> DEFINE a == active_segment_id
<1>1. a \in DOMAIN segments /\ d.segment_id \in Nat /\ d.offset \in Nat /\ DOMAIN segments \subseteq Nat
  BY DEF Order, Writing, Cursor, Types, FilesOK
<1>2. PICK s \in DOMAIN segments : d.segment_id <= s
  BY DEF Placed
<1>3. s <= a
  BY DEF Below
<1>4. Whole(a) \in Nat
  BY <1>1, WholeIs DEF Sound
<1>5. a = d.segment_id => Whole(a) >= d.offset
  BY <1>1, <1>4 DEF Placed, Boundary
<1> QED
  BY <1>1, <1>2, <1>3, <1>5

\* Until the last cell is there, the record under way is not.
LEMMA NotYetAhead ==
  ASSUME Order, NoneNewer, WriteCell, NEW c \in Cursor, NEW r \in Ahead(c)
  PROVE  r \in Nat /\ r < submitted
<1> DEFINE z == storage_bytes_for_payload(r)
<1>1. r \in Records /\ StoredAfter(c, r)
  BY DEF Ahead
<1>2. PICK s \in DOMAIN segments : \E o \in 0..Len(segments[s]) : FrameAt(segments[s], o, r)
  BY <1>1 DEF StoredAfter
<1>3. PICK o \in 0..Len(segments[s]) : FrameAt(segments[s], o, r)
  BY <1>2
<1>4. z \in Nat /\ z > 0 /\ r \in Nat /\ submitted \in Nat
  BY <1>1, Sizes DEF HEADER, Records, Order, Types
<1>5. Len(segments[s]) \in Nat /\ DOMAIN segments[s] = 1..Len(segments[s])
  BY CellIs
<1>6. o + z \in DOMAIN segments[s] /\ segments[s][o + z] = <<r, z>>
  <2>1. z \in 1..z /\ o + z \in 1..Len(segments[s])
    BY <1>3, <1>4, <1>5 DEF FrameAt
  <2> QED
    BY <1>3, <1>5, <2>1, ZenonT(30) DEF FrameAt
<1>7. r <= submitted /\ (r = submitted => z <= Written)
  BY <1>6 DEF NoneNewer, WriteCell
<1>8. Written < storage_bytes_for_payload(submitted)
  <2>1. Written' = Written + 1 /\ Written \in Nat /\ submitted \in Records /\ Len(todo') = Len(todo) - 1
        /\ todo' \in Seq(Cell)
    BY Written1
  <2>2. Len(todo') \in Nat
    BY <2>1, SeqIs
  <2> QED
    BY <2>1, <2>2, Sizes DEF Written
<1> HIDE DEF z
<1>9. r # submitted
  BY <1>4, <1>7, <1>8, Written1 DEF z
<1> QED
  BY <1>4, <1>7, <1>9

\* Once it is, it lies ahead of every cursor.
LEMMA NewestAhead ==
  ASSUME Order, Below, Sound, Order', UnderWay', CellsInOrder', WriteCell,
         NEW c \in Cursor, submitted \in Ahead(c)', NEW d \in Cursor, Placed(d)
  PROVE  submitted \in Ahead(d)'
<1> DEFINE a == active_segment_id
<1>1. submitted \in Records /\ StoredAfter(c, submitted)'
  <2>1. submitted' = submitted
    BY DEF WriteCell, history
  <2> QED
    BY <2>1 DEF Ahead, StoredAfter
<1>2. PICK s \in DOMAIN segments' : \E o \in 0..Len(segments'[s]) : FrameAt(segments'[s], o, submitted)
  <2>1. submitted' = submitted
    BY DEF WriteCell, history
  <2> QED
    BY <1>1, <2>1 DEF StoredAfter
<1>3. PICK o \in 0..Len(segments'[s]) : FrameAt(segments'[s], o, submitted)
  BY <1>2
<1>4. /\ pc = "write" /\ pc' = "write" /\ active_segment_id' = a /\ submitted' = submitted
      /\ a \in DOMAIN segments /\ Written' = Written + 1 /\ Written \in Nat
  BY Written1, ZenonT(30) DEF WriteCell, memory, history
<1>5. /\ DOMAIN segments' = DOMAIN segments /\ Whole(a)' = Whole(a) /\ Whole(a) \in Nat
      /\ Whole(a)' = Len(segments'[a]) - Written' /\ Len(segments'[a]) \in Nat
  BY <1>4, WriteGrows, WholeIs, ZenonT(30) DEF Sound, Whole
<1>6. /\ Whole(a) + 1 \in DOMAIN segments'[a] /\ segments'[a][Whole(a) + 1] = <<submitted, 1>>
  <2>1. 1 \in 1..Written' /\ Whole(a) + 1 = Len(segments'[a]) - Written' + 1
    BY <1>4, <1>5
  <2>2. segments'[a][Len(segments'[a]) - Written' + 1] = <<submitted, 1>>
    BY <1>4, <2>1, ZenonT(30) DEF UnderWay
  <2>3. Whole(a) + 1 \in 1..Len(segments'[a])
    BY <1>4, <1>5
  <2>4. segments'[a] \in Seq(Cell)
    BY <1>4, <1>5 DEF Order, Types, FilesOK
  <2> QED
    BY <2>1, <2>2, <2>3, <2>4, SeqIs
<1>7. o + 1 \in DOMAIN segments'[s] /\ segments'[s][o + 1] = <<submitted, 1>> /\ o \in Nat
  <2>1. segments'[s] \in Seq(Cell)
    BY DEF Order, Types, FilesOK
  <2> QED
    BY <1>1, <1>3, <2>1, FirstCell
<1>8. s = a /\ o = Whole(a)
  <2>1. ~Earlier(<<submitted, 1>>, <<submitted, 1>>)
    BY <1>1, Sizes DEF Earlier, Records
  <2>2. ~(s < a \/ (s = a /\ o + 1 < Whole(a) + 1)) /\ ~(a < s \/ (a = s /\ Whole(a) + 1 < o + 1))
    BY <1>4, <1>5, <1>6, <1>7, <2>1, ZenonT(30) DEF CellsInOrder
  <2>3. s \in Nat /\ a \in Nat
    BY <1>4, <1>5, CellIs
  <2> QED
    BY <1>5, <1>7, <2>2, <2>3
<1>9. a >= d.segment_id /\ (a = d.segment_id => Whole(a) >= d.offset)
  BY <1>4, StartsAhead
<1> HIDE DEF a
<1>10. \E t \in DOMAIN segments' :
         /\ t >= d.segment_id
         /\ \E p \in 0..Len(segments'[t]) : (t = d.segment_id => p >= d.offset) /\ FrameAt(segments'[t], p, submitted)
  BY <1>3, <1>8, <1>9
<1> QED
  BY <1>1, <1>4, <1>10 DEF Ahead, StoredAfter

-----------------------------------------------------------------------------
LEMMA BetweenStays ==
  ASSUME Faults \subseteq Undamaging, Order, Below, Sound, NoneNewer, [Next]_vars, ~RemoveSegment,
         Order', UnderWay', CellsInOrder',
         NEW c \in Cursor, Placed(c), NEW d \in Cursor, Placed(d)
  PROVE  Between(c, d)' = Between(c, d)
<1>1. CASE ~WriteCell
  BY <1>1, AheadSame DEF Between
<1>2. CASE WriteCell
  <2>1. Ahead(c) \subseteq Ahead(c)' /\ Ahead(d) \subseteq Ahead(d)'
    BY AheadKept
  <2>2. \A r \in Ahead(c)' : r \in Ahead(c) \/ r = submitted
    BY AheadShrinks
  <2>3. \A r \in Ahead(d)' : r \in Ahead(d) \/ r = submitted
    BY AheadShrinks
  <2>4. submitted \in Ahead(c)' => submitted \in Ahead(d)'
    BY <1>2, NewestAhead
  <2>5. submitted \notin Ahead(c)
    BY <1>2, NotYetAhead
  <2> QED
    BY <2>1, <2>2, <2>3, <2>4, <2>5 DEF Between
<1> QED
  BY <1>1, <1>2

\* What a batch or a read under way has taken.
LEMMA NextHolds ==
  ASSUME Faults \subseteq Undamaging, Order, Below, Sound, CellsInOrder, NoneNewer, Exact, [Next]_vars,
         Order', UnderWay', CellsInOrder'
  PROVE  /\ pc' = "read" => Range(rd'.payloads) = Between(cursor, rd.at)'
         /\ batch' # NoBatch => Range(batch'.payloads) = Between(cursor, batch.next_cursor)'
<1>0. /\ cursor \in Cursor /\ rd.at \in Cursor /\ batch.next_cursor \in Cursor
      /\ cursor' \in Cursor /\ rd'.at \in Cursor /\ batch'.next_cursor \in Cursor
      /\ DOMAIN rd = {"at", "payloads", "should_commit"} /\ DOMAIN batch = {"payloads", "next_cursor", "sent"}
  BY DEF Order, Types
<1>1. ASSUME NEW c, c \in Cursor, Placed(c), NEW d, d \in Cursor, Placed(d), ~RemoveSegment
      PROVE  Between(c, d)' = Between(c, d)
  BY <1>1, BetweenStays
<1>2. ASSUME pc' = "read"
      PROVE  Range(rd'.payloads) = Between(cursor, rd.at)'
  <2>1. /\ cursor' = cursor /\ pc # "closed" /\ ~RemoveSegment
        /\ Placed(rd'.at) /\ Range(rd'.payloads) = Between(cursor, rd'.at)
    <3>1. CASE ReadRecord
      <4> DEFINE x == read_step_at(rd.at).rec
                 d == read_step_at(rd.at).next
      <4>1. /\ pc = "read" /\ rd'.at = d /\ Range(rd'.payloads) = Range(rd.payloads) \cup {x}
            /\ cursor' = cursor /\ read_step_at(rd.at).kind = "record"
        BY <3>1, RecordTaken, ZenonT(30)
      <4>2. Ahead(d) = Ahead(rd.at) \ {x} /\ x \in Ahead(rd.at)
        BY <4>1, ReadAhead, RecordFound, ZenonT(30)
      <4>3. Ahead(rd.at) \subseteq Ahead(cursor)
        BY <1>0, <4>1, AheadLater, ZenonT(30) DEF Order, CursorsOrdered
      <4>4. Range(rd.payloads) = Between(cursor, rd.at)
        BY <4>1, ZenonT(30) DEF Exact
      <4>5. Placed(d)
        BY <4>1, ReadPlaced
      <4> HIDE DEF x, d
      <4>6. Range(rd'.payloads) = Between(cursor, d)
        BY <4>1, <4>2, <4>3, <4>4 DEF Between
      <4> QED
        BY <4>1, <4>5, <4>6 DEF RemoveSegment
    <3>2. CASE ReadMove
      <4> DEFINE d == read_step_at(rd.at).next
      <4>1. /\ pc = "read" /\ rd' = [rd EXCEPT !.at = d, !.should_commit = TRUE]
            /\ cursor' = cursor /\ read_step_at(rd.at).kind = "move"
        BY <3>2 DEF ReadMove, memory
      <4>2. rd'.at = d /\ rd'.payloads = rd.payloads
        BY <1>0, <4>1
      <4>3. Ahead(d) = Ahead(rd.at)
        BY <4>1, ReadAhead
      <4>4. Range(rd.payloads) = Between(cursor, rd.at)
        BY <4>1 DEF Exact
      <4>5. Placed(d)
        BY <4>1, ReadPlaced
      <4> HIDE DEF d
      <4> QED
        BY <4>1, <4>2, <4>3, <4>4, <4>5 DEF Between, RemoveSegment
    <3>3. CASE ReadBatch
      <4>1. pc = "idle" /\ rd'.payloads = <<>> /\ rd'.at = cursor /\ cursor' = cursor
        BY <3>3 DEF ReadBatch, memory
      <4>2. Placed(cursor)
        BY <4>1 DEF Sound, CursorsPlaced
      <4>3. Range(rd'.payloads) = {} /\ ~RemoveSegment
        BY <3>3, <4>1 DEF Range, RemoveSegment
      <4> QED
        BY <4>1, <4>2, <4>3, ZenonT(30) DEF Between
    <3>4. CASE UNCHANGED vars
      BY <1>2, <3>4, ZenonT(30) DEF vars, memory, RemoveSegment, Sound, CursorsPlaced, Exact
    <3> QED
      BY <1>2, <3>1, <3>2, <3>3, <3>4, NoDamage, ZenonT(30)
         DEF Next, System, Environment, Open, OpenAt, Enqueue, WriteCell, EnqueueReturn,
             ReadReturn, ExportSucceeds, ExportFails, CommitBatch, RemoveSegment, PersistCursor,
             Crash, RotateFails, CommitFails, Order, CursorsOrdered
  <2>2. Placed(cursor)
    BY <2>1 DEF Sound, CursorsPlaced
  <2>3. PICK c, d : c = cursor /\ d = rd'.at
    OBVIOUS
  <2>4. Between(c, d)' = Between(c, d)
    BY <1>0, <1>1, <2>1, <2>2, <2>3
  <2> QED
    BY <2>1, <2>3, <2>4 DEF Between
<1>3. ASSUME batch' # NoBatch
      PROVE  Range(batch'.payloads) = Between(cursor, batch.next_cursor)'
  <2>1. /\ cursor' = cursor /\ pc # "closed" /\ ~RemoveSegment
        /\ Placed(batch'.next_cursor) /\ Range(batch'.payloads) = Between(cursor, batch'.next_cursor)
    <3>1. CASE ReadReturn
      <4>1. /\ pc = "read" /\ rd.payloads # <<>> /\ cursor' = cursor
            /\ batch'.payloads = rd.payloads /\ batch'.next_cursor = rd.at
        BY <1>3, <3>1, ZenonT(30) DEF ReadReturn, CursorAfterRead
      <4> QED
        BY <4>1, ZenonT(30) DEF Sound, CursorsPlaced, Exact, RemoveSegment
    <3>2. CASE /\ batch # NoBatch /\ cursor' = cursor
               /\ batch'.payloads = batch.payloads /\ batch'.next_cursor = batch.next_cursor
      BY <3>2, ZenonT(30) DEF Order, CursorsOrdered, RemoveSegment, Sound, CursorsPlaced, Exact
    <3>3. CASE ExportSucceeds
      <4>1. batch # NoBatch /\ batch' = [batch EXCEPT !.sent = TRUE] /\ cursor' = cursor
        BY <3>3 DEF ExportSucceeds, memory
      <4> QED
        BY <1>0, <3>2, <4>1
    <3>4. CASE batch' = batch /\ cursor' = cursor
      BY <1>3, <3>2, <3>4
    <3>5. CASE Open
      BY <1>3, <3>5, ZenonT(30) DEF Open, OpenAt, Order, CursorsOrdered
    <3> QED
      BY <1>3, <3>1, <3>3, <3>4, <3>5, ZenonT(30)
         DEF Next, System, Environment, vars, memory, Enqueue, WriteCell, EnqueueReturn, ReadBatch,
             ReadRecord, ReadMove, QuarantineSegment, QuarantineAdvance,
             ExportFails, CommitBatch, RemoveSegment, PersistCursor,
             Crash, WriteFails, QuarantineFails, RotateFails, CommitFails, BitRot
  <2>2. Placed(cursor)
    BY <2>1 DEF Sound, CursorsPlaced
  <2>3. PICK c, d : c = cursor /\ d = batch'.next_cursor
    OBVIOUS
  <2>4. Between(c, d)' = Between(c, d)
    BY <1>0, <1>1, <2>1, <2>2, <2>3
  <2> QED
    BY <2>1, <2>3, <2>4 DEF Between
<1> QED
  BY <1>2, <1>3

\* What the cursor file is behind the cursor was exported.
LEMMA NextBehind ==
  ASSUME Faults \subseteq Undamaging, Order, Below, Sound, CellsInOrder, NoneNewer, Exact, [Next]_vars,
         Order', UnderWay', CellsInOrder', pc' # "closed"
  PROVE  Between(cursor_file, cursor)' \subseteq exported'
<1>0. /\ cursor \in Cursor /\ cursor_file \in Cursor /\ rd.at \in Cursor /\ batch.next_cursor \in Cursor
      /\ cursor' \in Cursor /\ cursor_file' \in Cursor
  BY DEF Order, Types
<1>1. CASE Open
  BY <1>1, OpenPlaced DEF Between, Open, OpenAt
<1>2. CASE RemoveSegment
  <2>1. UNCHANGED <<cursor_file, cursor, exported>> /\ pc = "commit"
    BY <1>2 DEF RemoveSegment, history
  <2>2. PICK c, d : c = cursor_file /\ d = cursor
    OBVIOUS
  <2>3. ~WriteCell
    BY <2>1 DEF WriteCell
  <2>4. \A r \in Ahead(c)' : r \in Ahead(c)
    BY <1>0, <2>2, <2>3, AheadShrinks
  <2>5. cursor.segment_id >= cursor.segment_id
    BY <1>0 DEF Cursor
  <2>6. Ahead(d) \subseteq Ahead(d)'
    BY <1>0, <2>2, <2>5, AheadKept
  <2>7. Between(c, d) \subseteq exported
    BY <2>1, <2>2 DEF Exact
  <2>8. Between(c, d)' \subseteq exported
    BY <2>4, <2>6, <2>7 DEF Between
  <2> QED
    BY <2>1, <2>2, <2>8 DEF Between
<1>3. CASE ~Open /\ ~RemoveSegment
  <2>1. pc # "closed" /\ cursor_file # NoCursor /\ Between(cursor_file, cursor) \subseteq exported
        /\ Placed(cursor_file) /\ Placed(cursor)
    <3>1. pc # "closed"
      BY <1>3, ZenonT(30)
         DEF Next, System, Environment, vars, Enqueue, WriteCell, EnqueueReturn, ReadBatch,
             ReadRecord, ReadMove, QuarantineSegment, ReadReturn, QuarantineAdvance, ExportSucceeds,
             ExportFails, CommitBatch, PersistCursor, Order, CursorsOrdered,
             Crash, WriteFails, QuarantineFails, RotateFails, CommitFails, BitRot
    <3> QED
      BY <3>1 DEF Order, Fresh, Exact, Sound, CursorsPlaced
  <2>2. Placed(cursor_file') /\ Placed(cursor') /\ Between(cursor_file', cursor') \subseteq exported'
    <3>1. CASE UNCHANGED <<cursor_file, cursor>> /\ exported \subseteq exported'
      BY <2>1, <3>1
    <3>2. CASE PersistCursor
      BY <2>1, <3>2 DEF PersistCursor, memory, Between
    <3>3. CASE ReadReturn
      <4>1. pc = "read" /\ UNCHANGED <<cursor_file, exported>>
            /\ (cursor' = cursor \/ (cursor' = rd.at /\ rd.payloads = <<>>))
        BY <3>3 DEF ReadReturn, CursorAfterRead, disk, history
      <4>2. Placed(rd.at) /\ Range(rd.payloads) = Between(cursor, rd.at)
        BY <4>1, ZenonT(30) DEF Sound, CursorsPlaced, Exact
      <4>3. rd.payloads = <<>> => Range(rd.payloads) = {}
        BY DEF Range
      <4> QED
        BY <2>1, <4>1, <4>2, <4>3 DEF Between
    <3>4. CASE CommitBatch
      <4>1. batch.sent /\ cursor' = batch.next_cursor /\ UNCHANGED <<cursor_file, exported>>
        BY <3>4 DEF CommitBatch, disk, history
      <4>2. batch # NoBatch
        BY <4>1 DEF NoBatch
      <4>3. /\ Placed(batch.next_cursor) /\ Range(batch.payloads) = Between(cursor, batch.next_cursor)
            /\ Range(batch.payloads) \subseteq exported
        BY <4>1, <4>2, ZenonT(30) DEF Sound, CursorsPlaced, Exact
      <4> QED
        BY <2>1, <4>1, <4>3 DEF Between
    <3>5. CASE ExportSucceeds
      BY <3>1, <3>5 DEF ExportSucceeds, disk, memory
    <3> QED
      BY <1>3, <3>1, <3>2, <3>3, <3>4, <3>5, NoDamage, ZenonT(30)
         DEF Next, System, Environment, vars, disk, memory, history, Enqueue, WriteCell, EnqueueReturn,
             ReadBatch, ReadRecord, ReadMove, ExportFails, Crash, RotateFails, CommitFails
  <2>3. PICK c, d : c = cursor_file' /\ d = cursor'
    OBVIOUS
  <2>4. Between(c, d)' = Between(c, d)
    BY <1>0, <1>3, <2>2, <2>3, BetweenStays
  <2> QED
    BY <2>2, <2>3, <2>4 DEF Between
<1> QED
  BY <1>1, <1>2, <1>3

LEMMA NextExact ==
  ASSUME Faults \subseteq Undamaging, Order, Below, Sound, CellsInOrder, NoneNewer, Exact, [Next]_vars,
         Order', UnderWay', CellsInOrder'
  PROVE  Exact'
<1>0. DOMAIN batch = {"payloads", "next_cursor", "sent"} /\ ~NoBatch.sent
  BY DEF Order, Types, NoBatch
<1>1. ASSUME batch'.sent
      PROVE  Range(batch'.payloads) \subseteq exported'
  <2>1. CASE ExportSucceeds
    <3>1. batch' = [batch EXCEPT !.sent = TRUE] /\ exported' = exported \cup Range(batch.payloads)
      BY <2>1 DEF ExportSucceeds
    <3>2. batch'.payloads = batch.payloads
      BY <1>0, <3>1
    <3> QED
      BY <3>1, <3>2
  <2>2. CASE ReadReturn
    BY <1>0, <1>1, <2>2 DEF ReadReturn
  <2>3. CASE batch' \in {batch, NoBatch} /\ exported' = exported
    BY <1>0, <1>1, <2>3 DEF Exact
  <2> QED
    BY <2>1, <2>2, <2>3, ZenonT(30)
       DEF Next, System, Environment, vars, history, Open, OpenAt, Enqueue, WriteCell, EnqueueReturn, ReadBatch,
           ReadRecord, ReadMove, QuarantineSegment, QuarantineAdvance,
           ExportFails, CommitBatch, RemoveSegment, PersistCursor,
           Crash, WriteFails, QuarantineFails, RotateFails, CommitFails, BitRot
<1> QED
  BY <1>1, NextHolds, NextBehind, ZenonT(30) DEF Exact, NoBatch, NoCursor

-----------------------------------------------------------------------------
\* What is behind a cursor is older than what is ahead of it.
LEMMA OlderBehind ==
  ASSUME Order, CellsInOrder, NEW c \in Cursor, NEW d \in Cursor,
         NEW x \in Between(c, d), NEW y \in Ahead(d)
  PROVE  x < y
<1>1. x \in Records /\ y \in Records /\ StoredAfter(c, x) /\ ~StoredAfter(d, x) /\ StoredAfter(d, y)
  BY DEF Between, Ahead
<1>2. PICK s \in DOMAIN segments : \E o \in 0..Len(segments[s]) : FrameAt(segments[s], o, x)
  BY <1>1 DEF StoredAfter
<1>3. PICK o \in 0..Len(segments[s]) : FrameAt(segments[s], o, x)
  BY <1>2
<1>4. PICK t \in DOMAIN segments :
        /\ t >= d.segment_id
        /\ \E p \in 0..Len(segments[t]) : (t = d.segment_id => p >= d.offset) /\ FrameAt(segments[t], p, y)
  BY <1>1 DEF StoredAfter
<1>5. PICK p \in 0..Len(segments[t]) : (t = d.segment_id => p >= d.offset) /\ FrameAt(segments[t], p, y)
  BY <1>4
<1>6. ~(s >= d.segment_id /\ (s = d.segment_id => o >= d.offset))
  BY <1>1, <1>3, ZenonT(30) DEF StoredAfter
<1>7. s < t \/ (s = t /\ o < p)
  <2>1. s \in Nat /\ t \in Nat /\ Len(segments[s]) \in Nat /\ Len(segments[t]) \in Nat
    BY CellIs
  <2> QED
    BY <1>4, <1>5, <1>6, <2>1 DEF Cursor
<1> QED
  BY <1>1, <1>3, <1>5, <1>7, FramesInOrder, ZenonT(30) DEF StoredInOrder

LEMMA RecordsRanged == Spec => []Ranged(1..submitted)
<1>1. Init => Ranged(1..submitted)
  <2>1. 1..0 = {}
    OBVIOUS
  <2> QED
    BY <2>1, ZenonT(30) DEF Init, Ranged
<1>2. Order /\ Ranged(1..submitted) /\ [Next]_vars => Ranged(1..submitted)'
  <2> SUFFICES ASSUME Order, Ranged(1..submitted), [Next]_vars
               PROVE  Ranged(1..submitted)'
    OBVIOUS
  <2>1. submitted \in Nat
    BY Sizes DEF Order, Types
  <2>2. CASE UNCHANGED submitted
    BY <2>2
  <2>3. CASE submitted' = submitted + 1
    <3>1. submitted + 1 \in Nat /\ 1..submitted \subseteq Nat
      BY <2>1
    <3>2. 1..(submitted + 1) = (1..submitted) \cup {submitted + 1}
      <4>1. \A x : x \in 1..(submitted + 1) <=> x \in 1..submitted \/ x = submitted + 1
        BY <2>1
      <4> QED
        BY <4>1, ZenonT(30)
    <3> QED
      BY <2>3, <3>1, <3>2, RangedAdd, ZenonT(30)
  <2>4. UNCHANGED submitted \/ submitted' = submitted + 1
    BY ZenonT(30) DEF Next, System, Environment, vars, history, Open, OpenAt, Enqueue, WriteCell, EnqueueReturn, ReadBatch,
           ReadRecord, ReadMove, ReadReturn, QuarantineSegment, QuarantineAdvance, ExportSucceeds, ExportFails,
           CommitBatch, RemoveSegment, PersistCursor, Crash, WriteFails, QuarantineFails, RotateFails,
           CommitFails, BitRot
  <2> QED
    BY <2>2, <2>3, <2>4
<1> QED
  BY <1>1, <1>2, OrderInvariance, PTL DEF Spec

\* Every record in the files has been submitted.
LEMMA AheadSubmitted ==
  ASSUME Order, NoneNewer, NEW c \in Cursor
  PROVE  Ahead(c) \subseteq 1..submitted
<1> SUFFICES ASSUME NEW r \in Ahead(c)
             PROVE  r \in 1..submitted
  OBVIOUS
<1>1. r \in Records /\ StoredAfter(c, r)
  BY DEF Ahead
<1>2. PICK s \in DOMAIN segments : \E o \in 0..Len(segments[s]) : FrameAt(segments[s], o, r)
  BY <1>1 DEF StoredAfter
<1>3. PICK o \in 0..Len(segments[s]) : FrameAt(segments[s], o, r)
  BY <1>2
<1>4. o + 1 \in DOMAIN segments[s] /\ segments[s][o + 1] = <<r, 1>>
  <2>1. segments[s] \in Seq(Cell) /\ o \in Nat
    BY DEF Order, Types, FilesOK
  <2> QED
    BY <1>1, <1>3, <2>1, FirstCell
<1>5. r <= submitted
  BY <1>4 DEF NoneNewer
<1> QED
  BY <1>1, <1>5, Sizes DEF Records, Order, Types

\* A removed file held only exported records, older than all others.
LEMMA RemovalForgets ==
  ASSUME Faults \subseteq Undamaging, Order, Below, Sound, CellsInOrder, Exact, [Next]_vars, RemoveSegment,
         NEW c, c = cursor_file
  PROVE  /\ Ahead(c)' \subseteq Ahead(c) /\ Ahead(c) \ Ahead(c)' \subseteq exported
         /\ \A x \in Ahead(c) \ Ahead(c)' : \A y \in Ahead(c)' : x < y
<1>0. c \in Cursor /\ c.segment_id \in Nat /\ cursor.segment_id \in Nat /\ DOMAIN segments \subseteq Nat
      /\ pc = "commit"
  BY DEF Order, Types, Cursor, FilesOK, RemoveSegment
<1>1. Ahead(c)' \subseteq Ahead(c)
  <2>1. ~WriteCell
    BY <1>0 DEF WriteCell
  <2> QED
    BY <1>0, <2>1, AheadShrinks
<1>2. ASSUME NEW x \in Ahead(c) \ Ahead(c)'
      PROVE  x \in exported /\ \A y \in Ahead(c)' : x < y
  <2>1. x \in Records /\ StoredAfter(c, x) /\ ~StoredAfter(c, x)'
    BY DEF Ahead
  <2>2. PICK s \in DOMAIN segments :
          /\ s >= c.segment_id
          /\ \E o \in 0..Len(segments[s]) : (s = c.segment_id => o >= c.offset) /\ FrameAt(segments[s], o, x)
    BY <2>1 DEF StoredAfter
  <2>3. PICK o \in 0..Len(segments[s]) : (s = c.segment_id => o >= c.offset) /\ FrameAt(segments[s], o, x)
    BY <2>2
  <2>4. s \notin DOMAIN segments'
    <3> SUFFICES ASSUME s \in DOMAIN segments' PROVE FALSE
      BY ZenonT(30)
    <3>1. ~WriteCell
      BY <1>0 DEF WriteCell
    <3>2. segments'[s] = segments[s]
      BY <3>1, FileIs, ZenonT(30)
    <3> QED
      BY <2>1, <2>2, <2>3, <3>2, ZenonT(30) DEF StoredAfter
  <2>5. /\ s < cursor.segment_id /\ (\A t \in DOMAIN segments : s <= t)
        /\ DOMAIN segments' = DOMAIN segments \ {s}
        /\ \A t \in DOMAIN segments' : segments'[t] = segments[t]
    BY <2>4, FileStays, ZenonT(30)
  <2>6. ASSUME NEW y \in Records, NEW t \in DOMAIN segments, s < t,
               NEW p \in 0..Len(segments[t]), FrameAt(segments[t], p, y)
        PROVE  x < y
    BY <2>1, <2>3, <2>6, FramesInOrder, ZenonT(30) DEF StoredInOrder
  <2>7. x \notin Ahead(cursor)
    <3> SUFFICES ASSUME StoredAfter(cursor, x) PROVE FALSE
      BY DEF Ahead
    <3>1. PICK t \in DOMAIN segments :
            t >= cursor.segment_id /\ \E p \in 0..Len(segments[t]) : FrameAt(segments[t], p, x)
      BY DEF StoredAfter
    <3>2. s < t
      BY <1>0, <2>5, <3>1
    <3>3. x < x /\ x \in Nat
      BY <2>1, <2>6, <3>1, <3>2, Sizes DEF Records
    <3> QED
      BY <3>3
  <2>8. x \in exported
    BY <1>0, <2>7 DEF Exact, Between
  <2>9. ASSUME NEW y \in Ahead(c)'
        PROVE  x < y
    <3>1. y \in Records /\ StoredAfter(c, y)'
      BY DEF Ahead
    <3>2. PICK t \in DOMAIN segments' : \E p \in 0..Len(segments'[t]) : FrameAt(segments'[t], p, y)
      BY <3>1 DEF StoredAfter
    <3>3. s < t /\ t \in DOMAIN segments /\ segments'[t] = segments[t]
      BY <1>0, <2>5
    <3> QED
      BY <2>6, <3>1, <3>2, <3>3, ZenonT(30)
  <2> QED
    BY <2>8, <2>9
<1> QED
  BY <1>1, <1>2

\* A batch is a run of the queue: all of it that was not exported before.
LEMMA BatchIsRun ==
  ASSUME Order, Sound, Fifo, Exact, batch # NoBatch, batch.payloads # <<>>
  PROVE  LET p == batch.payloads
             Q == Ahead(cursor_file)
         IN  /\ p[1] \in Records /\ p[Len(p)] \in Records /\ {p[1], p[Len(p)]} \subseteq Q
             /\ exported \cup Range(p) = exported \cup {r \in Q : p[1] <= r /\ r <= p[Len(p)]}
<1> DEFINE p == batch.payloads
           n == Len(p)
           Q == Ahead(cursor_file)
<1>1. p \in Seq(Records) /\ n \in Nat /\ n > 0 /\ DOMAIN p = 1..n /\ \A i \in 1..n : p[i] \in Records
  BY SeqIs, EmptyIs DEF Order, Types
<1>2. /\ Range(p) = Between(cursor, batch.next_cursor) /\ Between(cursor_file, cursor) \subseteq exported
      /\ Ahead(cursor) \subseteq Q
  <2>1. pc # "closed" /\ Before(cursor_file, cursor) /\ cursor_file \in Cursor /\ cursor \in Cursor
    BY DEF Order, CursorsOrdered, Types
  <2> QED
    BY <2>1, AheadLater, ZenonT(30) DEF Exact
<1>3. InOrder(p, batch.next_cursor)
  BY DEF Fifo, HeldInOrder
<1>4. Range(p) \subseteq Q
  BY <1>2 DEF Between
<1>5. \A i \in 1..n : p[i] \in Range(p) /\ p[i] \in Nat /\ p[1] <= p[i] /\ p[i] <= p[n]
  <2> SUFFICES ASSUME NEW i \in 1..n
               PROVE  p[i] \in Range(p) /\ p[i] \in Nat /\ p[1] <= p[i] /\ p[i] <= p[n]
    OBVIOUS
  <2>1. p[i] \in Nat /\ p[1] \in Nat /\ p[n] \in Nat
    <3> HIDE DEF p, n
    <3>1. 1 \in 1..n /\ n \in 1..n
      BY <1>1
    <3>2. p[i] \in Records /\ p[1] \in Records /\ p[n] \in Records
      BY <1>1, <3>1, ZenonT(30)
    <3> QED
      BY <3>2, Sizes DEF Records
  <2>2. (1 < i => p[1] < p[i]) /\ (i < n => p[i] < p[n])
    BY <1>1, <1>3 DEF InOrder, Increasing
  <2>3. p[i] \in Range(p)
    BY <1>1 DEF Range
  <2> QED
    BY <1>1, <2>1, <2>2, <2>3
<1>6. ASSUME NEW r \in Q, p[1] <= r, r <= p[n], r \notin exported
      PROVE  r \in Range(p)
  <2>1. r \in Ahead(cursor)
    BY <1>2, <1>6 DEF Between
  <2>2. r \notin Ahead(batch.next_cursor)
    <3>1. r \in Nat /\ p[n] \in Nat
      BY <1>1, <1>5, Sizes DEF Ahead, Records
    <3>2. r \in Ahead(batch.next_cursor) => p[n] < r
      BY <1>1, <1>3 DEF InOrder
    <3> QED
      BY <1>6, <3>1, <3>2
  <2> QED
    BY <1>2, <2>1, <2>2 DEF Between
<1>7. \A r \in Range(p) : p[1] <= r /\ r <= p[n]
  BY <1>1, <1>5 DEF Range
<1>8. 1 \in 1..n /\ n \in 1..n
  BY <1>1
<1> HIDE DEF p, n, Q
<1>9. exported \cup Range(p) = exported \cup {r \in Q : p[1] <= r /\ r <= p[n]}
  BY <1>4, <1>6, <1>7
<1>10. p[1] \in Records /\ p[n] \in Records /\ p[1] \in Q /\ p[n] \in Q
  BY <1>1, <1>4, <1>5, <1>8
<1> QED
  BY <1>9, <1>10 DEF p, n, Q

-----------------------------------------------------------------------------
\* The queue of the abstract specification, by the cursor file.
LEMMA QueueIs ==
  ASSUME Order
  PROVE  /\ RecoveryCursor \in Cursor
         /\ cursor_file # NoCursor => RecoveryCursor = cursor_file
         /\ cursor_file = NoCursor => Ahead(RecoveryCursor) = {} /\ pc = "closed"
<1>1. CASE cursor_file # NoCursor
  BY <1>1, ZenonT(30) DEF RecoveryCursor, Order, Types
<1>2. CASE cursor_file = NoCursor
  <2>1. DOMAIN segments = {} /\ pc = "closed"
    BY <1>2 DEF Order, Fresh
  <2>2. RecoveryCursor = [segment_id |-> 1, offset |-> 0]
    BY <1>2, <2>1 DEF RecoveryCursor
  <2>3. Ahead(RecoveryCursor) = {}
    BY <2>1 DEF Ahead, StoredAfter
  <2> QED
    BY <1>2, <2>1, <2>2, <2>3 DEF Cursor
<1> QED
  BY <1>1, <1>2

\* The queue only changes by these three steps.
LEMMA QueueSame ==
  ASSUME Faults \subseteq Undamaging, Order, Order', Below, Sound, [Next]_vars,
         ~WriteCell, ~RemoveSegment, ~PersistCursor
  PROVE  Ahead(RecoveryCursor)' = Ahead(RecoveryCursor)
<1>1. PICK c : c = RecoveryCursor
  OBVIOUS
<1>2. c \in Cursor
  BY <1>1, QueueIs
<1>3. Ahead(c)' = Ahead(c)
  BY <1>2, AheadSame
<1>4. CASE RecoveryCursor' = RecoveryCursor
  BY <1>1, <1>3, <1>4 DEF Ahead, StoredAfter
<1>5. CASE DOMAIN segments' = {}
  <2>1. Ahead(c)' = {} /\ Ahead(RecoveryCursor)' = {}
    BY <1>5 DEF Ahead, StoredAfter
  <2> QED
    BY <1>1, <1>3, <2>1
<1> QED
  BY <1>4, <1>5, RecoveryStep

LEMMA FileKnown ==
  ASSUME Order, Order', [Next]_vars, WriteCell \/ RemoveSegment \/ PersistCursor
  PROVE  /\ pc # "closed" /\ cursor_file # NoCursor /\ RecoveryCursor = cursor_file
         /\ RecoveryCursor' = cursor_file' /\ cursor_file \in Cursor
         /\ cursor_file' = IF PersistCursor THEN cursor ELSE cursor_file
<1>1. /\ pc # "closed" /\ pc' # "closed"
      /\ cursor_file' = IF PersistCursor THEN cursor ELSE cursor_file
  BY DEF WriteCell, RemoveSegment, PersistCursor
<1>2. cursor_file # NoCursor /\ cursor_file' # NoCursor /\ cursor_file \in Cursor
  BY <1>1, ZenonT(30) DEF Order, Fresh, Types, NoCursor
<1> QED
  BY <1>1, <1>2 DEF RecoveryCursor, NoCursor

LEMMA Simulation ==
  ASSUME Faults \subseteq Undamaging, Order, Below, Sound, Fifo, Exact, Ranged(1..submitted), [Next]_vars,
         Order', UnderWay', CellsInOrder'
  PROVE  [Abstract!ANext]_(Abstract!avars)
<1> DEFINE Q == Ahead(RecoveryCursor)
<1>0. CellsInOrder /\ NoneNewer /\ NoneTakenNewer /\ Records = 1..N
  BY DEF Fifo, Records
\* A stutter.
<1>1. CASE Q' = Q /\ UNCHANGED <<accepted, exported>>
  BY <1>1 DEF Abstract!avars
<1>2. CASE WriteCell
  <2>1. UNCHANGED <<accepted, exported>> /\ pc = "write"
    BY <1>2 DEF WriteCell, history
  <2>2. PICK c : c = cursor_file
    OBVIOUS
  <2>3. c \in Cursor /\ Q = Ahead(c) /\ Q' = Ahead(c)'
    <3>1. c \in Cursor /\ c = RecoveryCursor /\ c = RecoveryCursor'
      BY <1>2, <2>2, FileKnown DEF WriteCell, PersistCursor
    <3> QED
      BY <3>1, ZenonT(30) DEF Ahead, StoredAfter
  <2>4. Ahead(c) \subseteq Ahead(c)' /\ \A r \in Ahead(c)' : r \in Ahead(c) \/ r = submitted
    <3>1. Ahead(c) \subseteq Ahead(c)'
      BY <1>2, <2>1, <2>3, AheadKept DEF RemoveSegment
    <3> QED
      BY <2>3, <3>1, AheadShrinks
  <2>5. CASE submitted \in Ahead(c)'
    <3>1. submitted \in 1..N
      BY <1>2, Written1 DEF Records
    <3>2. \A r \in Q \cup exported : r < submitted
      <4>1. \A r \in Ahead(c) : r < submitted
        BY <1>0, <1>2, <2>3, NotYetAhead
      <4>2. \A r \in exported : r < submitted
        BY <1>0, <2>1 DEF NoneTakenNewer, Taken
      <4> QED
        BY <2>3, <4>1, <4>2
    <3>3. Q' = Q \cup {submitted}
      BY <2>3, <2>4, <2>5
    <3>4. Abstract!Store(submitted)
      BY <2>1, <3>2, <3>3 DEF Abstract!Store, Abstract!Seen
    <3> QED
      BY <3>1, <3>4 DEF Abstract!ANext
  <2>6. CASE submitted \notin Ahead(c)'
    BY <1>1, <2>1, <2>3, <2>4, <2>6
  <2> QED
    BY <2>5, <2>6
<1>3. CASE RemoveSegment \/ PersistCursor
  <2>1. UNCHANGED <<accepted, exported>> /\ pc = "commit"
    BY <1>3 DEF RemoveSegment, PersistCursor, history
  <2>2. Q \subseteq Records /\ Q' \subseteq Q /\ Q \ Q' \subseteq exported /\ \A x \in Q \ Q' : \A y \in Q' : x < y
    <3>0. Q \subseteq Records
      BY DEF Ahead
    <3>1. CASE RemoveSegment
      <4>1. PICK c : c = cursor_file
        OBVIOUS
      <4>2. Q = Ahead(c) /\ Q' = Ahead(c)'
        <5>1. c = RecoveryCursor /\ c = RecoveryCursor'
          BY <3>1, <4>1, FileKnown DEF RemoveSegment, PersistCursor
        <5> QED
          BY <5>1 DEF Ahead, StoredAfter
      <4> QED
        BY <1>0, <3>0, <3>1, <4>1, <4>2, RemovalForgets
    <3>2. CASE PersistCursor
      <4>1. PICK c, d : c = cursor_file /\ d = cursor
        OBVIOUS
      <4>2. c \in Cursor /\ d \in Cursor /\ c = RecoveryCursor /\ d = RecoveryCursor'
        BY <3>2, <4>1, FileKnown, ZenonT(30) DEF Order, Types
      <4>3. Ahead(d)' = Ahead(d)
        BY <2>1, <3>2, <4>2, AheadSame DEF WriteCell, PersistCursor, RemoveSegment
      <4>4. Q = Ahead(c) /\ Q' = Ahead(d)
        BY <4>2, <4>3, ZenonT(30) DEF Ahead, StoredAfter
      <4>5. Ahead(d) \subseteq Ahead(c) /\ Between(c, d) \subseteq exported
        BY <2>1, <4>1, <4>2, AheadLater, ZenonT(30) DEF Order, CursorsOrdered, Exact
      <4>6. \A x \in Between(c, d) : \A y \in Ahead(d) : x < y
        BY <1>0, <4>2, OlderBehind
      <4> QED
        BY <3>0, <4>4, <4>5, <4>6 DEF Between
    <3> QED
      BY <1>3, <3>1, <3>2
  <2>3. CASE Q' # Q
    <3>1. PICK n \in Records : (\A r \in Q : r <= n => r \in exported) /\ Q' = {r \in Q : r > n}
      <4>1. PICK A, B : A = Q /\ B = Q'
        OBVIOUS
      <4>2. \E n \in Records : (\A r \in A : r <= n => r \in exported) /\ B = {r \in A : r > n}
        <5>1. A \subseteq 1..submitted
          BY <1>0, <4>1, AheadSubmitted, QueueIs, ZenonT(30)
        <5>2. A \ B # {} /\ A \ B \in SUBSET (1..submitted) /\ A \subseteq Records
          BY <2>2, <2>3, <4>1, <5>1, ZenonT(30)
        <5>3. PICK n \in A \ B : \A y \in A \ B : n >= y
          BY <5>2, ZenonT(30) DEF Ranged
        <5>4. B \subseteq A /\ A \ B \subseteq exported /\ \A x \in A \ B : \A y \in B : x < y
          BY <2>2, <4>1, ZenonT(30)
        <5>5. n \in Records /\ n \in Nat /\ A \subseteq Nat
          BY <5>2, Sizes DEF Records
        <5>6. ASSUME NEW r \in A
              PROVE  (r \in B <=> r > n) /\ (r <= n => r \in exported)
          BY <5>3, <5>4, <5>5
        <5>7. B = {r \in A : r > n}
          BY <5>4, <5>6, ZenonT(30)
        <5> QED
          BY <5>5, <5>6, <5>7, ZenonT(30)
      <4> QED
        BY <4>1, <4>2
    <3>2. Abstract!Forget(n)
      BY <2>1, <3>1 DEF Abstract!Forget
    <3> QED
      BY <1>0, <3>2 DEF Abstract!ANext
  <2> QED
    BY <1>1, <2>1, <2>3
<1>4. CASE EnqueueReturn
  <2>1. /\ pc = "write" /\ accepted' = accepted \cup {submitted} /\ exported' = exported
    BY <1>4 DEF EnqueueReturn
  <2>2. Q' = Q
    BY <1>4, <2>1, QueueSame DEF WriteCell, RemoveSegment, PersistCursor, EnqueueReturn
  <2>3. cursor_file # NoCursor /\ cursor_file \in Cursor /\ Placed(cursor_file) /\ Q = Ahead(cursor_file)
    BY <2>1, QueueIs, ZenonT(30) DEF Order, Types, Sound, CursorsPlaced
  <2> DEFINE a == active_segment_id
  <2>4. /\ a \in DOMAIN segments /\ a >= cursor_file.segment_id
        /\ a = cursor_file.segment_id => Whole(a) >= cursor_file.offset
    BY <2>1, <2>3, StartsAhead
  <2>5. submitted \in Records /\ FrameAt(segments[a], Whole(a), submitted) /\ Whole(a) \in 0..Len(segments[a])
    <3>1. submitted \in Records /\ FrameAt(segments[a], Whole(a), submitted)
      BY <1>4, WrittenOut, ZenonT(30) DEF Sound
    <3>2. Whole(a) \in Nat /\ Whole(a) <= Len(segments[a]) /\ Len(segments[a]) \in Nat
      BY <2>4, WholeIs, CellIs, ZenonT(30) DEF Sound
    <3> QED
      BY <3>1, <3>2
  <2>6. submitted \in Q
    BY <2>3, <2>4, <2>5 DEF Ahead, StoredAfter
  <2>7. Abstract!Acknowledge(submitted)
    BY <2>1, <2>2, <2>6 DEF Abstract!Acknowledge, Abstract!Seen
  <2> QED
    BY <1>0, <2>5, <2>7 DEF Abstract!ANext
<1>5. CASE ExportSucceeds
  <2> DEFINE p == batch.payloads
  <2>1. batch # NoBatch /\ exported' = exported \cup Range(p) /\ accepted' = accepted
    BY <1>5 DEF ExportSucceeds
  <2>2. Q' = Q
    <3>1. ~WriteCell /\ ~RemoveSegment /\ ~PersistCursor
      <4>1. ExportSucceeds => segments' = segments /\ pc' = pc /\ batch' # batch
        BY DEF ExportSucceeds, disk, Order, Types
      <4> QED
        BY <1>5, <4>1 DEF WriteCell, RemoveSegment, PersistCursor
    <3> QED
      BY <3>1, QueueSame
  <2>3. Q = Ahead(cursor_file)
    <3>1. pc # "closed"
      BY <2>1 DEF Order, CursorsOrdered
    <3> QED
      BY <3>1, QueueIs
  <2>4. CASE p = <<>>
    <3>1. Range(p) = {}
      BY <2>4 DEF Range
    <3> QED
      BY <1>1, <2>1, <2>2, <3>1
  <2>5. CASE p # <<>>
    <3>1. /\ p[1] \in Records /\ p[Len(p)] \in Records /\ {p[1], p[Len(p)]} \subseteq Q
          /\ exported \cup Range(p) = exported \cup {r \in Q : p[1] <= r /\ r <= p[Len(p)]}
      BY <2>1, <2>3, <2>5, BatchIsRun, ZenonT(30)
    <3>2. Abstract!Deliver(p[1], p[Len(p)])
      BY <2>1, <2>2, <3>1, ZenonT(30) DEF Abstract!Deliver
    <3> QED
      BY <1>0, <3>1, <3>2 DEF Abstract!ANext
  <2> QED
    BY <2>4, <2>5
<1>6. CASE ~WriteCell /\ ~RemoveSegment /\ ~PersistCursor /\ ~EnqueueReturn /\ ~ExportSucceeds
  <2>1. Q' = Q
    BY <1>6, QueueSame
  <2>2. UNCHANGED <<accepted, exported>>
    BY <1>6, NoDamage, ZenonT(30)
       DEF Next, System, Environment, vars, history, Open, OpenAt, Enqueue, ReadBatch, ReadRecord, ReadMove,
           ReadReturn, ExportFails, CommitBatch, Crash, RotateFails, CommitFails
  <2> QED
    BY <1>1, <2>1, <2>2
<1> QED
  BY <1>2, <1>3, <1>4, <1>5, <1>6

-----------------------------------------------------------------------------
LEMMA InitSound ==
  ASSUME Init
  PROVE  Sound /\ Exact /\ Abstract!AInit
<1>1. Sound
  BY DEF Init, Sound, Tiled, UnderWay, CursorsPlaced
<1>2. Exact
  BY ZenonT(30) DEF Init, Exact, NoBatch
<1>3. Ahead(RecoveryCursor) = {}
  BY DEF Init, Ahead, StoredAfter
<1> QED
  BY <1>1, <1>2, <1>3 DEF Init, Abstract!AInit

\* The disk queue is a durable at-least-once FIFO for every number and size of
\* records, segment and queue limit and number of faults, as long as none of
\* the faults damages a file.
THEOREM QueueIsDurable ==
  ASSUME Faults \subseteq Undamaging
  PROVE  Spec => ImplementsDurableQueue
<1> DEFINE Inv == Sound /\ Exact
<1>1. Init => Inv /\ Abstract!AInit
  BY InitSound
<1>2. Order /\ Order' /\ Below /\ Fifo /\ Fifo' /\ Inv /\ [Next]_vars => Inv'
  BY NextSound, NextExact DEF Fifo, Sound
<1>3. Order /\ Order' /\ Below /\ Fifo /\ Fifo' /\ Ranged(1..submitted) /\ Inv /\ Inv' /\ [Next]_vars =>
        [Abstract!ANext]_(Abstract!avars)
  BY Simulation DEF Fifo, Sound
<1> HIDE DEF Inv
<1> QED
  BY <1>1, <1>2, <1>3, OrderInvariance, BelowInvariance, FifoInvariance, RecordsRanged, PTL
     DEF Spec, ImplementsDurableQueue, Abstract!ASpec

=============================================================================
