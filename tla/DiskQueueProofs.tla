-------------------------- MODULE DiskQueueProofs --------------------------
(***************************************************************************)
(* Nothing is lost: an accepted record is exported, kept in a *.corrupt    *)
(* file, hit by bit rot itself, or still lies ahead of the cursor, unless  *)
(* a fault fell into a quarantine or a rotation (Interrupted; each of the  *)
(* three does lose records, see AcceptedNeverLost).  And the byte counters *)
(* equal what is on disk, which stays within the quota.                    *)
(***************************************************************************)
EXTENDS DiskQueueOrderProofs, FiniteSetTheorems

-----------------------------------------------------------------------------
(***************************************************************************)
(* Nothing is lost.  Order is not enough for this.  IInv adds that no      *)
(* cursor is past the end of the files (Tip, Reached), what the enqueue    *)
(* under way has written (InFile), and that everything accepted is settled *)
(* with respect to every cursor, including those of the read under way and *)
(* of the batch being exported (Kept).                                     *)
(***************************************************************************)

Position(id, o) == [segment_id |-> id, offset |-> o]

\* The active segment is the last one on disk.
Tip ==
  /\ pc = "closed" =>
       \/ cursor_file = NoCursor
       \/ \E m \in DOMAIN segments :
            LastOne(m) /\ Before(cursor_file, Position(m, Len(segments[m])))
  /\ pc \in {"idle", "write", "read", "commit"} => LastOne(active_segment_id)
  /\ pc = "quarantine" =>
       /\ rd.at.segment_id \notin DOMAIN segments
       /\ rd.at.segment_id <= active_segment_id
       /\ \A s \in DOMAIN segments : s <= active_segment_id
       /\ active_segment_id \in DOMAIN segments \/ rd.at.segment_id = active_segment_id

\* Where the next record starts, or the one under way did.
End ==
  Position(active_segment_id,
           Len(segments[active_segment_id]) - (IF pc = "write" THEN Written ELSE 0))

\* No cursor is past it.
Reached ==
  /\ pc \in {"idle", "write", "read", "commit"} => Before(cursor, End)
  /\ pc = "read" => Before(rd.at, End)
  /\ batch # NoBatch => Before(batch.next_cursor, End)

InFile ==
  pc = "write" =>
    LET f == segments[active_segment_id] IN
    /\ Written <= Len(f)
    /\ submitted \in rotten \/ \A k \in 1..Written : f[Len(f) - Written + k] = <<submitted, k>>

\* With the records D disposed of and X in the reader's hands, a reader of the
\* files g at c misses none of the records A.
SettledIn(g, A, D, c, X) == \A r \in A : r \in D \cup X \/ StoredIn(g, c, r)

Done == exported \cup quarantined \cup rotten

Settled(c, X) == SettledIn(segments, accepted, Done, c, X)

Kept ==
  /\ accepted \subseteq Records
  /\ Settled(cursor_file, {})
  /\ pc # "closed" => Settled(cursor, {})
  /\ pc \in {"read", "quarantine"} => Settled(rd.at, Range(rd.payloads))
  /\ batch # NoBatch => Settled(batch.next_cursor, Range(batch.payloads))
  /\ batch.sent => Range(batch.payloads) \subseteq exported

IInv == Order /\ Tip /\ Reached /\ InFile /\ Kept

\* What was settled stays so.
Carry ==
  \A c \in Cursor : \A X :
    SettledIn(segments, accepted, Done, c, X) => SettledIn(segments', accepted', Done', c, X)

\* The provers, and the seconds each may take, for a step that names none.
USE SMTT(30), Z3T(30), ZenonT(30)

\* What happened stays on record.
LEMMA FaultsStay ==
  ASSUME [Next]_vars, ~Interrupted'
  PROVE  ~Interrupted
<1>1. faults \subseteq faults'
  BY FaultsGrow
<1> QED
  BY <1>1 DEF Interrupted, Happened

-----------------------------------------------------------------------------
LEMMA InitIInv == Init => IInv
<1> SUFFICES ASSUME Init
             PROVE  IInv
  OBVIOUS
<1>1. Order
  BY InitOrder
<1>2. Tip /\ Reached /\ InFile
  BY DEF Init, Tip, Reached, InFile
<1>3. Kept
  BY DEF Init, Kept, Settled, SettledIn, NoBatch
<1> QED
  BY <1>1, <1>2, <1>3 DEF IInv

LEMMA NextIInv == IInv /\ [Next]_vars /\ ~Interrupted' => IInv'
<1>KeptNext. ASSUME Order', Carry, accepted' \subseteq Records,
                    SettledIn(segments, accepted, Done, cursor_file', {}),
                    pc' # "closed" => SettledIn(segments, accepted, Done, cursor', {}),
                    pc' \in {"read", "quarantine"} =>
                      SettledIn(segments, accepted, Done, rd'.at, Range(rd'.payloads)),
                    batch' # NoBatch =>
                      SettledIn(segments, accepted, Done, batch'.next_cursor, Range(batch'.payloads)),
                    batch'.sent => Range(batch'.payloads) \subseteq exported'
             PROVE  Kept'
  <2> USE <1>KeptNext
  <2>1. cursor_file' \in Cursor /\ cursor' \in Cursor /\ rd'.at \in Cursor /\ batch'.next_cursor \in Cursor
    BY DEF Order, Types
  <2>2. NoBatch' = NoBatch
    BY DEF NoBatch, NoCursor
  <2>3. /\ Settled(cursor_file, {})'
        /\ (pc # "closed")' => Settled(cursor, {})'
        /\ (pc \in {"read", "quarantine"})' => Settled(rd.at, Range(rd.payloads))'
        /\ (batch # NoBatch)' => Settled(batch.next_cursor, Range(batch.payloads))'
    BY <2>1, <2>2 DEF Carry, Settled
  <2> QED
    BY <2>3 DEF Kept
\* A step that moves none of the cursors.
<1>KeptSame. ASSUME Kept, Order', Carry, UNCHANGED <<accepted, cursor_file, cursor, rd, batch>>,
                    exported \subseteq exported',
                    pc' # "closed" => pc # "closed",
                    pc' \in {"read", "quarantine"} => pc \in {"read", "quarantine"}
             PROVE  Kept'
  BY <1>KeptSame, <1>KeptNext, ZenonT(30) DEF Kept, Settled
<1>CarryStored. ASSUME UNCHANGED accepted, accepted \subseteq Records, Done \subseteq Done',
                       \A c \in Cursor : \A r \in Records :
                         StoredIn(segments, c, r) => StoredIn(segments', c, r) \/ r \in Done'
                PROVE  Carry
  BY <1>CarryStored DEF Carry, SettledIn
<1>CarryFiles. ASSUME UNCHANGED accepted, accepted \subseteq Records, Done \subseteq Done',
                      \A s \in DOMAIN segments : s \in DOMAIN segments' /\ segments'[s] = segments[s]
               PROVE  Carry
  <2> USE <1>CarryFiles
  <2>1. \A c \in Cursor : \A r \in Records : StoredIn(segments, c, r) => StoredIn(segments', c, r)
    BY DEF StoredIn
  <2> QED
    BY <2>1, <1>CarryStored
<1>CarryCreated. ASSUME FilesOK(segments), UNCHANGED accepted, accepted \subseteq Records, Done \subseteq Done',
                        NEW id \in Nat \ {0}, id \notin DOMAIN segments, segments' = Create(id)
                 PROVE  Carry
  <2> USE <1>CarryCreated
  <2>1. \A s \in DOMAIN segments : s \in DOMAIN segments' /\ segments'[s] = segments[s]
    BY Created, ZenonT(30)
  <2> QED
    BY <2>1, <1>CarryFiles
\* A reader further on that misses nothing has not missed anything.
<1>SettledEarlier. ASSUME NEW g, FilesOK(g), NEW A, NEW D, NEW X, NEW c \in Cursor, NEW d \in Cursor, Before(c, d),
                          SettledIn(g, A, D, d, X)
                   PROVE  SettledIn(g, A, D, c, X)
  <2> USE <1>SettledEarlier
  <2> SUFFICES ASSUME NEW r \in A, r \notin D \cup X
               PROVE  StoredIn(g, c, r)
    BY DEF SettledIn
  <2>1. PICK s \in DOMAIN g :
          /\ s >= d.segment_id
          /\ \E o \in 0..Len(g[s]) : (s = d.segment_id => o >= d.offset) /\ FrameAt(g[s], o, r)
    BY DEF SettledIn, StoredIn
  <2>2. PICK o \in 0..Len(g[s]) : (s = d.segment_id => o >= d.offset) /\ FrameAt(g[s], o, r)
    BY <2>1
  <2>3. s \in Nat /\ Len(g[s]) \in Nat
    BY SeqIs DEF FilesOK
  <2>4. s >= c.segment_id /\ (s = c.segment_id => o >= c.offset)
    BY <2>1, <2>2, <2>3 DEF Before, Cursor
  <2> QED
    BY <2>2, <2>4 DEF StoredIn
\* The end of the queue, outside a quarantine.
<1>EndOK. ASSUME Order, Tip, InFile, pc \in {"idle", "write", "read", "commit"}
          PROVE  /\ LastOne(active_segment_id) /\ Len(segments[active_segment_id]) \in Nat
                 /\ active_segment_id \in Nat /\ active_segment_id > 0
                 /\ pc = "write" => Written \in Nat /\ Written <= Len(segments[active_segment_id])
                 /\ End \in Cursor /\ End.segment_id = active_segment_id
                 /\ End.offset = Len(segments[active_segment_id]) - (IF pc = "write" THEN Written ELSE 0)
  <2> USE <1>EndOK
  <2>1. LastOne(active_segment_id) /\ active_segment_id \in Nat /\ active_segment_id > 0
    BY DEF Tip, Order, CursorsOrdered, Types
  <2>2. Len(segments[active_segment_id]) \in Nat
    BY <2>1, SeqIs DEF LastOne, Order, Types, FilesOK
  <2>3. pc = "write" => Written \in Nat /\ Written <= Len(segments[active_segment_id])
    BY Sizes DEF Order, Writing, InFile
  <2> QED
    BY <2>1, <2>2, <2>3 DEF End, Position, Cursor
\* A step that leaves the end and the cursors where they are.
<1>SameReach. ASSUME Reached, Order', pc \in {"idle", "write", "read", "commit"},
                     pc' \in {"idle", "write", "read", "commit"}, End' = End,
                     UNCHANGED <<cursor, batch>>,
                     pc' = "read" => pc = "read" /\ rd' = rd
              PROVE  Reached'
  <2> USE <1>SameReach
  <2>1. NoBatch' = NoBatch
    BY DEF NoBatch, NoCursor
  <2> QED
    BY <2>1 DEF Reached
<1>OpenKeeps. ASSUME IInv, Open, Order'
              PROVE  Tip' /\ Reached' /\ InFile' /\ Kept'
  <2> USE <1>OpenKeeps
  <2> DEFINE c == RecoveryCursor
             m == LastSegment
  <2>1. /\ pc = "closed" /\ pc' = "idle" /\ cursor' = c /\ cursor_file' = c
        /\ active_segment_id' = m
        /\ segments' = IF m \in DOMAIN segments THEN segments ELSE Create(m)
        /\ UNCHANGED <<rd, batch, accepted, exported, quarantined, rotten>>
    BY DEF Open, OpenAt, history
  <2>2. batch = NoBatch /\ NoBatch' = NoBatch
    BY <2>1 DEF IInv, Order, CursorsOrdered, NoBatch, NoCursor
  <2>3. CASE cursor_file = NoCursor
    <3>1. DOMAIN segments = {} /\ accepted = {} /\ m = 1
      BY <2>3, LastSegmentIsLast DEF IInv, Order, Fresh
    <3>2. c.segment_id = 1 /\ c.offset = 0
      BY <2>3, <3>1 DEF RecoveryCursor
    <3> HIDE DEF c, m
    <3>3. segments' = Create(1) /\ active_segment_id' = 1
      BY <2>1, <3>1
    <3>4. DOMAIN segments' = {1} /\ segments'[1] = <<>>
      <4>1. FilesOK(segments) /\ 1 \in Nat \ {0}
        BY DEF IInv, Order, Types
      <4> QED
        BY <3>1, <3>3, <4>1, Created, ZenonT(30)
    <3>5. Tip' /\ InFile'
      BY <2>1, <3>3, <3>4 DEF Tip, InFile, LastOne
    <3>6. Reached'
      <4>1. End' = Position(1, 0)
        BY <2>1, <3>3, <3>4 DEF End, Position
      <4> QED
        BY <2>1, <2>2, <3>2, <4>1 DEF Reached, Before, Position
    <3>7. Kept'
      BY <2>1, <2>2, <3>1 DEF Kept, Settled, SettledIn, NoBatch
    <3> QED
      BY <3>5, <3>6, <3>7
  <2>4. CASE cursor_file # NoCursor
    <3>1. c = cursor_file
      BY <2>4 DEF RecoveryCursor
    <3>2. LastOne(m) /\ Before(cursor_file, Position(m, Len(segments[m]))) /\ segments' = segments
      <4>1. PICK k \in DOMAIN segments :
              LastOne(k) /\ Before(cursor_file, Position(k, Len(segments[k])))
        BY <2>1, <2>4 DEF IInv, Tip
      <4>2. LastOne(m)
        BY <4>1, LastSegmentIsLast DEF IInv, Order
      <4>3. m = k
        <5>1. DOMAIN segments \subseteq Nat
          BY ZenonT(30) DEF IInv, Order, Types, FilesOK
        <5>2. m \in DOMAIN segments /\ m <= k /\ k <= m
          BY <4>1, <4>2, ZenonT(30) DEF LastOne
        <5> HIDE DEF m
        <5> QED
          BY <4>1, <5>1, <5>2
      <4> QED
        BY <2>1, <4>1, <4>2, <4>3 DEF LastOne
    <3> HIDE DEF c, m
    <3>3. Tip' /\ InFile'
      BY <2>1, <3>2 DEF Tip, InFile, LastOne
    <3>4. Reached'
      <4>1. Len(segments[m]) \in Nat
        BY <3>2, SeqIs DEF LastOne, IInv, Order, Types, FilesOK
      <4>2. End' = Position(m, Len(segments[m]))
        BY <2>1, <3>2, <4>1 DEF End, Position
      <4> QED
        BY <2>1, <2>2, <3>1, <3>2, <4>2 DEF Reached
    <3>5. Kept'
      BY <2>1, <2>2, <3>1, <3>2, ZenonT(30) DEF IInv, Kept, Settled, Done
    <3> QED
      BY <3>3, <3>4, <3>5
  <2> QED
    BY <2>3, <2>4
<1>EnqueueKeeps. ASSUME IInv, Enqueue, Order'
                 PROVE  Tip' /\ Reached' /\ InFile' /\ Kept'
  <2> USE <1>EnqueueKeeps
  <2> DEFINE a == active_segment_id
  <2>1. /\ pc = "idle" /\ pc' = "write" /\ todo' = Frame(submitted')
        /\ UNCHANGED <<cursor_file, cursor, rd, batch, accepted, exported, quarantined, rotten>>
    BY DEF Enqueue
  <2>2. /\ LastOne(a) /\ Len(segments[a]) \in Nat /\ a \in Nat /\ a > 0
        /\ End \in Cursor /\ End.segment_id = a /\ End.offset = Len(segments[a])
    BY <2>1, <1>EndOK DEF IInv
  <2>3. \/ a' = a /\ segments' = segments
        \/ a' = a + 1 /\ segments' = Create(a + 1) /\ a + 1 \notin DOMAIN segments
    BY <2>2 DEF Enqueue, LastOne
  <2>4. FilesOK(segments) /\ a + 1 \in Nat \ {0} /\ accepted \subseteq Records
    BY <2>2 DEF IInv, Order, Types, Kept
  <2>5. LastOne(a)' /\ (a' = a \/ segments'[a'] = <<>>) /\ Carry
    <3>1. CASE a' = a /\ segments' = segments
      BY <2>1, <2>2, <2>4, <3>1, <1>CarryFiles DEF LastOne, Done
    <3>2. CASE a' = a + 1 /\ segments' = Create(a + 1) /\ a + 1 \notin DOMAIN segments
      <4>1. LastOne(a)' /\ segments'[a'] = <<>>
        <5>1. /\ DOMAIN Create(a + 1) = DOMAIN segments \cup {a + 1}
              /\ Create(a + 1)[a + 1] = <<>>
          BY <2>4, Created, ZenonT(30)
        <5>2. \A s \in DOMAIN segments : s <= a + 1
          BY <2>2, <2>4 DEF LastOne, FilesOK
        <5> QED
          BY <2>2, <3>2, <5>1, <5>2 DEF LastOne
      <4>2. Carry
        BY <2>1, <2>4, <3>2, <1>CarryCreated DEF Done
      <4> QED
        BY <4>1, <4>2
    <3> QED
      BY <2>3, <3>1, <3>2
  <2>6. Written' = 0 /\ Len(segments'[a']) \in Nat
    <3>1. storage_bytes_for_payload(submitted') \in Nat
      BY <2>1, Sizes DEF Order, Writing
    <3>2. PICK z : z = storage_bytes_for_payload(submitted')
      OBVIOUS
    <3>3. todo' = [k \in 1..z |-> <<submitted', k>>] /\ z \in Nat
      BY <2>1, <3>1, <3>2 DEF Frame
    <3>4. Len(todo') = z
      BY <3>3
    <3>5. Len(segments'[a']) \in Nat
      BY <2>5, SeqIs DEF LastOne, Order, Types, FilesOK
    <3> QED
      BY <3>2, <3>3, <3>4, <3>5 DEF Written
  <2>7. Tip' /\ InFile'
    BY <2>1, <2>5, <2>6 DEF Tip, InFile
  <2>8. Reached'
    <3>1. /\ End' = Position(a', Len(segments'[a'])) /\ NoBatch' = NoBatch
      BY <2>1, <2>6 DEF End, Position, NoBatch, NoCursor
    <3>2. End' \in Cursor /\ Before(End, End')
      <4>1. CASE a' = a /\ segments' = segments
        BY <2>2, <3>1, <4>1 DEF Position, Cursor, Before
      <4>2. CASE a' = a + 1
        BY <2>2, <2>6, <3>1, <4>2 DEF Position, Cursor, Before
      <4> QED
        BY <2>3, <4>1, <4>2
    <3>3. cursor \in Cursor /\ batch.next_cursor \in Cursor /\ Before(cursor, End)
          /\ (batch # NoBatch => Before(batch.next_cursor, End))
      BY <2>1 DEF IInv, Reached, Order, Types
    <3>4. Before(cursor, End') /\ (batch # NoBatch => Before(batch.next_cursor, End'))
      BY <2>2, <3>2, <3>3, BeforeTransitive
    <3> QED
      BY <2>1, <3>1, <3>4 DEF Reached
  <2>9. Kept'
    BY <2>1, <2>5, <1>KeptSame DEF IInv
  <2> QED
    BY <2>7, <2>8, <2>9
<1>WriteKeeps. ASSUME IInv, WriteCell, Order'
               PROVE  Tip' /\ Reached' /\ InFile' /\ Kept'
  <2> USE <1>WriteKeeps
  <2> DEFINE a == active_segment_id
             f == segments[a]
             n == Len(f)
             w == Written
             cell == <<submitted, w + 1>>
  <2>1. /\ pc = "write"
        /\ UNCHANGED <<cursor_file, pc, active_segment_id, cursor, rd, batch, submitted, accepted,
                       exported, quarantined, rotten>>
    BY DEF WriteCell, memory, history
  <2>2. Order /\ LastOne(a) /\ n \in Nat /\ w \in Nat /\ w <= n
    BY <2>1, <1>EndOK DEF IInv
  <2>3. /\ f \in Seq(Cell) /\ cell \in Cell /\ w' = w + 1
        /\ segments' = [segments EXCEPT ![a] = Append(f, cell)]
    BY <2>2, Written1
  <2>4. /\ DOMAIN segments' = DOMAIN segments
        /\ segments'[a] = Append(f, cell)
    BY <2>2, <2>3, ZenonT(30) DEF Order, Types, FilesOK, LastOne
  <2>5. /\ Len(segments'[a]) = n + 1 /\ segments'[a][n + 1] = cell
        /\ \A i \in 1..n : segments'[a][i] = f[i]
    <3> HIDE DEF cell, f
    <3> QED
      BY <2>3, <2>4, AppendIs, SeqIs
  <2>6. Tip'
    BY <2>1, <2>2, <2>4 DEF Tip, LastOne
  <2>7. Reached'
    <3>1. End' = End
      BY <2>1, <2>2, <2>3, <2>5 DEF End
    <3> QED
      BY <2>1, <3>1, <1>SameReach DEF IInv
  <2>8. InFile'
    <3>1. w' <= Len(segments'[a])
      BY <2>2, <2>3, <2>5
    <3>2. ASSUME submitted \notin rotten, NEW k \in 1..(w + 1)
          PROVE  segments'[a][n + 1 - (w + 1) + k] = <<submitted, k>>
      <4>1. n + 1 - (w + 1) + k = n - w + k
        <5> HIDE DEF n, w
        <5> QED
          BY <2>2
      <4>2. CASE k = w + 1
        <5> HIDE DEF n, w
        <5>1. n - w + k = n + 1
          BY <2>2, <4>2
        <5> QED
          BY <2>5, <4>1, <4>2, <5>1
      <4>3. CASE k # w + 1
        <5>1. k \in 1..w /\ n - w + k \in 1..n
          BY <2>2, <4>3
        <5>2. f[n - w + k] = <<submitted, k>>
          BY <2>1, <3>2, <5>1 DEF IInv, InFile
        <5> HIDE DEF f, n, w, cell
        <5> QED
          BY <2>5, <4>1, <5>1, <5>2
      <4> QED
        BY <4>2, <4>3
    <3>3. ASSUME submitted \notin rotten, NEW k \in 1..w'
          PROVE  segments'[a][Len(segments'[a]) - w' + k] = <<submitted, k>>
      <4> HIDE DEF f, n, w, cell
      <4>1. k \in 1..(w + 1) /\ Len(segments'[a]) - w' = n + 1 - (w + 1)
        BY <2>2, <2>3, <2>5
      <4> QED
        BY <3>2, <3>3, <4>1
    <3> QED
      BY <2>1, <3>1, <3>3 DEF InFile
  <2>9. Kept'
    <3>1. accepted \subseteq Records /\ Done' = Done /\ FilesOK(segments) /\ a \in DOMAIN segments
      BY <2>1, <2>2 DEF IInv, Kept, Done, Order, Types, LastOne
    <3>2. \A c \in Cursor : \A r \in Records : StoredIn(segments, c, r) => StoredIn(segments', c, r)
      <4> HIDE DEF cell, a
      <4> QED
        BY <2>3, <3>1, AppendStored, ZenonT(30) DEF f
    <3>3. Carry
      BY <2>1, <3>1, <3>2, <1>CarryStored
    <3> QED
      BY <2>1, <3>3, <1>KeptSame DEF IInv
  <2> QED
    BY <2>6, <2>7, <2>8, <2>9
\* Everything before the record just written is still ahead of the cursors, and
\* so is the record.
<1>ReturnKeeps. ASSUME IInv, EnqueueReturn, Order'
                PROVE  Tip' /\ Reached' /\ InFile' /\ Kept'
  <2> USE <1>ReturnKeeps
  <2> DEFINE a == active_segment_id
             f == segments[a]
             n == Len(f)
             z == storage_bytes_for_payload(submitted)
  <2>1. /\ pc = "write" /\ pc' = "idle" /\ todo = <<>> /\ accepted' = accepted \cup {submitted}
        /\ UNCHANGED <<segments, cursor_file, active_segment_id, cursor, rd, batch, submitted,
                       exported, quarantined, rotten>>
    BY DEF EnqueueReturn, disk
  <2>2. /\ Order /\ LastOne(a) /\ n \in Nat /\ a \in Nat /\ Written \in Nat /\ Written <= n
        /\ End \in Cursor /\ End.segment_id = a /\ End.offset = n - Written
    BY <2>1, <1>EndOK DEF IInv
  <2>3. submitted \in Records /\ z \in Nat /\ Written = z
    <3>1. submitted \in Records
      BY <2>1 DEF IInv, Order, Writing
    <3>2. Len(todo) = 0
      BY <2>1
    <3> QED
      BY <3>1, <3>2, Sizes DEF Written
  <2>4. Tip' /\ InFile'
    BY <2>1, <2>2 DEF Tip, InFile, LastOne
  <2>5. cursor \in Cursor /\ batch.next_cursor \in Cursor /\ cursor_file \in Cursor /\ Before(cursor, End)
        /\ (batch # NoBatch => Before(batch.next_cursor, End)) /\ Before(cursor_file, cursor)
    BY <2>1 DEF IInv, Reached, Order, Types, CursorsOrdered
  <2>6. NoBatch' = NoBatch
    BY DEF NoBatch, NoCursor
  <2>7. Reached'
    <3>1. End' = Position(a, n)
      BY <2>1, <2>2 DEF End, Position
    <3>2. End' \in Cursor /\ Before(End, End')
      BY <2>2, <3>1 DEF Position, Cursor, Before
    <3>3. Before(cursor, End') /\ (batch # NoBatch => Before(batch.next_cursor, End'))
      BY <2>2, <2>5, <3>2, BeforeTransitive
    <3> QED
      BY <2>1, <2>6, <3>3 DEF Reached
  <2>8. ASSUME NEW c \in Cursor, Before(c, End)
        PROVE  submitted \in rotten \/ StoredIn(segments, c, submitted)
    <3> SUFFICES ASSUME submitted \notin rotten
                 PROVE  StoredIn(segments, c, submitted)
      OBVIOUS
    <3>1. \A k \in 1..z : f[n - z + k] = <<submitted, k>>
      BY <2>1, <2>3 DEF IInv, InFile
    <3> HIDE DEF z, n
    <3>2. n - z \in 0..n /\ (n - z) + z <= n
      BY <2>2, <2>3
    <3>3. FrameAt(f, n - z, submitted)
      BY <3>1, <3>2 DEF FrameAt, z, n
    <3>4. a >= c.segment_id /\ (a = c.segment_id => n - z >= c.offset)
      BY <2>2, <2>3, <2>8 DEF Before, Cursor
    <3> QED
      BY <2>2, <3>2, <3>3, <3>4 DEF StoredIn, LastOne, n
  <2>9. ASSUME NEW c \in Cursor, Before(c, End), NEW X, SettledIn(segments, accepted, Done, c, X)
        PROVE  SettledIn(segments', accepted', Done', c, X)
    BY <2>1, <2>8, <2>9 DEF SettledIn, Done
  <2>10. Before(cursor_file, End)
    BY <2>2, <2>5, BeforeTransitive
  <2>11. Kept'
    <3>1. /\ SettledIn(segments, accepted, Done, cursor, {})
          /\ SettledIn(segments, accepted, Done, cursor_file, {})
          /\ batch # NoBatch =>
               SettledIn(segments, accepted, Done, batch.next_cursor, Range(batch.payloads))
          /\ batch.sent => Range(batch.payloads) \subseteq exported
          /\ accepted' \subseteq Records
      BY <2>1, <2>3 DEF IInv, Kept, Settled
    <3>2. /\ SettledIn(segments', accepted', Done', cursor, {})
          /\ SettledIn(segments', accepted', Done', cursor_file, {})
          /\ batch # NoBatch =>
               SettledIn(segments', accepted', Done', batch.next_cursor, Range(batch.payloads))
      BY <2>5, <2>9, <2>10, <3>1
    <3> QED
      BY <2>1, <2>6, <3>1, <3>2, ZenonT(30) DEF Kept, Settled
  <2> QED
    BY <2>4, <2>7, <2>11
\* An error leaves half a record behind the end, or a commit half done.
<1>ErrorKeeps. ASSUME IInv, WriteFails \/ CommitFails, Order'
               PROVE  Tip' /\ Reached' /\ InFile' /\ Kept'
  <2> USE <1>ErrorKeeps
  <2> DEFINE a == active_segment_id
             n == Len(segments[a])
  <2>1. /\ pc \in {"write", "commit"} /\ pc' = "idle"
        /\ UNCHANGED <<segments, cursor_file, active_segment_id, cursor, rd, batch, accepted,
                       exported, quarantined, rotten>>
    BY DEF WriteFails, CommitFails, disk, memory, history
  <2>2. /\ Order /\ LastOne(a) /\ n \in Nat /\ a \in Nat
        /\ pc = "write" => Written \in Nat /\ Written <= n
        /\ End \in Cursor /\ End.segment_id = a
        /\ End.offset = n - (IF pc = "write" THEN Written ELSE 0)
    BY <2>1, <1>EndOK DEF IInv
  <2>3. Tip' /\ InFile'
    BY <2>1, <2>2 DEF Tip, InFile, LastOne
  <2>4. Reached'
    <3>1. End' = Position(a, n) /\ NoBatch' = NoBatch
      BY <2>1, <2>2 DEF End, Position, NoBatch, NoCursor
    <3>2. End' \in Cursor /\ Before(End, End')
      BY <2>2, <3>1 DEF Position, Cursor, Before
    <3>3. cursor \in Cursor /\ batch.next_cursor \in Cursor /\ Before(cursor, End)
          /\ (batch # NoBatch => Before(batch.next_cursor, End))
      BY <2>1 DEF IInv, Reached, Order, Types
    <3>4. Before(cursor, End') /\ (batch # NoBatch => Before(batch.next_cursor, End'))
      BY <2>2, <3>2, <3>3, BeforeTransitive
    <3> QED
      BY <2>1, <3>1, <3>4 DEF Reached
  <2>5. Kept'
    <3>1. Carry
      BY <2>1, <1>CarryFiles DEF IInv, Kept, Done
    <3> QED
      BY <2>1, <3>1, <1>KeptSame DEF IInv
  <2> QED
    BY <2>3, <2>4, <2>5
\* Damage to one record leaves the frames of the others.
<1>RotKeeps. ASSUME IInv, BitRot, Order'
             PROVE  Tip' /\ Reached' /\ InFile' /\ Kept'
  <2> USE <1>RotKeeps
  <2>1. UNCHANGED <<cursor_file, pc, active_segment_id, cursor, todo, rd, batch, submitted, accepted,
                    exported, quarantined>>
    BY DEF BitRot, memory
  <2>2. PICK u \in DOMAIN segments : \E i \in 1..Len(segments[u]) : \E q \in Records :
          /\ segments[u][i] = <<q, 1>>
          /\ FilesOK(segments') /\ DOMAIN segments' = DOMAIN segments
          /\ \A s \in DOMAIN segments : s # u => segments'[s] = segments[s]
          /\ Len(segments'[u]) = Len(segments[u])
          /\ segments'[u][i] = <<q, 0>>
          /\ \A j \in 1..Len(segments[u]) : j # i => segments'[u][j] = segments[u][j]
          /\ rotten' = rotten \cup {q}
    BY Rots DEF IInv
  <2>3. PICK i \in 1..Len(segments[u]), q \in Records :
          /\ segments[u][i] = <<q, 1>>
          /\ DOMAIN segments' = DOMAIN segments
          /\ \A s \in DOMAIN segments : s # u => segments'[s] = segments[s]
          /\ Len(segments'[u]) = Len(segments[u])
          /\ \A j \in 1..Len(segments[u]) : j # i => segments'[u][j] = segments[u][j]
          /\ rotten' = rotten \cup {q}
    BY <2>2
  <2>4. \A s \in DOMAIN segments : Len(segments'[s]) = Len(segments[s])
    BY <2>3
  <2>5. Tip'
    BY <2>1, <2>3, <2>4 DEF IInv, Tip, LastOne
  <2>6. Reached'
    <3>1. Written' = Written /\ NoBatch' = NoBatch
      BY <2>1 DEF Written, NoBatch, NoCursor
    <3>2. pc \in {"idle", "write", "read", "commit"} => End' = End
      BY <2>1, <2>4, <3>1 DEF End, IInv, Tip, LastOne
    <3>3. batch # NoBatch => pc \in {"idle", "write"}
      BY DEF IInv, Order, CursorsOrdered
    <3> QED
      BY <2>1, <3>1, <3>2, <3>3, ZenonT(30) DEF IInv, Reached
  <2>7. InFile'
    <3> SUFFICES ASSUME pc = "write"
                 PROVE  InFile'
      BY <2>1 DEF InFile
    <3> DEFINE a == active_segment_id
               f == segments[a]
               n == Len(f)
               w == Written
    <3>1. a \in DOMAIN segments /\ n \in Nat /\ w \in Nat /\ w <= n /\ w' = w /\ Len(segments'[a]) = n
      BY <2>1, <2>4, <1>EndOK DEF IInv, LastOne, Written
    <3>2. submitted \in rotten' \/ \A k \in 1..w : segments'[a][n - w + k] = <<submitted, k>>
      <4> SUFFICES ASSUME submitted \notin rotten', NEW k \in 1..w
                   PROVE  segments'[a][n - w + k] = <<submitted, k>>
        OBVIOUS
      <4>1. f[n - w + k] = <<submitted, k>> /\ submitted # q
        BY <2>3 DEF IInv, InFile
      <4>2. n - w + k \in 1..n
        BY <3>1
      <4>3. CASE a = u
        <5>1. n - w + k # i
          BY <2>3, <4>1, <4>3
        <5> QED
          BY <2>3, <4>1, <4>2, <4>3, <5>1
      <4>4. CASE a # u
        BY <2>3, <3>1, <4>1, <4>4
      <4> QED
        BY <4>3, <4>4
    <3> QED
      BY <2>1, <3>1, <3>2, ZenonT(30) DEF InFile
  <2>8. ASSUME NEW c \in Cursor, NEW r \in Records, StoredIn(segments, c, r), r # q
        PROVE  StoredIn(segments', c, r)
    <3>1. PICK s \in DOMAIN segments :
            /\ s >= c.segment_id
            /\ \E o \in 0..Len(segments[s]) :
                 (s = c.segment_id => o >= c.offset) /\ FrameAt(segments[s], o, r)
      BY <2>8 DEF StoredIn
    <3>2. PICK o \in 0..Len(segments[s]) :
            (s = c.segment_id => o >= c.offset) /\ FrameAt(segments[s], o, r)
      BY <3>1
    <3> DEFINE z == storage_bytes_for_payload(r)
               n == Len(segments[s])
    <3>3. n \in Nat /\ z \in Nat
      BY Sizes, SeqIs DEF IInv, Order, Types, FilesOK
    <3>4. o + z <= n /\ o \in Nat /\ \A k \in 1..z : segments[s][o + k] = <<r, k>>
      BY <3>2, <3>3 DEF FrameAt
    <3> HIDE DEF z, n
    <3>5. \A k \in 1..z : segments'[s][o + k] = <<r, k>>
      <4> SUFFICES ASSUME NEW k \in 1..z
                   PROVE  segments'[s][o + k] = <<r, k>>
        OBVIOUS
      <4>1. segments[s][o + k] = <<r, k>>
        BY <3>4
      <4>2. o + k \in 1..n
        BY <3>3, <3>4
      <4>3. CASE s = u
        <5>1. o + k # i
          BY <2>3, <2>8, <4>1, <4>3
        <5> QED
          BY <2>3, <4>1, <4>2, <4>3, <5>1 DEF n
      <4>4. CASE s # u
        BY <2>3, <4>1, <4>4
      <4> QED
        BY <4>3, <4>4
    <3>6. FrameAt(segments'[s], o, r)
      BY <2>4, <3>4, <3>5 DEF FrameAt, z, n
    <3> QED
      BY <2>3, <2>4, <3>1, <3>2, <3>6 DEF StoredIn
  <2>9. Kept'
    <3>1. Done \subseteq Done' /\ q \in Done' /\ accepted \subseteq Records
      BY <2>1, <2>3 DEF Done, IInv, Kept
    <3>2. \A c \in Cursor : \A r \in Records :
            StoredIn(segments, c, r) => StoredIn(segments', c, r) \/ r \in Done'
      BY <2>8, <3>1
    <3>3. Carry
      BY <2>1, <3>1, <3>2, <1>CarryStored
    <3> QED
      BY <2>1, <3>3, <1>KeptSame DEF IInv
  <2> QED
    BY <2>5, <2>6, <2>7, <2>9
<1>RecordSettled. ASSUME FilesOK(segments), NEW c \in Cursor, NEW q \in Records, NEW X,
                         c.segment_id \in DOMAIN segments, FrameAt(segments[c.segment_id], c.offset, q),
                         accepted \subseteq Records, SettledIn(segments, accepted, Done, c, X),
                         NEW d \in Cursor, d = [c EXCEPT !.offset = @ + storage_bytes_for_payload(q)]
                  PROVE  SettledIn(segments, accepted, Done, d, X \cup {q})
  <2> USE <1>RecordSettled
  <2> SUFFICES ASSUME NEW r \in accepted, r \notin Done \cup X, r # q
               PROVE  StoredAfter(d, r)
    BY DEF SettledIn, StoredIn, StoredAfter
  <2>1. r \in Records /\ StoredAfter(c, r)
    BY DEF SettledIn, StoredIn, StoredAfter
  <2> QED
    BY <2>1, SkipRecord
<1>MoveSettled. ASSUME FilesOK(segments), NEW c \in Cursor, NEW X, NEW d \in Cursor, d.offset = 0,
                       accepted \subseteq Records, SettledIn(segments, accepted, Done, c, X),
                       \A s \in DOMAIN segments : s > c.segment_id => s >= d.segment_id,
                       c.segment_id \in DOMAIN segments => Len(segments[c.segment_id]) < c.offset + HEADER
                PROVE  SettledIn(segments, accepted, Done, d, X)
  <2> USE <1>MoveSettled
  <2> SUFFICES ASSUME NEW r \in accepted, r \notin Done \cup X
               PROVE  StoredAfter(d, r)
    BY DEF SettledIn, StoredIn, StoredAfter
  <2>1. r \in Records /\ StoredAfter(c, r)
    BY DEF SettledIn, StoredIn, StoredAfter
  <2> QED
    BY <2>1, SkipEnd
<1>ReadKeeps. ASSUME IInv, ReadRecord \/ ReadMove, Order'
              PROVE  Tip' /\ Reached' /\ InFile' /\ Kept'
  <2> USE <1>ReadKeeps
  <2> DEFINE c == rd.at
             X == Range(rd.payloads)
             step == read_step_at(c)
             a == active_segment_id
  <2>1. /\ pc = "read" /\ pc' = "read"
        /\ UNCHANGED <<segments, cursor_file, active_segment_id, cursor, batch, accepted,
                       exported, quarantined, rotten>>
    BY DEF ReadRecord, ReadMove, disk, memory, history
  <2>2. /\ Types /\ FilesOK(segments) /\ c \in Cursor /\ DOMAIN rd = {"at", "payloads", "should_commit"}
        /\ rd.payloads \in Seq(Records) /\ accepted \subseteq Records
        /\ SettledIn(segments, accepted, Done, c, X)
    BY <2>1, ZenonT(30) DEF IInv, Order, Types, Kept, Settled
  <2>3. /\ LastOne(a) /\ Len(segments[a]) \in Nat /\ a \in Nat
        /\ End \in Cursor /\ End.segment_id = a /\ End.offset = Len(segments[a])
    BY <2>1, <1>EndOK DEF IInv
  <2>4. /\ rd'.at \in Cursor /\ Before(rd'.at, End)
        /\ SettledIn(segments, accepted, Done, rd'.at, Range(rd'.payloads))
    <3>1. CASE ReadRecord
      <4>1. step.kind = "record" /\ rd'.at = step.next /\ rd'.payloads = Append(rd.payloads, step.rec)
        BY <2>2, <3>1 DEF ReadRecord
      <4>2. /\ c.segment_id \in DOMAIN segments /\ step.rec \in Records
            /\ FrameAt(segments[c.segment_id], c.offset, step.rec)
            /\ step.next = [c EXCEPT !.offset = @ + storage_bytes_for_payload(step.rec)]
            /\ step.next \in Cursor
        BY <2>2, <4>1, Reads
      <4> HIDE DEF step, c
      <4>3. PICK q \in Records : q = step.rec
        BY <4>2
      <4>4. Range(rd'.payloads) = X \cup {q}
        <5>1. PICK p \in Seq(Records) : p = rd.payloads
          BY <2>2
        <5>2. Append(p, q) \in Seq(Records) /\ Len(p) \in Nat
              /\ DOMAIN p = 1..Len(p) /\ DOMAIN Append(p, q) = 1..(Len(p) + 1)
              /\ (\A i \in 1..Len(p) : Append(p, q)[i] = p[i]) /\ Append(p, q)[Len(p) + 1] = q
          BY AppendIs, SeqIs
        <5>3. PICK t : t = Append(p, q)
          BY ZenonT(30)
        <5>4. PICK n \in Nat : n = Len(p)
          BY <5>2, ZenonT(30)
        <5>5. Range(t) = Range(p) \cup {q}
          BY <5>2, <5>3, <5>4 DEF Range
        <5> QED
          BY <4>1, <4>3, <5>1, <5>3, <5>5
      <4>5. SettledIn(segments, accepted, Done, step.next, X \cup {q})
        BY <2>2, <4>2, <4>3, <1>RecordSettled
      <4>6. Before(step.next, End)
        <5>1. step.next.segment_id = c.segment_id
              /\ step.next.offset = c.offset + storage_bytes_for_payload(q)
          BY <2>2, <4>2, <4>3 DEF Cursor
        <5>2. c.offset + storage_bytes_for_payload(q) <= Len(segments[c.segment_id])
          BY <4>2, <4>3 DEF FrameAt
        <5>3. c.segment_id <= a /\ c.segment_id \in Nat
          BY <2>2, <2>3, <4>2 DEF LastOne, Cursor
        <5> QED
          BY <2>3, <5>1, <5>2, <5>3 DEF Before
      <4> QED
        BY <4>1, <4>2, <4>4, <4>5, <4>6
    <3>2. CASE ReadMove
      <4>1. step.kind = "move" /\ rd'.at = step.next /\ rd'.payloads = rd.payloads
        BY <2>2, <3>2 DEF ReadMove
      <4>2. /\ step.next \in Cursor /\ step.next.offset = 0
            /\ step.next.segment_id \in DOMAIN segments
            /\ \A s \in DOMAIN segments : s > c.segment_id => s >= step.next.segment_id
            /\ c.segment_id \in DOMAIN segments => Len(segments[c.segment_id]) < c.offset + HEADER
        BY <2>2, <4>1, Reads, ZenonT(30)
      <4> HIDE DEF step, c, X
      <4>3. SettledIn(segments, accepted, Done, step.next, X)
        BY <2>2, <4>2, <1>MoveSettled
      <4>4. Before(step.next, End)
        BY <2>3, <4>2 DEF Before, LastOne, Cursor
      <4> QED
        BY <4>1, <4>2, <4>3, <4>4 DEF X
    <3> QED
      BY <3>1, <3>2
  <2>5. Tip' /\ InFile'
    BY <2>1, <2>3 DEF Tip, InFile, LastOne
  <2>6. batch = NoBatch /\ NoBatch' = NoBatch
    BY <2>1 DEF IInv, Order, CursorsOrdered, NoBatch, NoCursor
  <2>7. Reached'
    <3>1. End' = End
      BY <2>1 DEF End
    <3> QED
      BY <2>1, <2>4, <2>6, <3>1 DEF IInv, Reached
  <2>8. Kept'
    <3>1. Carry
      BY <2>1, <2>2, <1>CarryFiles DEF Done
    <3>2. SettledIn(segments, accepted, Done, cursor_file', {}) /\ SettledIn(segments, accepted, Done, cursor', {})
      BY <2>1, ZenonT(30) DEF IInv, Kept, Settled
    <3> QED
      BY <2>1, <2>2, <2>4, <2>6, <3>1, <3>2, <1>KeptNext, ZenonT(30) DEF NoBatch
  <2> QED
    BY <2>5, <2>7, <2>8
<1>QuarantineKeeps. ASSUME IInv, QuarantineSegment, Order'
                    PROVE  Tip' /\ Reached' /\ InFile' /\ Kept'
  <2> USE <1>QuarantineKeeps
  <2> DEFINE id == rd.at.segment_id
             f == segments[id]
             a == active_segment_id
  <2>1. /\ pc = "read" /\ pc' = "quarantine" /\ read_step_at(rd.at).kind = "corrupt"
        /\ segments' = Restrict(segments, DOMAIN segments \ {id})
        /\ quarantined' = quarantined \cup {r \in Records : \E o \in 0..Len(f) : FrameAt(f, o, r)}
        /\ UNCHANGED <<cursor_file, active_segment_id, cursor, rd, batch, accepted, exported, rotten>>
    BY DEF QuarantineSegment
  <2>2. FilesOK(segments) /\ accepted \subseteq Records /\ id \in DOMAIN segments /\ LastOne(a)
    <3>1. Types /\ rd.at \in Cursor /\ accepted \subseteq Records
      BY DEF IInv, Order, Types, Kept
    <3>2. LastOne(a)
      BY <2>1 DEF IInv, Tip
    <3> QED
      BY <2>1, <3>1, <3>2, Reads, ZenonT(30) DEF Types
  <2>3. /\ DOMAIN segments' = DOMAIN segments \ {id}
        /\ \A s \in DOMAIN segments' : segments'[s] = segments[s]
    BY <2>1, <2>2, Removed
  <2>4. batch = NoBatch /\ NoBatch' = NoBatch
    BY <2>1, ZenonT(30) DEF IInv, Order, CursorsOrdered, NoBatch, NoCursor
  <2>5. Tip' /\ InFile' /\ Reached'
    BY <2>1, <2>2, <2>3, <2>4, ZenonT(30) DEF Tip, InFile, Reached, LastOne
  <2>6. ASSUME NEW c \in Cursor, NEW r \in Records, StoredIn(segments, c, r)
        PROVE  StoredIn(segments', c, r) \/ r \in Done'
    <3>1. PICK s \in DOMAIN segments :
            /\ s >= c.segment_id
            /\ \E o \in 0..Len(segments[s]) :
                 (s = c.segment_id => o >= c.offset) /\ FrameAt(segments[s], o, r)
      BY <2>6 DEF StoredIn
    <3>2. CASE s = id
      BY <2>1, <3>1, <3>2, ZenonT(30) DEF Done
    <3>3. CASE s # id
      BY <2>3, <3>1, <3>3 DEF StoredIn
    <3> QED
      BY <3>2, <3>3
  <2>7. Carry
    BY <2>1, <2>2, <2>6, <1>CarryStored, ZenonT(30) DEF Done
  <2>8. Kept'
    BY <2>1, <2>7, <1>KeptSame, ZenonT(30) DEF IInv
  <2> QED
    BY <2>5, <2>8
\* After the rename the reader goes on in the next segment, or in a new active
\* one when the damaged one was the last.
<1>AdvanceKeeps. ASSUME IInv, QuarantineAdvance, Order'
                 PROVE  Tip' /\ Reached' /\ InFile' /\ Kept'
  <2> USE <1>AdvanceKeeps
  <2> DEFINE c == rd.at
             X == Range(rd.payloads)
             a == active_segment_id
  <2>1. /\ pc = "quarantine" /\ pc' = "read"
        /\ UNCHANGED <<cursor_file, cursor, batch, accepted, exported, quarantined, rotten>>
    BY DEF QuarantineAdvance, history
  <2>2. /\ Types /\ FilesOK(segments) /\ c \in Cursor /\ cursor \in Cursor /\ a \in Nat
        /\ DOMAIN rd = {"at", "payloads", "should_commit"}
        /\ accepted \subseteq Records /\ Before(cursor, c)
        /\ SettledIn(segments, accepted, Done, c, X)
        /\ SettledIn(segments, accepted, Done, cursor_file', {})
        /\ SettledIn(segments, accepted, Done, cursor', {})
    BY <2>1, ZenonT(30) DEF IInv, Order, Types, CursorsOrdered, Kept, Settled
  <2>3. /\ c.segment_id \notin DOMAIN segments /\ c.segment_id <= a
        /\ \A s \in DOMAIN segments : s <= a
        /\ a \in DOMAIN segments \/ c.segment_id = a
    BY <2>1, ZenonT(30) DEF IInv, Tip
  <2>4. batch = NoBatch /\ NoBatch' = NoBatch /\ ~NoBatch.sent
    BY <2>1, ZenonT(30) DEF IInv, Order, CursorsOrdered, NoBatch, NoCursor
  <2>5. CASE c.segment_id >= a
    <3> DEFINE id == c.segment_id + 1
    <3>1. /\ a' = id /\ segments' = Create(id)
          /\ rd'.at = [segment_id |-> id, offset |-> 0] /\ rd'.payloads = rd.payloads
      BY <2>2, <2>5, ZenonT(30) DEF QuarantineAdvance
    <3>2. c.segment_id = a /\ id \in Nat \ {0} /\ id = a + 1
      <4>1. c.segment_id \in Nat /\ a \in Nat
        BY <2>2 DEF Cursor
      <4>2. c.segment_id <= a /\ c.segment_id >= a
        BY <2>3, <2>5, ZenonT(30)
      <4> QED
        BY <4>1, <4>2
    <3>3. id \notin DOMAIN segments /\ \A s \in DOMAIN segments : s <= id
      BY <2>2, <2>3, <3>2 DEF FilesOK
    <3>4. DOMAIN segments' = DOMAIN segments \cup {id} /\ segments'[id] = <<>>
      BY <2>2, <3>1, <3>2, Created, ZenonT(30)
    <3>5. Tip' /\ InFile'
      BY <2>1, <3>1, <3>2, <3>3, <3>4 DEF Tip, InFile, LastOne
    <3>6. Reached'
      <4>1. End' = Position(id, 0)
        BY <2>1, <3>1, <3>4 DEF End, Position
      <4>2. Before(cursor, Position(id, 0)) /\ Before(rd'.at, Position(id, 0))
        BY <2>2, <3>1, <3>2 DEF Before, Position, Cursor
      <4> QED
        BY <2>1, <2>4, <4>1, <4>2 DEF Reached
    <3>7. Carry
      BY <2>1, <2>2, <3>1, <3>2, <3>3, <1>CarryCreated, ZenonT(30) DEF Done
    <3>8. SettledIn(segments, accepted, Done, rd'.at, Range(rd'.payloads))
      <4>1. rd'.at \in Cursor /\ rd'.at.offset = 0 /\ rd'.at.segment_id = id
        BY <3>1, <3>2 DEF Cursor
      <4>2. \A s \in DOMAIN segments : s > c.segment_id => s >= id
        BY <2>2, <3>2 DEF FilesOK
      <4> HIDE DEF c, id
      <4> QED
        BY <2>2, <2>3, <3>1, <4>1, <4>2, <1>MoveSettled, ZenonT(30)
    <3>9. Kept'
      BY <2>1, <2>2, <2>4, <3>7, <3>8, <1>KeptNext, ZenonT(30)
    <3> QED
      BY <3>5, <3>6, <3>9
  <2>6. CASE ~(c.segment_id >= a)
    <3> DEFINE step == next_cursor_after(c.segment_id)
    <3>1. /\ UNCHANGED <<segments, active_segment_id>>
          /\ rd' = IF step.kind = "empty" THEN rd
                   ELSE [rd EXCEPT !.at = step.next, !.should_commit = TRUE]
      BY <2>6 DEF QuarantineAdvance
    <3>2. c.segment_id < a /\ LastOne(a) /\ Len(segments[a]) \in Nat
      <4>1. c.segment_id < a /\ LastOne(a)
        BY <2>2, <2>3, <2>6 DEF LastOne, Cursor
      <4> QED
        BY <2>2, <4>1, SeqIs DEF LastOne, FilesOK
    <3>3. step.kind = "move" /\ step.next \in Cursor /\ step.next.offset = 0
          /\ step.next.segment_id \in DOMAIN segments
          /\ \A s \in DOMAIN segments : s > c.segment_id => s >= step.next.segment_id
      <4>1. a > c.segment_id /\ a \in DOMAIN segments
        BY <2>2, <3>2 DEF LastOne, Cursor
      <4> QED
        BY <2>2, <4>1, Moves, ZenonT(30)
    <3> HIDE DEF step
    <3>4. rd'.at = step.next /\ rd'.payloads = rd.payloads
      BY <2>2, <3>1, <3>3
    <3>5. Tip' /\ InFile'
      BY <2>1, <3>1, <3>2 DEF Tip, InFile, LastOne
    <3>6. Reached'
      <4>1. End' = Position(a, Len(segments[a]))
        BY <2>1, <3>1, <3>2 DEF End, Position
      <4>2. Before(cursor, Position(a, Len(segments[a]))) /\ Before(step.next, Position(a, Len(segments[a])))
        BY <2>2, <3>2, <3>3 DEF Before, Position, Cursor, LastOne
      <4> QED
        BY <2>1, <2>4, <3>4, <4>1, <4>2 DEF Reached
    <3>7. Carry
      BY <2>1, <2>2, <3>1, <1>CarryFiles DEF Done
    <3>8. SettledIn(segments, accepted, Done, rd'.at, Range(rd'.payloads))
      BY <2>2, <2>3, <3>3, <3>4, <1>MoveSettled, ZenonT(30)
    <3>9. Kept'
      BY <2>1, <2>2, <2>4, <3>7, <3>8, <1>KeptNext, ZenonT(30)
    <3> QED
      BY <3>5, <3>6, <3>9
  <2> QED
    BY <2>5, <2>6
\* The ends of a read: the batch is taken from the cursor, and returned.
<1>ReadEndsKeep. ASSUME IInv, ReadBatch \/ ReadReturn, Order'
                 PROVE  Tip' /\ Reached' /\ InFile' /\ Kept'
  <2> USE <1>ReadEndsKeep
  <2> DEFINE a == active_segment_id
  <2>1. /\ pc \in {"idle", "read"} /\ pc' \in {"idle", "read", "commit"}
        /\ UNCHANGED <<segments, cursor_file, active_segment_id, accepted, exported, quarantined, rotten>>
    BY ZenonT(30) DEF ReadBatch, ReadReturn, disk, memory, history
  <2>2. /\ LastOne(a) /\ End' = End /\ accepted \subseteq Records /\ NoBatch' = NoBatch
        /\ SettledIn(segments, accepted, Done, cursor_file', {})
        /\ SettledIn(segments, accepted, Done, cursor, {}) /\ Before(cursor, End)
    BY <2>1, ZenonT(30) DEF IInv, Tip, End, Kept, Settled, Reached, NoBatch, NoCursor
  <2>3. Tip' /\ InFile'
    BY <2>1, <2>2, ZenonT(30) DEF Tip, InFile, LastOne
  <2>4. Carry
    BY <2>1, <2>2, <1>CarryFiles DEF Done
  <2>5. Range(<<>>) = {}
    BY DEF Range
  <2>6. CASE ReadBatch
    <3>1. /\ pc' = "read" /\ batch = NoBatch /\ batch' = NoBatch /\ cursor' = cursor
          /\ rd'.at = cursor /\ rd'.payloads = <<>>
      BY <2>6 DEF ReadBatch, memory
    <3>2. Reached'
      BY <2>2, <3>1, ZenonT(30) DEF Reached
    <3>3. ~batch'.sent
      BY <3>1 DEF NoBatch
    <3>4. Kept'
      BY <2>1, <2>2, <2>4, <2>5, <3>1, <3>3, <1>KeptNext, ZenonT(30)
    <3> QED
      BY <2>3, <3>2, <3>4
  <2>7. CASE ReadReturn
    <3>1. /\ pc = "read" /\ pc' \in {"idle", "commit"}
          /\ batch' = IF rd.payloads = <<>> THEN NoBatch
                      ELSE [payloads |-> rd.payloads, next_cursor |-> rd.at, sent |-> FALSE]
          /\ cursor' = cursor \/ (cursor' = rd.at /\ rd.payloads = <<>>)
      BY <2>7 DEF ReadReturn, CursorAfterRead
    <3>2. SettledIn(segments, accepted, Done, rd.at, Range(rd.payloads)) /\ Before(rd.at, End)
      BY <3>1 DEF IInv, Kept, Settled, Reached
    <3>3. /\ Before(cursor', End) /\ SettledIn(segments, accepted, Done, cursor', {})
      BY <2>2, <2>5, <3>1, <3>2, ZenonT(30)
    <3>4. /\ ~batch'.sent
          /\ batch' # NoBatch => batch'.next_cursor = rd.at /\ batch'.payloads = rd.payloads
      <4>1. CASE rd.payloads = <<>>
        BY <3>1, <4>1 DEF NoBatch
      <4>2. CASE rd.payloads # <<>>
        BY <3>1, <4>2
      <4> QED
        BY <4>1, <4>2
    <3>5. Reached'
      BY <2>2, <3>1, <3>2, <3>3, <3>4, ZenonT(30) DEF Reached
    <3>6. Kept'
      BY <2>1, <2>2, <2>4, <3>1, <3>2, <3>3, <3>4, <1>KeptNext, ZenonT(30)
    <3> QED
      BY <2>3, <3>5, <3>6
  <2> QED
    BY <2>6, <2>7
<1>BatchKeeps. ASSUME IInv, ExportSucceeds \/ ExportFails \/ CommitBatch, Order'
               PROVE  Tip' /\ Reached' /\ InFile' /\ Kept'
  <2> USE <1>BatchKeeps
  <2>1. /\ UNCHANGED <<segments, cursor_file, active_segment_id, todo, rd, submitted, accepted, quarantined, rotten>>
        /\ exported \subseteq exported'
    BY DEF ExportSucceeds, ExportFails, CommitBatch, disk, memory, history
  <2>2. batch # NoBatch /\ NoBatch' = NoBatch /\ ~NoBatch.sent
    BY DEF ExportSucceeds, ExportFails, CommitBatch, NoBatch, NoCursor
  <2>3. /\ pc \in {"idle", "write"} /\ pc' \in {"idle", "write", "commit"}
        /\ pc' = pc \/ (pc = "idle" /\ pc' = "commit")
    BY <2>2 DEF IInv, Order, CursorsOrdered, ExportSucceeds, ExportFails, CommitBatch
  <2>4. /\ accepted \subseteq Records
        /\ SettledIn(segments, accepted, Done, cursor_file', {})
        /\ SettledIn(segments, accepted, Done, cursor, {}) /\ Before(cursor, End)
        /\ SettledIn(segments, accepted, Done, batch.next_cursor, Range(batch.payloads))
        /\ Before(batch.next_cursor, End)
        /\ batch.sent => Range(batch.payloads) \subseteq exported
    BY <2>1, <2>2, <2>3, ZenonT(30) DEF IInv, Kept, Settled, Reached
  <2>5. LastOne(active_segment_id) /\ End' = End
    BY <2>1, <2>3 DEF IInv, Tip, End, Written
  <2>6. Tip' /\ InFile'
    <3>1. Written' = Written
      BY <2>1 DEF Written
    <3> QED
      BY <2>1, <2>3, <2>5, <3>1 DEF IInv, Tip, InFile, LastOne
  <2>7. Carry
    BY <2>1, <2>4, <1>CarryFiles DEF Done
  <2>8. CASE ExportSucceeds \/ ExportFails
    <3>1. /\ cursor' = cursor
          /\ \/ batch' = NoBatch
             \/ /\ batch' = [batch EXCEPT !.sent = TRUE]
                /\ exported' = exported \cup Range(batch.payloads)
      BY <2>8 DEF ExportSucceeds, ExportFails, memory
    <3>2. /\ batch' # NoBatch =>
               batch'.next_cursor = batch.next_cursor /\ batch'.payloads = batch.payloads
          /\ batch'.sent => Range(batch'.payloads) \subseteq exported'
      <4>1. DOMAIN batch = {"payloads", "next_cursor", "sent"}
        BY DEF IInv, Order, Types
      <4> QED
        BY <2>2, <3>1, <4>1
    <3>3. Reached'
      BY <2>2, <2>3, <2>4, <2>5, <3>1, <3>2 DEF Reached
    <3>4. Kept'
      BY <2>1, <2>3, <2>4, <2>7, <3>1, <3>2, <1>KeptNext
    <3> QED
      BY <2>6, <3>3, <3>4
  <2>9. CASE CommitBatch
    <3>1. pc' = "commit" /\ cursor' = batch.next_cursor /\ batch' = NoBatch /\ batch.sent
      BY <2>9 DEF CommitBatch
    <3>2. SettledIn(segments, accepted, Done, cursor', {})
      BY <2>4, <3>1 DEF SettledIn, Done
    <3>3. Reached'
      BY <2>2, <2>4, <2>5, <3>1, ZenonT(30) DEF Reached
    <3>4. Kept'
      BY <2>1, <2>2, <2>4, <2>7, <3>1, <3>2, <1>KeptNext, ZenonT(30)
    <3> QED
      BY <2>6, <3>3, <3>4
  <2> QED
    BY <2>8, <2>9
\* The segments removed are behind the cursor in memory; what a restart would
\* read again from the older cursor file is covered by what lies ahead.
<1>CommitKeeps. ASSUME IInv, RemoveSegment \/ PersistCursor, Order'
                PROVE  Tip' /\ Reached' /\ InFile' /\ Kept'
  <2> USE <1>CommitKeeps
  <2> DEFINE a == active_segment_id
  <2>1. /\ pc = "commit" /\ pc' \in {"idle", "commit"}
        /\ UNCHANGED <<active_segment_id, cursor, rd, batch, accepted, exported, quarantined, rotten>>
    BY DEF RemoveSegment, PersistCursor, memory, history
  <2>2. /\ LastOne(a) /\ Len(segments[a]) \in Nat /\ a \in Nat
        /\ End \in Cursor /\ End.segment_id = a /\ End.offset = Len(segments[a])
    BY <2>1, <1>EndOK DEF IInv
  <2>3. batch = NoBatch /\ NoBatch' = NoBatch /\ ~NoBatch.sent
    BY <2>1 DEF IInv, Order, CursorsOrdered, NoBatch, NoCursor
  <2>4. /\ FilesOK(segments) /\ cursor \in Cursor /\ cursor_file \in Cursor /\ accepted \subseteq Records
        /\ SettledIn(segments, accepted, Done, cursor, {}) /\ Before(cursor, End)
        /\ Before(cursor_file, cursor) /\ Done' = Done
    BY <2>1, ZenonT(30) DEF IInv, Order, Types, CursorsOrdered, Kept, Settled, Reached, Done
  <2>5. CASE PersistCursor
    <3>1. segments' = segments /\ cursor_file' = cursor /\ pc' = "idle"
      BY <2>5 DEF PersistCursor
    <3>2. Tip' /\ InFile' /\ Reached'
      <4>1. End' = End
        BY <2>1, <3>1 DEF End
      <4> QED
        BY <2>1, <2>2, <2>3, <2>4, <3>1, <4>1, ZenonT(30) DEF Tip, InFile, Reached, LastOne
    <3>3. Kept'
      BY <2>1, <2>3, <2>4, <3>1 DEF Kept, Settled
    <3> QED
      BY <3>2, <3>3
  <2>6. CASE RemoveSegment
    <3> DEFINE id == Min(Consumed)
    <3>1. /\ pc' = "commit" /\ Consumed # {} /\ cursor_file' = cursor_file
          /\ segments' = Restrict(segments, DOMAIN segments \ {id})
      BY <2>6 DEF RemoveSegment
    <3>2. id \in DOMAIN segments /\ id < cursor.segment_id /\ id \in Nat
      <4>1. Consumed \subseteq Nat /\ Consumed \subseteq DOMAIN segments /\ Ranged(DOMAIN segments)
        BY <2>4 DEF Consumed, FilesOK
      <4>2. id \in Consumed
        BY <3>1, <4>1, MinIsLeast, ZenonT(30)
      <4> QED
        BY <4>1, <4>2 DEF Consumed
    <3> HIDE DEF id
    <3>3. /\ FilesOK(segments') /\ DOMAIN segments' = DOMAIN segments \ {id}
          /\ \A s \in DOMAIN segments' : segments'[s] = segments[s]
      BY <2>4, <3>1, <3>2, Removed
    <3>4. a \in DOMAIN segments' /\ LastOne(a)'
      <4>1. id # a
        BY <2>2, <2>4, <3>2 DEF Before, Cursor
      <4> QED
        BY <2>1, <2>2, <3>3, <4>1 DEF LastOne
    <3>5. Tip' /\ InFile' /\ Reached'
      <4>1. End' = End
        BY <2>1, <3>1, <3>3, <3>4, ZenonT(30) DEF End
      <4> QED
        BY <2>1, <2>3, <2>4, <3>1, <3>4, <4>1, ZenonT(30) DEF Tip, InFile, Reached
    <3>6. SettledIn(segments', accepted', Done', cursor, {})
      <4>1. \A r : StoredIn(segments, cursor, r) => StoredIn(segments', cursor, r)
        <5>1. \A s \in DOMAIN segments : s >= cursor.segment_id => s \in DOMAIN segments'
          BY <2>4, <3>2, <3>3 DEF FilesOK, Cursor
        <5> QED
          BY <3>3, <5>1 DEF StoredIn
      <4> QED
        BY <2>1, <2>4, <4>1 DEF SettledIn
    <3>7. SettledIn(segments', accepted', Done', cursor_file, {})
      BY <2>4, <3>3, <3>6, <1>SettledEarlier
    <3>8. Kept'
      BY <2>1, <2>3, <2>4, <3>1, <3>6, <3>7, ZenonT(30) DEF Kept, Settled
    <3> QED
      BY <3>5, <3>8
  <2> QED
    BY <2>5, <2>6
\* A fault that would interrupt a quarantine or a rotation did not happen.
<1>FaultHappened. ASSUME NEW kind, Fault(kind), ~Interrupted'
                  PROVE  kind \notin {"crash_in_quarantine", "error_in_quarantine", "error_in_rotate"}
  <2> USE <1>FaultHappened
  <2>1. <<kind, Cardinality({f \in faults : f[1] = kind})>> \in faults'
    BY DEF Fault
  <2>2. \A f \in faults' : f[1] \notin {"crash_in_quarantine", "error_in_quarantine", "error_in_rotate"}
    BY DEF Interrupted, Happened
  <2> QED
    BY <2>1, <2>2
<1>CrashKeeps. ASSUME IInv, Crash, ~Interrupted', Order'
               PROVE  Tip' /\ Reached' /\ InFile' /\ Kept'
  <2> USE <1>CrashKeeps
  <2> DEFINE a == active_segment_id
  <2>1. /\ pc' = "closed" /\ batch' = NoBatch
        /\ UNCHANGED <<segments, cursor_file, accepted, exported, quarantined, rotten>>
    BY DEF Crash, disk, history
  <2>2. pc \in {"idle", "write", "read", "commit"}
    <3>1. pc # "closed"
      BY DEF Crash
    <3>2. pc # "quarantine"
      <4>1. Fault(CrashKind)
        BY DEF Crash
      <4>2. CrashKind # "crash_in_quarantine"
        BY <4>1, <1>FaultHappened
      <4> QED
        BY <4>2 DEF CrashKind
    <3> QED
      BY <3>1, <3>2, ZenonT(30) DEF IInv, Order, Types
  <2>3. /\ LastOne(a) /\ Len(segments[a]) \in Nat /\ a \in Nat
        /\ pc = "write" => Written \in Nat /\ Written <= Len(segments[a])
        /\ End \in Cursor /\ End.segment_id = a
        /\ End.offset = Len(segments[a]) - (IF pc = "write" THEN Written ELSE 0)
    BY <2>2, <1>EndOK DEF IInv
  <2>4. NoBatch' = NoBatch /\ ~NoBatch.sent
    BY DEF NoBatch, NoCursor
  <2>5. Before(cursor_file, Position(a, Len(segments[a])))
    <3>1. /\ cursor_file \in Cursor /\ cursor \in Cursor /\ Position(a, Len(segments[a])) \in Cursor
          /\ Before(cursor_file, cursor) /\ Before(cursor, End)
      BY <2>2, <2>3 DEF IInv, Order, Types, CursorsOrdered, Reached, Position, Cursor
    <3>2. Before(End, Position(a, Len(segments[a])))
      BY <2>3 DEF Before, Position, Cursor
    <3> QED
      BY <2>3, <3>1, <3>2, BeforeTransitive
  <2>6. Tip'
    <3>1. \E m \in DOMAIN segments : LastOne(m) /\ Before(cursor_file, Position(m, Len(segments[m])))
      BY <2>3, <2>5 DEF LastOne
    <3> QED
      BY <2>1, <3>1, ZenonT(30) DEF Tip, LastOne
  <2>7. Reached' /\ InFile'
    BY <2>1, <2>4 DEF Reached, InFile
  <2>8. Kept'
    BY <2>1, <2>4, ZenonT(30) DEF IInv, Kept, Settled, Done
  <2> QED
    BY <2>6, <2>7, <2>8
<1> SUFFICES ASSUME IInv, [Next]_vars, ~Interrupted'
             PROVE  IInv'
  OBVIOUS
<1>1. Order'
  BY NextOrder DEF IInv
<1>2. ~QuarantineFails /\ ~RotateFails
  BY <1>FaultHappened DEF QuarantineFails, RotateFails
<1>3. CASE UNCHANGED vars
  <2>1. UNCHANGED <<segments, cursor_file, pc, active_segment_id, cursor, todo, rd, batch, submitted,
                    accepted, exported, quarantined, rotten>> /\ NoBatch' = NoBatch
    BY <1>3 DEF vars, disk, memory, history, NoBatch, NoCursor
  <2>2. Tip' /\ InFile'
    BY <2>1, ZenonT(30) DEF IInv, Tip, InFile, LastOne, Written
  <2>3. Reached'
    BY <2>1, ZenonT(30) DEF IInv, Reached, End, Written
  <2>4. Kept'
    BY <2>1, ZenonT(30) DEF IInv, Kept, Settled, Done
  <2> QED
    BY <1>1, <2>2, <2>3, <2>4 DEF IInv
<1>4. CASE System
  <2>1. Tip' /\ Reached' /\ InFile' /\ Kept'
    BY <1>1, <1>4, <1>OpenKeeps, <1>EnqueueKeeps, <1>WriteKeeps, <1>ReturnKeeps, <1>ReadKeeps, <1>QuarantineKeeps,
       <1>AdvanceKeeps, <1>ReadEndsKeep, <1>BatchKeeps, <1>CommitKeeps
       DEF System
  <2> QED
    BY <1>1, <2>1 DEF IInv
<1>5. CASE Environment
  <2>1. Tip' /\ Reached' /\ InFile' /\ Kept'
    BY <1>1, <1>2, <1>5, <1>CrashKeeps, <1>ErrorKeeps, <1>RotKeeps DEF Environment
  <2> QED
    BY <1>1, <2>1 DEF IInv
<1> QED
  BY <1>3, <1>4, <1>5 DEF Next

LEMMA Invariance == Spec => [](Interrupted \/ IInv)
<1>1. (Interrupted \/ IInv) /\ [Next]_vars => (Interrupted \/ IInv)'
  BY NextIInv, FaultsStay
<1> QED
  BY <1>1, InitIInv, PTL DEF Spec

\* An accepted record that was not itself damaged is exported, quarantined or
\* still ahead of the cursor of a restart, through crashes anywhere but in a
\* quarantine, failing writes and commits, and damage to any number of records.
THEOREM AcceptedIsKept == Spec => []AcceptedKept
<1>1. IInv => AcceptedNeverLost
  <2> SUFFICES ASSUME IInv
               PROVE  AcceptedNeverLost
    OBVIOUS
  <2>1. Settled(cursor_file, {}) /\ (cursor_file = NoCursor => accepted = {})
    BY ZenonT(30) DEF IInv, Kept, Order, Fresh
  <2>2. ASSUME cursor_file # NoCursor
        PROVE  RecoveryCursor = cursor_file
    BY <2>2 DEF RecoveryCursor
  <2>3. CASE accepted = {}
    BY <2>3 DEF AcceptedNeverLost
  <2>4. CASE RecoveryCursor = cursor_file
    BY <2>1, <2>4 DEF AcceptedNeverLost, Settled, SettledIn, StoredIn, Stored, StoredAfter, Done
  <2> QED
    BY <2>1, <2>2, <2>3, <2>4
<1>2. Interrupted \/ IInv => AcceptedKept
  BY <1>1 DEF AcceptedKept
<1> QED
  BY <1>2, Invariance, PTL

-----------------------------------------------------------------------------
(***************************************************************************)
(* The byte counters and the quota.  CountersExact speaks of the moments   *)
(* between operations; Counting also says what the counters are in the     *)
(* middle of one.  The files' total is the number of their bytes, so a     *)
(* write adds one and a removal subtracts the file's length.               *)
(***************************************************************************)
ActiveLength ==
  IF active_segment_id \in DOMAIN segments THEN Len(segments[active_segment_id]) ELSE 0

Counters ==
  queued_bytes \in Nat /\ active_segment_bytes \in Nat /\ IsFiniteSet(FileBytes(segments))

\* queued_bytes, also in the middle of an operation.
QueueCounted ==
  \/ Happened({"error_in_write"})
  \/ /\ total_segment_bytes <= max_queue_bytes
     /\ pc \in {"idle", "read", "quarantine", "commit"} => queued_bytes = total_segment_bytes
     /\ pc = "write" =>
          /\ total_segment_bytes + Len(todo) = queued_bytes + storage_bytes_for_payload(submitted)
          /\ queued_bytes + storage_bytes_for_payload(submitted) <= max_queue_bytes

\* active_segment_bytes, the same.
SegmentCounted ==
  \/ Happened({"error_in_write", "error_in_quarantine"})
  \/ /\ pc \in {"idle", "read", "commit"} => active_segment_bytes = ActiveLength
     /\ pc = "quarantine" /\ rd.at.segment_id < active_segment_id =>
          active_segment_bytes = ActiveLength
     /\ pc = "write" =>
          ActiveLength + Len(todo) = active_segment_bytes + storage_bytes_for_payload(submitted)

Counting == Below /\ Counters /\ QueueCounted /\ SegmentCounted

LEMMA InitCount == Init => Counting
<1> SUFFICES ASSUME Init
             PROVE  Counting
  OBVIOUS
<1>1. pc = "closed" /\ queued_bytes = 0 /\ active_segment_bytes = 0 /\ DOMAIN segments = {}
  BY DEF Init
<1>2. FileBytes(segments) = {}
  BY <1>1 DEF FileBytes
<1>3. IsFiniteSet(FileBytes(segments)) /\ total_segment_bytes = 0
  BY <1>2, FS_EmptySet, ZenonT(30) DEF total_segment_bytes
<1> QED
  BY <1>1, <1>3, QueueAssumption DEF Counting, Below, Counters, QueueCounted, SegmentCounted

LEMMA NextCount == Order /\ Counting /\ Below' /\ [Next]_vars => Counting'
<1>ByteIs. ASSUME NEW g, NEW x
           PROVE  x \in FileBytes(g) <=>
                    \E s \in DOMAIN g : \E i \in 1..Len(g[s]) : x = <<s, i>>
  <2>1. x \in FileBytes(g) <=> \E s \in DOMAIN g : x \in {s} \X (1..Len(g[s]))
    BY ZenonT(30) DEF FileBytes
  <2>2. \A s, S : x \in {s} \X S <=> \E i \in S : x = <<s, i>>
    OBVIOUS
  <2> QED
    BY <2>1, <2>2, ZenonT(30)
<1>BytesLonger. ASSUME NEW g, NEW h, NEW id \in DOMAIN h, NEW n \in Nat, DOMAIN g = DOMAIN h,
                       Len(h[id]) = n, Len(g[id]) = n + 1, \A s \in DOMAIN h : s # id => g[s] = h[s]
                PROVE  FileBytes(g) = FileBytes(h) \cup {<<id, n + 1>>} /\ <<id, n + 1>> \notin FileBytes(h)
  <2> USE <1>BytesLonger
  <2>1. 1..Len(g[id]) = (1..n) \cup {n + 1} /\ n + 1 \notin 1..n
    OBVIOUS
  <2>2. ASSUME NEW x
        PROVE  x \in FileBytes(g) <=> x \in FileBytes(h) \cup {<<id, n + 1>>}
    BY <2>1, <1>ByteIs
  <2>3. <<id, n + 1>> \notin FileBytes(h)
    BY <2>1, <1>ByteIs
  <2> QED
    BY <2>2, <2>3, ZenonT(30)
<1>BytesWithout. ASSUME NEW g, NEW h, NEW id \in DOMAIN h, DOMAIN g = DOMAIN h \ {id},
                        \A s \in DOMAIN g : g[s] = h[s]
                 PROVE  LET B == {id} \X (1..Len(h[id]))
                        IN  FileBytes(h) = FileBytes(g) \cup B /\ FileBytes(g) \cap B = {}
  <2> USE <1>BytesWithout
  <2> DEFINE B == {id} \X (1..Len(h[id]))
  <2>1. ASSUME NEW x
        PROVE  /\ x \in FileBytes(h) <=> x \in FileBytes(g) \cup B
               /\ ~(x \in FileBytes(g) /\ x \in B)
    <3>1. x \in FileBytes(g) <=> \E s \in DOMAIN g : \E i \in 1..Len(g[s]) : x = <<s, i>>
      BY <1>ByteIs
    <3>2. x \in FileBytes(h) <=> \E s \in DOMAIN h : \E i \in 1..Len(h[s]) : x = <<s, i>>
      BY <1>ByteIs
    <3>3. x \in B <=> \E i \in 1..Len(h[id]) : x = <<id, i>>
      OBVIOUS
    <3> HIDE DEF B
    <3>4. x \in FileBytes(h) => x \in FileBytes(g) \cup B
      BY <3>1, <3>2, <3>3
    <3>5. x \in FileBytes(g) \cup B => x \in FileBytes(h)
      BY <3>1, <3>2, <3>3
    <3>6. ~(x \in FileBytes(g) /\ x \in B)
      BY <3>1, <3>3
    <3> QED
      BY <3>4, <3>5, <3>6
  <2> HIDE DEF B
  <2>2. FileBytes(h) = FileBytes(g) \cup B /\ FileBytes(g) \cap B = {}
    BY <2>1, ZenonT(30)
  <2> QED
    BY <2>2 DEF B
<1>CreatedBytes. ASSUME FilesOK(segments), NEW id \in Nat \ {0}, id \notin DOMAIN segments
                 PROVE  FileBytes(Create(id)) = FileBytes(segments)
  <2> USE <1>CreatedBytes
  <2> DEFINE g == Create(id)
  <2>1. /\ DOMAIN g = DOMAIN segments \cup {id} /\ g[id] = <<>>
        /\ \A s \in DOMAIN segments : g[s] = segments[s]
    BY Created, ZenonT(30)
  <2> HIDE DEF g
  <2>2. 1..Len(g[id]) = {}
    BY <2>1
  <2>3. \A x : x \in FileBytes(g) <=> x \in FileBytes(segments)
    BY <2>1, <2>2, ZenonT(30) DEF FileBytes
  <2> QED
    BY <2>3, ZenonT(30) DEF g
<1>SameBytes. ASSUME NEW g, NEW h, DOMAIN g = DOMAIN h, \A s \in DOMAIN g : Len(g[s]) = Len(h[s])
              PROVE  FileBytes(g) = FileBytes(h)
  <2> USE <1>SameBytes
  <2>1. \A x : x \in FileBytes(g) <=> x \in FileBytes(h)
    BY ZenonT(30) DEF FileBytes
  <2> QED
    BY <2>1, ZenonT(30)
<1>AppendedBytes. ASSUME NEW g, NEW h, NEW id \in DOMAIN h, Len(h[id]) \in Nat, DOMAIN g = DOMAIN h,
                         Len(g[id]) = Len(h[id]) + 1, \A s \in DOMAIN h : s # id => g[s] = h[s],
                         IsFiniteSet(FileBytes(h))
                  PROVE  /\ IsFiniteSet(FileBytes(g))
                         /\ Cardinality(FileBytes(g)) = Cardinality(FileBytes(h)) + 1
  <2> DEFINE x == <<id, Len(h[id]) + 1>>
  <2>1. FileBytes(g) = FileBytes(h) \cup {x} /\ x \notin FileBytes(h)
    BY <1>AppendedBytes, <1>BytesLonger
  <2>2. IsFiniteSet(FileBytes(h))
    BY <1>AppendedBytes, ZenonT(30)
  <2> HIDE DEF x
  <2> QED
    BY <2>1, <2>2, FS_AddElement, ZenonT(30)
<1>RemovedBytes. ASSUME NEW g, NEW h, NEW id \in DOMAIN h, Len(h[id]) \in Nat, DOMAIN g = DOMAIN h \ {id},
                        \A s \in DOMAIN g : g[s] = h[s], IsFiniteSet(FileBytes(h))
                 PROVE  /\ IsFiniteSet(FileBytes(g))
                        /\ Cardinality(FileBytes(g)) \in Nat
                        /\ Cardinality(FileBytes(h)) = Cardinality(FileBytes(g)) + Len(h[id])
  <2> USE <1>RemovedBytes
  <2> DEFINE n == Len(h[id])
             B == {id} \X (1..n)
  <2>1. n \in Nat
    OBVIOUS
  <2>3. IsFiniteSet(B) /\ Cardinality(B) = n
    <3>1. IsFiniteSet(1..n) /\ Cardinality(1..n) = n
      <4>1. IsFiniteSet(1..n) /\ Cardinality(1..n) = IF 1 > n THEN 0 ELSE n - 1 + 1
        BY <2>1, FS_Interval, 1 \in Int, n \in Int, ZenonT(30)
      <4> QED
        BY <2>1, <4>1
    <3>2. IsFiniteSet({id}) /\ Cardinality({id}) = 1
      BY FS_Singleton, ZenonT(30)
    <3>3. IsFiniteSet(B) /\ Cardinality(B) = Cardinality({id}) * Cardinality(1..n)
      BY <3>1, <3>2, FS_Product, ZenonT(30)
    <3> QED
      BY <2>1, <3>1, <3>2, <3>3
  <2>6. FileBytes(h) = FileBytes(g) \cup B /\ FileBytes(g) \cap B = {}
    BY <1>BytesWithout
  <2> HIDE DEF B
  <2>7. IsFiniteSet(FileBytes(g))
    BY <2>6, FS_Subset, ZenonT(30)
  <2>8. Cardinality(FileBytes(g)) \in Nat
    BY <2>7, FS_CardinalityType, ZenonT(30)
  <2>9. Cardinality(FileBytes(h)) = Cardinality(FileBytes(g)) + Cardinality(B) - Cardinality({})
    <3>1. Cardinality(FileBytes(g) \cup B)
            = Cardinality(FileBytes(g)) + Cardinality(B) - Cardinality(FileBytes(g) \cap B)
      BY <2>3, <2>7, FS_Union, ZenonT(30)
    <3> QED
      BY <2>6, <3>1, ZenonT(30)
  <2>10. Cardinality({}) = 0
    BY FS_EmptySet, ZenonT(30)
  <2> QED
    BY <2>1, <2>3, <2>7, <2>8, <2>9, <2>10
<1>FaultRecorded. ASSUME NEW kind, Fault(kind), NEW K, kind \in K
                  PROVE  Happened(K)'
  <2> USE <1>FaultRecorded
  <2>1. <<kind, Cardinality({f \in faults : f[1] = kind})>> \in faults'
    BY DEF Fault
  <2> QED
    BY <2>1 DEF Happened
\* A step that changes no file and leaves the counters alone.
<1>SameCount. ASSUME Counting, Below', faults \subseteq faults',
                     UNCHANGED <<segments, active_segment_id, active_segment_bytes, queued_bytes>>,
                     pc \in {"idle", "read", "commit"}, pc' \in {"idle", "read", "commit"}
              PROVE  Counting'
  <2> USE <1>SameCount
  <2>1. Counters'
    BY DEF Counting, Counters
  <2>2. QueueCounted'
    BY DEF Counting, QueueCounted, Happened, total_segment_bytes
  <2>3. SegmentCounted'
    BY DEF Counting, SegmentCounted, Happened, ActiveLength
  <2> QED
    BY <2>1, <2>2, <2>3 DEF Counting
<1>OpenCount. ASSUME Order, Counting, Below', Open
              PROVE  Counting'
  <2> USE <1>OpenCount
  <2> DEFINE m == LastSegment
  <2>1. /\ pc = "closed" /\ pc' = "idle" /\ active_segment_id' = m
        /\ segments' = IF m \in DOMAIN segments THEN segments ELSE Create(m)
        /\ active_segment_bytes' = Len(segments'[m]) /\ queued_bytes' = total_segment_bytes
        /\ UNCHANGED <<batch, faults>>
    BY DEF Open, OpenAt
  <2>2. batch = NoBatch /\ NoBatch' = NoBatch
    BY <2>1 DEF Order, CursorsOrdered, NoBatch, NoCursor
  <2>3. /\ m \in DOMAIN segments' /\ \A s \in DOMAIN segments' : s <= m
        /\ Len(segments'[m]) \in Nat
        /\ FileBytes(segments') = FileBytes(segments)
    <3>1. CASE m \in DOMAIN segments
      <4>1. LastOne(m) /\ Len(segments[m]) \in Nat
        BY <3>1, LastSegmentIsLast, SeqIs DEF Order, Types, FilesOK
      <4> QED
        BY <2>1, <3>1, <4>1 DEF LastOne
    <3>2. CASE m \notin DOMAIN segments
      <4>1. DOMAIN segments = {} /\ m = 1
        BY <3>2, LastSegmentIsLast DEF Order, LastOne
      <4>2. segments' = Create(1) /\ FilesOK(segments) /\ 1 \in Nat \ {0}
        BY <2>1, <3>2, <4>1 DEF Order, Types
      <4>3. DOMAIN segments' = {1} /\ segments'[1] = <<>>
        BY <4>1, <4>2, Created
      <4>4. FileBytes(segments') = FileBytes(segments)
        BY <4>1, <4>2, <1>CreatedBytes
      <4> QED
        BY <4>1, <4>3, <4>4
    <3> QED
      BY <3>1, <3>2
  <2> HIDE DEF m
  <2>5. total_segment_bytes \in Nat
    BY FS_CardinalityType DEF Counting, Counters, total_segment_bytes
  <2>6. Counters'
    BY <2>1, <2>3, <2>5 DEF Counting, Counters
  <2>7. QueueCounted'
    BY <2>1, <2>3 DEF Counting, QueueCounted, Happened, total_segment_bytes
  <2>8. SegmentCounted'
    BY <2>1, <2>3 DEF SegmentCounted, ActiveLength
  <2> QED
    BY <2>6, <2>7, <2>8 DEF Counting
<1>EnqueueCount. ASSUME Order, Counting, Below', Enqueue
                 PROVE  Counting'
  <2> USE <1>EnqueueCount
  <2> DEFINE a == active_segment_id
             z == storage_bytes_for_payload(submitted + 1)
  <2>1. /\ pc = "idle" /\ pc' = "write" /\ submitted + 1 \in Records /\ submitted' = submitted + 1
        /\ queued_bytes + z <= max_queue_bytes /\ todo' = Frame(submitted + 1)
        /\ UNCHANGED <<queued_bytes, batch, cursor, rd, faults>>
    BY Sizes DEF Enqueue, WithinQuota, Order, Types, Records
  <2>2. z \in Nat /\ z' = storage_bytes_for_payload(submitted' + 1) /\ Len(todo') = z
        /\ storage_bytes_for_payload(submitted)' = z
    <3>1. z \in Nat
      BY <2>1, Sizes
    <3>2. Len(Frame(submitted + 1)) = z
      BY <3>1 DEF Frame
    <3> QED
      BY <2>1, <3>1, <3>2
  <2>3. a \in Nat \ {0} /\ a + 1 \in Nat \ {0} /\ FilesOK(segments)
        /\ (\A s \in DOMAIN segments : s <= a) /\ a + 1 \notin DOMAIN segments
    BY <2>1 DEF Order, CursorsOrdered, Types, FilesOK, Counting, Below
  <2>4. /\ active_segment_id' >= a /\ active_segment_id' \in Nat /\ active_segment_bytes' \in Nat
        /\ active_segment_id' \in DOMAIN segments'
        /\ \A s \in DOMAIN segments' : s <= active_segment_id'
        /\ FileBytes(segments') = FileBytes(segments)
        /\ active_segment_bytes = ActiveLength => active_segment_bytes' = ActiveLength'
    <3>1. CASE MustRotate(submitted + 1)
      <4>1. active_segment_id' = a + 1 /\ active_segment_bytes' = 0 /\ segments' = Create(a + 1)
        BY <3>1 DEF Enqueue
      <4>2. DOMAIN segments' = DOMAIN segments \cup {a + 1} /\ segments'[a + 1] = <<>>
        BY <2>3, <4>1, Created, ZenonT(30)
      <4>3. FileBytes(segments') = FileBytes(segments)
        BY <2>3, <4>1, <1>CreatedBytes
      <4> QED
        BY <2>3, <4>1, <4>2, <4>3 DEF ActiveLength, FilesOK
    <3>2. CASE ~MustRotate(submitted + 1) /\ a \in DOMAIN segments
      <4>1. UNCHANGED <<active_segment_id, active_segment_bytes, segments>>
        BY <3>2 DEF Enqueue
      <4> QED
        BY <2>3, <3>2, <4>1 DEF ActiveLength, Counting, Counters, FilesOK
    <3>3. CASE ~MustRotate(submitted + 1) /\ a \notin DOMAIN segments
      <4>1. UNCHANGED <<active_segment_id, active_segment_bytes>> /\ segments' = Create(a)
        BY <3>3 DEF Enqueue
      <4>2. DOMAIN segments' = DOMAIN segments \cup {a} /\ segments'[a] = <<>>
        BY <2>3, <4>1, Created, ZenonT(30)
      <4>3. FileBytes(segments') = FileBytes(segments)
        BY <2>3, <3>3, <4>1, <1>CreatedBytes
      <4> QED
        BY <2>3, <3>3, <4>1, <4>2, <4>3 DEF ActiveLength, Counting, Counters, FilesOK
    <3> QED
      BY <3>1, <3>2, <3>3
  <2> HIDE DEF a, z
  <2>6. Counters'
    BY <2>1, <2>4 DEF Counting, Counters
  <2>7. QueueCounted'
    <3>1. total_segment_bytes' = total_segment_bytes /\ total_segment_bytes \in Nat
      BY <2>4, FS_CardinalityType DEF Counting, Counters, total_segment_bytes
    <3> QED
      BY <2>1, <2>2, <3>1 DEF Counting, Counters, QueueCounted, Happened
  <2>8. SegmentCounted'
    BY <2>1, <2>2, <2>4 DEF Counting, SegmentCounted, Happened
  <2> QED
    BY <2>6, <2>7, <2>8 DEF Counting
<1>WriteCount. ASSUME Order, Counting, Below', WriteCell
               PROVE  Counting'
  <2> USE <1>WriteCount
  <2> DEFINE a == active_segment_id
             f == segments[a]
             cell == <<submitted, Written + 1>>
  <2>1. /\ a \in DOMAIN segments /\ f \in Seq(Cell) /\ cell \in Cell
        /\ segments' = [segments EXCEPT ![a] = Append(f, cell)]
    BY Written1
  <2>2. /\ pc = "write" /\ todo # <<>> /\ todo' = Tail(todo)
        /\ UNCHANGED <<pc, active_segment_id, active_segment_bytes, queued_bytes, cursor, rd, batch,
                       submitted, faults>>
    BY DEF WriteCell, memory, history
  <2>3. /\ DOMAIN segments' = DOMAIN segments
        /\ \A s \in DOMAIN segments : s # a => segments'[s] = segments[s]
        /\ segments'[a] = Append(f, cell)
    BY <2>1 DEF Order, Types, FilesOK
  <2>4. Len(f) \in Nat /\ Len(segments'[a]) = Len(f) + 1
    <3> HIDE DEF cell, f
    <3> QED
      BY <2>1, <2>3, AppendIs, SeqIs
  <2>5. Len(todo) \in Nat /\ Len(todo) = Len(todo') + 1 /\ Len(todo') \in Nat
    BY <2>2, TailIs, SeqIs DEF Order, Types
  <2> HIDE DEF cell
  <2>6. /\ IsFiniteSet(FileBytes(segments')) /\ total_segment_bytes \in Nat
        /\ total_segment_bytes' = total_segment_bytes + 1
    <3>1. IsFiniteSet(FileBytes(segments)) /\ total_segment_bytes \in Nat
      BY FS_CardinalityType DEF Counting, Counters, total_segment_bytes
    <3> QED
      BY <2>1, <2>3, <2>4, <3>1, <1>AppendedBytes, ZenonT(30) DEF total_segment_bytes
  <2>8. Counters'
    BY <2>2, <2>6 DEF Counting, Counters
  <2>9. QueueCounted'
    <3>1. storage_bytes_for_payload(submitted) \in Nat
      BY <2>2, Sizes DEF Order, Writing
    <3>2. storage_bytes_for_payload(submitted)' = storage_bytes_for_payload(submitted)
      BY <2>2
    <3>3. Happened({"error_in_write"})' = Happened({"error_in_write"})
      BY <2>2 DEF Happened
    <3> QED
      BY <2>2, <2>5, <2>6, <3>1, <3>2, <3>3, QueueAssumption DEF Counting, Counters, QueueCounted
  <2>10. SegmentCounted'
    <3>1. ActiveLength = Len(f) /\ ActiveLength' = Len(f) + 1
      BY <2>1, <2>2, <2>3, <2>4 DEF ActiveLength
    <3>2. storage_bytes_for_payload(submitted)' = storage_bytes_for_payload(submitted)
      BY <2>2
    <3>3. Happened({"error_in_write", "error_in_quarantine"})' = Happened({"error_in_write", "error_in_quarantine"})
      BY <2>2 DEF Happened
    <3> QED
      BY <2>2, <2>4, <2>5, <3>1, <3>2, <3>3 DEF Counting, Counters, SegmentCounted
  <2> QED
    BY <2>8, <2>9, <2>10 DEF Counting
<1>ReturnCount. ASSUME Order, Counting, Below', EnqueueReturn
                PROVE  Counting'
  <2> USE <1>ReturnCount
  <2>1. /\ pc = "write" /\ pc' = "idle" /\ todo = <<>>
        /\ active_segment_bytes' = active_segment_bytes + storage_bytes_for_payload(submitted)
        /\ queued_bytes' = queued_bytes + storage_bytes_for_payload(submitted)
        /\ UNCHANGED <<segments, active_segment_id, cursor, rd, batch, faults>>
    BY DEF EnqueueReturn, disk
  <2>2. storage_bytes_for_payload(submitted) \in Nat /\ Len(todo) = 0
    BY <2>1, Sizes DEF Order, Writing
  <2>4. Counters'
    BY <2>1, <2>2 DEF Counting, Counters
  <2>5. QueueCounted'
    <3>1. total_segment_bytes' = total_segment_bytes /\ total_segment_bytes \in Nat
      BY <2>1, FS_CardinalityType DEF Counting, Counters, total_segment_bytes
    <3> QED
      BY <2>1, <2>2, <3>1 DEF Counting, QueueCounted, Happened
  <2>6. SegmentCounted'
    <3>1. active_segment_id \in DOMAIN segments /\ Len(segments[active_segment_id]) \in Nat
      BY <2>1, SeqIs DEF Order, Writing, Types, FilesOK
    <3>2. ActiveLength' = ActiveLength /\ ActiveLength \in Nat
      BY <2>1, <3>1 DEF ActiveLength
    <3> QED
      BY <2>1, <2>2, <3>2 DEF Counting, SegmentCounted, Happened
  <2> QED
    BY <2>4, <2>5, <2>6 DEF Counting
\* What was read lies in a file, so no later than the active segment.
<1>ReadCount. ASSUME Order, Counting, Below', ReadBatch \/ ReadRecord \/ ReadMove \/ ReadReturn
              PROVE  Counting'
  <2> USE <1>ReadCount
  <2>1. /\ pc \in {"idle", "read", "commit"} /\ pc' \in {"idle", "read", "commit"}
        /\ UNCHANGED <<segments, active_segment_id, active_segment_bytes, queued_bytes, faults>>
    BY DEF ReadBatch, ReadRecord, ReadMove, ReadReturn, disk, memory
  <2>2. /\ pc # "closed" /\ (\A s \in DOMAIN segments : s <= active_segment_id)
        /\ NoBatch' = NoBatch /\ DOMAIN segments' = DOMAIN segments
    BY <2>1 DEF Counting, Below, NoBatch, NoCursor
  <2> QED
    BY <2>1, <1>SameCount
\* Taking a file off the queue takes its bytes off the counter.
<1>TakenCount. ASSUME FilesOK(segments), Counting, pc \in {"idle", "read", "quarantine", "commit"},
                      pc' \in {"idle", "read", "quarantine", "commit"}, NEW id \in DOMAIN segments,
                      segments' = Restrict(segments, DOMAIN segments \ {id}),
                      queued_bytes' = saturating_sub(queued_bytes, Len(segments[id])),
                      UNCHANGED <<active_segment_bytes, faults>>
               PROVE  Counters' /\ QueueCounted'
  <2> USE <1>TakenCount
  <2>1. DOMAIN segments' = DOMAIN segments \ {id} /\ \A s \in DOMAIN segments' : segments'[s] = segments[s]
    BY Removed
  <2>2. Len(segments[id]) \in Nat /\ IsFiniteSet(FileBytes(segments))
    BY SeqIs DEF FilesOK, Counting, Counters
  <2>3. /\ IsFiniteSet(FileBytes(segments'))
        /\ total_segment_bytes' \in Nat
        /\ total_segment_bytes = total_segment_bytes' + Len(segments[id])
    <3>1. \A g : DOMAIN g = DOMAIN segments \ {id} /\ (\A s \in DOMAIN g : g[s] = segments[s]) =>
            /\ IsFiniteSet(FileBytes(g)) /\ Cardinality(FileBytes(g)) \in Nat
            /\ Cardinality(FileBytes(segments)) = Cardinality(FileBytes(g)) + Len(segments[id])
      BY <2>2, <1>RemovedBytes
    <3> QED
      BY <2>1, <3>1, ZenonT(30) DEF total_segment_bytes
  <2>4. queued_bytes' \in Nat
        /\ (queued_bytes = total_segment_bytes => queued_bytes' = total_segment_bytes')
    BY <2>2, <2>3 DEF Counting, Counters, saturating_sub
  <2>5. Counters'
    BY <2>3, <2>4 DEF Counting, Counters
  <2>6. QueueCounted'
    BY <2>2, <2>3, <2>4, QueueAssumption DEF Counting, QueueCounted, Happened
  <2> QED
    BY <2>5, <2>6
<1>QuarantineCount. ASSUME Order, Counting, Below', QuarantineSegment
                    PROVE  Counting'
  <2> USE <1>QuarantineCount
  <2> DEFINE id == rd.at.segment_id
  <2>1. /\ pc = "read" /\ pc' = "quarantine" /\ read_step_at(rd.at).kind = "corrupt"
        /\ segments' = Restrict(segments, DOMAIN segments \ {id})
        /\ queued_bytes' = saturating_sub(queued_bytes, Len(segments[id]))
        /\ UNCHANGED <<active_segment_id, active_segment_bytes, rd, batch, faults>>
    BY ZenonT(30) DEF QuarantineSegment
  <2>2. id \in DOMAIN segments /\ FilesOK(segments) /\ batch = NoBatch /\ NoBatch' = NoBatch
    BY <2>1, Reads, ZenonT(30) DEF Order, Types, CursorsOrdered, NoBatch, NoCursor
  <2>3. DOMAIN segments' = DOMAIN segments \ {id} /\ \A s \in DOMAIN segments' : segments'[s] = segments[s]
    BY <2>1, <2>2, Removed
  <2>4. Counters' /\ QueueCounted'
    <3> HIDE DEF id
    <3>1. /\ pc \in {"idle", "read", "quarantine", "commit"} /\ pc' \in {"idle", "read", "quarantine", "commit"}
          /\ UNCHANGED <<active_segment_bytes, faults>>
      BY <2>1, ZenonT(30)
    <3> QED
      BY <2>1, <2>2, <3>1, <1>TakenCount, ZenonT(30)
  <2>6. SegmentCounted'
    <3>1. id < active_segment_id => ActiveLength' = ActiveLength
      <4>1. active_segment_id \in Nat /\ id \in Nat /\ active_segment_id' = active_segment_id
        BY <2>1, <2>2 DEF Order, Types, FilesOK
      <4> HIDE DEF id
      <4> QED
        BY <2>3, <4>1 DEF ActiveLength
    <3> QED
      BY <2>1, <3>1, ZenonT(30) DEF Counting, SegmentCounted, Happened
  <2> QED
    BY <2>4, <2>6 DEF Counting
<1>AdvanceCount. ASSUME Order, Counting, Below', QuarantineAdvance
                 PROVE  Counting'
  <2> USE <1>AdvanceCount
  <2> DEFINE id == rd.at.segment_id
             a == active_segment_id
  <2>1. /\ pc = "quarantine" /\ pc' = "read" /\ id <= a /\ id \notin DOMAIN segments
        /\ (\A s \in DOMAIN segments : s <= a)
        /\ UNCHANGED <<queued_bytes, cursor, batch, faults>> /\ batch = NoBatch /\ NoBatch' = NoBatch
    BY DEF QuarantineAdvance, Counting, Below, Order, CursorsOrdered, NoBatch, NoCursor
  <2>2. /\ FilesOK(segments) /\ a \in Nat /\ id \in Nat /\ id + 1 \in Nat \ {0} /\ rd.at \in Cursor
    <3>1. FilesOK(segments) /\ a \in Nat
      BY ZenonT(30) DEF Order, Types
    <3>2. rd.at \in Cursor
      BY DEF Order, Types
    <3>3. id \in Nat /\ id + 1 \in Nat \ {0}
      BY <3>2 DEF Cursor
    <3> QED
      BY <3>1, <3>2, <3>3, ZenonT(30)
  <2>3. CASE id >= a
    <3>1. /\ active_segment_id' = a + 1 /\ active_segment_bytes' = 0 /\ segments' = Create(a + 1)
          /\ rd'.at.segment_id = a + 1
      <4>1. id = a
        BY <2>1, <2>2, <2>3
      <4>2. rd' = [rd EXCEPT !.at = [segment_id |-> id + 1, offset |-> 0], !.should_commit = TRUE]
        BY <2>3 DEF QuarantineAdvance
      <4>3. rd'.at = [segment_id |-> id + 1, offset |-> 0]
        BY <4>2 DEF Order, Types
      <4> QED
        BY <2>3, <4>1, <4>3 DEF QuarantineAdvance
    <3>2. a + 1 \notin DOMAIN segments /\ a + 1 \in Nat \ {0}
      BY <2>1, <2>2 DEF FilesOK
    <3>3. DOMAIN segments' = DOMAIN segments \cup {a + 1} /\ segments'[a + 1] = <<>>
      BY <2>2, <3>1, <3>2, Created, ZenonT(30)
    <3>4. FileBytes(segments') = FileBytes(segments)
      BY <2>2, <3>1, <3>2, <1>CreatedBytes
    <3>6. Counters'
      BY <2>1, <3>1, <3>4 DEF Counting, Counters
    <3>7. QueueCounted'
      BY <2>1, <3>4, ZenonT(30) DEF Counting, QueueCounted, Happened, total_segment_bytes
    <3>8. SegmentCounted'
      BY <2>1, <3>1, <3>3 DEF SegmentCounted, ActiveLength
    <3> QED
      BY <3>6, <3>7, <3>8 DEF Counting
  <2>4. CASE ~(id >= a)
    <3>1. /\ UNCHANGED <<segments, active_segment_id, active_segment_bytes>> /\ id < a
          /\ rd'.at = rd.at \/ rd'.at.segment_id \in DOMAIN segments
      <4> DEFINE n == next_cursor_after(id)
      <4>1. n.kind = "empty" \/ n.next.segment_id \in DOMAIN segments
        BY <2>2, Moves DEF Order
      <4> HIDE DEF n
      <4>2. /\ UNCHANGED <<segments, active_segment_id, active_segment_bytes>>
            /\ rd' = IF n.kind = "empty" THEN rd
                     ELSE [rd EXCEPT !.at = n.next, !.should_commit = TRUE]
        BY <2>4 DEF QuarantineAdvance, n
      <4>3. n.kind # "empty" => rd'.at = n.next
        BY <4>2 DEF Order, Types
      <4> QED
        BY <2>2, <2>4, <4>1, <4>2, <4>3
    <3>3. Counters'
      BY <2>1, <3>1 DEF Counting, Counters
    <3>4. QueueCounted'
      BY <2>1, <3>1 DEF Counting, QueueCounted, Happened, total_segment_bytes
    <3>5. SegmentCounted'
      BY <2>1, <3>1 DEF Counting, SegmentCounted, Happened, ActiveLength
    <3> QED
      BY <3>3, <3>4, <3>5 DEF Counting
  <2> QED
    BY <2>3, <2>4
\* The lock is not held while the batch is exported: an enqueue may be under way.
<1>ExportCount. ASSUME Order, Counting, Below', ExportSucceeds \/ ExportFails
                PROVE  Counting'
  <2> USE <1>ExportCount
  <2>1. /\ UNCHANGED <<segments, pc, active_segment_id, active_segment_bytes, queued_bytes, cursor,
                       todo, rd, submitted, faults>>
        /\ batch # NoBatch /\ NoBatch' = NoBatch
        /\ batch' = NoBatch \/ batch'.next_cursor = batch.next_cursor
    BY DEF ExportSucceeds, ExportFails, disk, memory, history, Order, Types, NoBatch, NoCursor
  <2>3. Counters'
    BY <2>1 DEF Counting, Counters
  <2>4. QueueCounted'
    BY <2>1 DEF Counting, QueueCounted, Happened, total_segment_bytes
  <2>5. SegmentCounted'
    BY <2>1 DEF Counting, SegmentCounted, Happened, ActiveLength
  <2> QED
    BY <2>3, <2>4, <2>5 DEF Counting
<1>CommitCount. ASSUME Order, Counting, Below', CommitBatch \/ RemoveSegment \/ PersistCursor
                PROVE  Counting'
  <2> USE <1>CommitCount
  <2>0. NoBatch' = NoBatch /\ NoBatch.sent = FALSE
    BY DEF NoBatch, NoCursor
  <2>1. CASE CommitBatch \/ PersistCursor
    <3>1. /\ pc \in {"idle", "commit"} /\ pc' \in {"idle", "commit"}
          /\ UNCHANGED <<segments, active_segment_id, active_segment_bytes, queued_bytes, faults>>
          /\ batch' = NoBatch \/ batch' = batch
          /\ pc' = "commit" => batch # NoBatch /\ cursor' = batch.next_cursor
      BY <2>0, <2>1 DEF CommitBatch, PersistCursor, disk, memory
    <3> QED
      BY <3>1, <1>SameCount
  <2>2. CASE RemoveSegment
    <3> DEFINE id == Min(Consumed)
    <3>1. /\ pc = "commit" /\ Consumed # {}
          /\ segments' = Restrict(segments, DOMAIN segments \ {id})
          /\ queued_bytes' = saturating_sub(queued_bytes, Len(segments[id]))
          /\ UNCHANGED <<pc, active_segment_id, active_segment_bytes, cursor, rd, batch, faults>>
      BY <2>2 DEF RemoveSegment
    <3>2. FilesOK(segments) /\ Consumed \subseteq Nat /\ cursor.segment_id \in Nat /\ active_segment_id \in Nat
      BY DEF Order, Types, FilesOK, Consumed, Cursor
    <3>3. id \in Consumed
      <4>1. Consumed \subseteq DOMAIN segments /\ Ranged(DOMAIN segments)
        BY <3>2 DEF Consumed, FilesOK
      <4> QED
        BY <3>1, <4>1, MinIsLeast, ZenonT(30)
    <3> HIDE DEF id
    <3>4. id \in DOMAIN segments /\ id < cursor.segment_id /\ cursor.segment_id <= active_segment_id /\ id \in Nat
      BY <3>1, <3>2, <3>3, ZenonT(30) DEF Consumed, Counting, Below
    <3>5. DOMAIN segments' = DOMAIN segments \ {id} /\ \A s \in DOMAIN segments' : segments'[s] = segments[s]
      BY <3>1, <3>2, <3>4, Removed
    <3>6. Counters' /\ QueueCounted'
      BY <3>1, <3>2, <3>4, <1>TakenCount
    <3>8. SegmentCounted'
      <4>1. active_segment_id # id /\ active_segment_id' = active_segment_id
        BY <3>1, <3>2, <3>4
      <4>2. ActiveLength' = ActiveLength
        BY <3>5, <4>1 DEF ActiveLength
      <4> QED
        BY <3>1, <4>2 DEF Counting, SegmentCounted, Happened
    <3> QED
      BY <3>6, <3>8 DEF Counting
  <2> QED
    BY <2>1, <2>2
<1>CrashCount. ASSUME Order, Counting, Below', Crash
               PROVE  Counting'
  <2> USE <1>CrashCount
  <2>1. /\ pc' = "closed" /\ queued_bytes' = 0 /\ active_segment_bytes' = 0 /\ segments' = segments
        /\ faults \subseteq faults'
    BY DEF Crash, disk, Fault
  <2>2. SegmentCounted'
    BY <2>1 DEF SegmentCounted
  <2>3. Counters'
    BY <2>1 DEF Counting, Counters
  <2>4. QueueCounted'
    BY <2>1 DEF Counting, QueueCounted, Happened, total_segment_bytes
  <2> QED
    BY <2>2, <2>3, <2>4 DEF Counting
<1>ErrorCount. ASSUME Order, Counting, Below', WriteFails \/ QuarantineFails \/ RotateFails \/ CommitFails
               PROVE  Counting'
  <2> USE <1>ErrorCount
  <2>0. NoBatch' = NoBatch
    BY DEF NoBatch, NoCursor
  <2>1. CASE WriteFails
    <3>1. /\ pc = "write" /\ pc' = "idle" /\ Fault("error_in_write")
          /\ UNCHANGED <<segments, active_segment_id, active_segment_bytes, queued_bytes, cursor, rd, batch>>
      BY <2>1 DEF WriteFails, disk, memory
    <3>2. Happened({"error_in_write"})' /\ Happened({"error_in_write", "error_in_quarantine"})'
      BY <3>1, <1>FaultRecorded, ZenonT(30)
    <3> QED
      BY <3>1, <3>2 DEF Counting, Counters, QueueCounted, SegmentCounted
  <2>2. CASE QuarantineFails
    <3>1. /\ pc = "quarantine" /\ pc' = "idle" /\ Fault("error_in_quarantine") /\ faults \subseteq faults'
          /\ UNCHANGED <<segments, queued_bytes, batch>>
          /\ active_segment_bytes' \in {active_segment_bytes, 0}
          /\ active_segment_id' = active_segment_id \/
             (rd.at.segment_id >= active_segment_id /\ active_segment_id' = rd.at.segment_id + 1)
      BY <2>2 DEF QuarantineFails, disk, Fault
    <3>2. Happened({"error_in_write", "error_in_quarantine"})'
      BY <3>1, <1>FaultRecorded, ZenonT(30)
    <3>3. active_segment_id \in Nat /\ rd.at.segment_id \in Nat /\ batch = NoBatch
          /\ DOMAIN segments \subseteq Nat
      BY <3>1 DEF Order, Types, Cursor, CursorsOrdered, FilesOK
    <3>4. \A s \in DOMAIN segments : s <= active_segment_id
      BY <3>1, ZenonT(30) DEF Counting, Below
    <3>5. \A s \in DOMAIN segments : s <= active_segment_id'
      BY <3>1, <3>3, <3>4
    <3>7. Counters'
      BY <3>1 DEF Counting, Counters
    <3>8. QueueCounted'
      BY <3>1 DEF Counting, QueueCounted, Happened, total_segment_bytes
    <3> QED
      BY <3>2, <3>7, <3>8 DEF Counting, SegmentCounted
  <2>3. CASE RotateFails
    <3>1. /\ pc = "idle" /\ pc' = "idle" /\ faults \subseteq faults'
          /\ active_segment_id' = active_segment_id + 1 /\ active_segment_bytes' = 0
          /\ UNCHANGED <<segments, queued_bytes, cursor, rd, batch>>
      BY <2>3 DEF RotateFails, disk, Fault
    <3>2. /\ active_segment_id \in Nat /\ DOMAIN segments \subseteq Nat
          /\ batch.next_cursor.segment_id \in Nat
          /\ active_segment_id + 1 \notin DOMAIN segments
      BY <3>1 DEF Order, Types, FilesOK, Cursor, Counting, Below
    <3>4. Counters'
      BY <3>1 DEF Counting, Counters
    <3>5. QueueCounted'
      BY <3>1 DEF Counting, QueueCounted, Happened, total_segment_bytes
    <3>6. SegmentCounted'
      BY <3>1, <3>2 DEF SegmentCounted, ActiveLength
    <3> QED
      BY <3>4, <3>5, <3>6 DEF Counting
  <2>4. CASE CommitFails
    <3>1. /\ pc = "commit" /\ pc' = "idle" /\ faults \subseteq faults'
          /\ UNCHANGED <<segments, active_segment_id, active_segment_bytes, queued_bytes, cursor, rd, batch>>
      BY <2>4 DEF CommitFails, disk, memory, Fault
    <3> QED
      BY <3>1, <1>SameCount
  <2> QED
    BY <2>1, <2>2, <2>3, <2>4
<1>RotCount. ASSUME Order, Counting, Below', BitRot
             PROVE  Counting'
  <2> USE <1>RotCount
  <2>1. DOMAIN segments' = DOMAIN segments /\ \A s \in DOMAIN segments : Len(segments'[s]) = Len(segments[s])
    <3>1. PICK s \in DOMAIN segments :
            /\ DOMAIN segments' = DOMAIN segments
            /\ \A u \in DOMAIN segments : u # s => segments'[u] = segments[u]
            /\ Len(segments'[s]) = Len(segments[s])
      BY Rots, ZenonT(30)
    <3> QED
      BY <3>1, ZenonT(30)
  <2>2. /\ UNCHANGED <<pc, active_segment_id, active_segment_bytes, queued_bytes, cursor, todo, rd,
                       batch, submitted>>
        /\ faults \subseteq faults' /\ NoBatch' = NoBatch
    BY DEF BitRot, memory, Fault, NoBatch, NoCursor
  <2>3. FileBytes(segments') = FileBytes(segments)
    <3>1. \A g : DOMAIN g = DOMAIN segments /\ (\A s \in DOMAIN g : Len(g[s]) = Len(segments[s]))
                 => FileBytes(g) = FileBytes(segments)
      BY <1>SameBytes
    <3> QED
      BY <2>1, <3>1, ZenonT(30)
  <2>5. Counters'
    BY <2>2, <2>3 DEF Counting, Counters
  <2>6. QueueCounted'
    BY <2>2, <2>3 DEF Counting, QueueCounted, Happened, total_segment_bytes
  <2>7. SegmentCounted'
    <3>1. ActiveLength' = ActiveLength
      BY <2>1, <2>2 DEF ActiveLength
    <3> QED
      BY <2>2, <3>1 DEF Counting, SegmentCounted, Happened
  <2> QED
    BY <2>5, <2>6, <2>7 DEF Counting
<1> SUFFICES ASSUME Order, Counting, Below', [Next]_vars
             PROVE  Counting'
  OBVIOUS
<1>1. CASE UNCHANGED vars
  <2>1. UNCHANGED <<segments, pc, active_segment_id, active_segment_bytes, queued_bytes, cursor,
                    todo, rd, batch, submitted, faults>>
    BY <1>1 DEF vars, disk, memory, history
  <2>3. Counters'
    BY <2>1 DEF Counting, Counters
  <2>4. QueueCounted'
    BY <2>1 DEF Counting, QueueCounted, Happened, total_segment_bytes
  <2>5. SegmentCounted'
    BY <2>1 DEF Counting, SegmentCounted, Happened, ActiveLength
  <2> QED
    BY <2>3, <2>4, <2>5 DEF Counting
<1>2. CASE System
  BY <1>2, <1>OpenCount, <1>EnqueueCount, <1>WriteCount, <1>ReturnCount, <1>ReadCount, <1>QuarantineCount,
     <1>AdvanceCount, <1>ExportCount, <1>CommitCount DEF System
<1>3. CASE Environment
  BY <1>3, <1>CrashCount, <1>ErrorCount, <1>RotCount DEF Environment
<1> QED
  BY <1>1, <1>2, <1>3 DEF Next

LEMMA CountingInvariance == Spec => []Counting
<1>1. Order /\ Counting /\ Below' /\ [Next]_vars => Counting'
  BY NextCount
<1> QED
  BY <1>1, InitCount, OrderInvariance, BelowInvariance, PTL DEF Spec

\* queued_bytes, by which ingest_inner accepts, and active_segment_bytes, by
\* which enqueue rotates, equal what is on disk whenever no operation is under
\* way, whatever was enqueued, rotated, quarantined, removed or recovered: the
\* saturating subtractions never saturate, and no file is created over another.
THEOREM CountersAreExact == Spec => []CountersExact
<1>1. Counting => CountersExact
  BY DEF Counting, QueueCounted, SegmentCounted, ActiveLength, CountersExact
<1> QED
  BY <1>1, CountingInvariance, PTL

\* The check in ingest_inner is enough: the files of the queue never outgrow
\* max_queue_bytes, not even in the middle of a write or across a crash.
THEOREM QuotaIsRespected == Spec => []QuotaRespected
<1>1. Counting => QuotaRespected
  BY DEF Counting, QueueCounted, QuotaRespected
<1> QED
  BY <1>1, CountingInvariance, PTL

=============================================================================
