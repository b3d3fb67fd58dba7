----------------------- MODULE DiskQueueOrderProofs ------------------------
(***************************************************************************)
(* A record that left the disk queue never comes back, and records are     *)
(* read in the order they were accepted: for any number of records of any  *)
(* size, any segment size, quota and batch size, and any number of faults  *)
(* of every kind.                                                          *)
(*                                                                         *)
(* Both rest on the order of the cursors (Order): the one on disk is never *)
(* ahead of the one in memory, which is never ahead of the read under way  *)
(* or of the batch being exported.                                         *)
(***************************************************************************)
EXTENDS DiskQueueReading, TLAPS

Before(c, d) ==
  \/ c.segment_id < d.segment_id
  \/ c.segment_id = d.segment_id /\ c.offset <= d.offset

-----------------------------------------------------------------------------
\* Of any files there is an oldest and a newest.
Ranged(D) ==
  \A T \in SUBSET D : T # {} =>
    (\E x \in T : \A y \in T : x <= y) /\ (\E x \in T : \A y \in T : x >= y)

FilesOK(g) ==
  /\ DOMAIN g \subseteq Nat \ {0}
  /\ g = [s \in DOMAIN g |-> g[s]]
  /\ \A s \in DOMAIN g : g[s] \in Seq(Cell)
  /\ Ranged(DOMAIN g)

Types ==
  /\ FilesOK(segments)
  /\ cursor_file \in Cursor /\ cursor \in Cursor
  /\ pc \in {"closed", "idle", "write", "read", "quarantine", "commit"}
  /\ active_segment_id \in Nat
  /\ todo \in Seq(Cell)
  /\ DOMAIN rd = {"at", "payloads", "should_commit"}
  /\ rd.at \in Cursor /\ rd.payloads \in Seq(Records)
  /\ DOMAIN batch = {"payloads", "next_cursor", "sent"}
  /\ batch.next_cursor \in Cursor /\ batch.payloads \in Seq(Records)
  /\ submitted \in 0..N

\* Only before the first start is there no cursor file.
Fresh ==
  IF cursor_file = NoCursor
  THEN pc = "closed" /\ DOMAIN segments = {} /\ accepted = {}
  ELSE cursor_file.segment_id > 0

CursorsOrdered ==
  /\ pc # "closed" => active_segment_id > 0 /\ Before(cursor_file, cursor)
  /\ pc \in {"read", "quarantine"} => Before(cursor, rd.at)
  /\ batch # NoBatch => pc \in {"idle", "write"} /\ Before(cursor, batch.next_cursor)

\* Cells of the record under way that are in the file.
Written == storage_bytes_for_payload(submitted) - Len(todo)

Writing ==
  pc = "write" =>
    /\ submitted \in Records
    /\ active_segment_id \in DOMAIN segments
    /\ Written \in 0..storage_bytes_for_payload(submitted)
    /\ \A k \in DOMAIN todo : todo[k] = <<submitted, Written + k>>

Order == Types /\ Fresh /\ CursorsOrdered /\ Writing

LastOne(m) == m \in DOMAIN segments /\ \A s \in DOMAIN segments : s <= m

-----------------------------------------------------------------------------
(* Sequences.                                                              *)

\* The provers, and the seconds each may take, for a step that names none.
USE SMTT(30), Z3T(30), ZenonT(30)

LEMMA SeqIs ==
  ASSUME NEW S, NEW x \in Seq(S)
  PROVE  /\ Len(x) \in Nat /\ DOMAIN x = 1..Len(x) /\ x \in [1..Len(x) -> S]
         /\ \A i \in 1..Len(x) : x[i] \in S
         /\ x # <<>> => Len(x) > 0
OBVIOUS

LEMMA EmptyIs ==
  ASSUME NEW S
  PROVE  <<>> \in Seq(S) /\ Len(<<>>) = 0 /\ \A x \in Seq(S) : x # <<>> => Len(x) \in Nat \ {0}
OBVIOUS

LEMMA AppendIs ==
  ASSUME NEW S, NEW x \in Seq(S), NEW e \in S
  PROVE  /\ Append(x, e) \in Seq(S) /\ Append(x, e) # <<>> /\ Len(Append(x, e)) = Len(x) + 1
         /\ Append(x, e)[Len(x) + 1] = e /\ \A i \in 1..Len(x) : Append(x, e)[i] = x[i]
OBVIOUS

LEMMA TailIs ==
  ASSUME NEW S, NEW x \in Seq(S), x # <<>>
  PROVE  /\ Head(x) \in S /\ Tail(x) \in Seq(S) /\ Len(Tail(x)) = Len(x) - 1
         /\ \A i \in 1..Len(Tail(x)) : Tail(x)[i] = x[i + 1]
OBVIOUS

LEMMA ExceptIs ==
  ASSUME NEW S, NEW x \in Seq(S), NEW i \in 1..Len(x), NEW e \in S
  PROVE  /\ [x EXCEPT ![i] = e] \in Seq(S) /\ Len([x EXCEPT ![i] = e]) = Len(x)
         /\ \A j \in 1..Len(x) : [x EXCEPT ![i] = e][j] = IF j = i THEN e ELSE x[j]
OBVIOUS

-----------------------------------------------------------------------------
(* Numbers, files and cursors.                                             *)

LEMMA Sizes ==
  /\ N \in Nat /\ max_items \in Nat \ {0}
  /\ \A r \in Records :
       storage_bytes_for_payload(r) \in Nat /\ storage_bytes_for_payload(r) > HEADER
BY QueueAssumption DEF storage_bytes_for_payload, HEADER

LEMMA MinIsLeast ==
  ASSUME NEW D, Ranged(D), NEW S, S \subseteq D, S # {}
  PROVE  Min(S) \in S /\ \A y \in S : Min(S) <= y
BY ZenonT(30) DEF Ranged, Min

LEMMA MaxIsGreatest ==
  ASSUME NEW D, Ranged(D), NEW S, S \subseteq D, S # {}
  PROVE  Max(S) \in S /\ \A y \in S : Max(S) >= y
BY ZenonT(30) DEF Ranged, Max

LEMMA RangedAdd ==
  ASSUME NEW D, D \subseteq Nat, Ranged(D), NEW id \in Nat
  PROVE  Ranged(D \cup {id})
<1> SUFFICES ASSUME NEW T \in SUBSET (D \cup {id}), T # {}
             PROVE  (\E x \in T : \A y \in T : x <= y) /\ (\E x \in T : \A y \in T : x >= y)
  BY ZenonT(30) DEF Ranged
<1> DEFINE U == T \ {id}
<1>1. U \subseteq D /\ U \subseteq Nat /\ T \subseteq U \cup {id} /\ U \subseteq T
  OBVIOUS
<1>2. CASE U = {}
  <2>1. id \in T /\ \A x \in T : x = id
    BY <1>2, ZenonT(30)
  <2>2. id <= id /\ id >= id
    OBVIOUS
  <2> QED
    BY <2>1, <2>2, ZenonT(30)
<1>3. CASE U # {}
  <2> HIDE DEF U
  <2>1. PICK x \in U : \A y \in U : x <= y
    BY <1>1, <1>3, ZenonT(30) DEF Ranged
  <2>2. PICK z \in U : \A y \in U : z >= y
    BY <1>1, <1>3, ZenonT(30) DEF Ranged
  <2>3. x \in Nat /\ z \in Nat
    BY <1>1
  <2>4. id \in T => \E w \in T : \A y \in T : w <= y
    BY <1>1, <2>1, <2>3
  <2>5. id \in T => \E w \in T : \A y \in T : w >= y
    BY <1>1, <2>2, <2>3
  <2>6. id \notin T => T = U
    BY <1>1 DEF U
  <2> QED
    BY <2>1, <2>2, <2>4, <2>5, <2>6, ZenonT(30)
<1> QED
  BY <1>2, <1>3, ZenonT(30)

LEMMA LastSegmentIsLast ==
  ASSUME Types
  PROVE  IF DOMAIN segments = {} THEN LastSegment = 1 ELSE LastOne(LastSegment)
<1>1. CASE DOMAIN segments = {}
  BY <1>1 DEF LastSegment
<1>2. CASE DOMAIN segments # {}
  <2>1. DOMAIN segments \subseteq Nat /\ Ranged(DOMAIN segments)
    BY DEF Types, FilesOK
  <2>2. /\ Max(DOMAIN segments) \in DOMAIN segments
        /\ \A s \in DOMAIN segments : Max(DOMAIN segments) >= s
    BY <1>2, <2>1, MaxIsGreatest, ZenonT(30)
  <2>3. LastSegment = Max(DOMAIN segments)
    BY <1>2 DEF LastSegment
  <2> QED
    BY <1>2, <2>1, <2>2, <2>3 DEF LastOne
<1> QED
  BY <1>1, <1>2

\* The files are typed, whether one is created, removed or changed.
LEMMA Created ==
  ASSUME FilesOK(segments), NEW id \in Nat \ {0}
  PROVE  /\ FilesOK(Create(id))
         /\ DOMAIN Create(id) = DOMAIN segments \cup {id}
         /\ Create(id)[id] = <<>>
         /\ \A s \in DOMAIN segments : s # id => Create(id)[s] = segments[s]
<1> DEFINE g == Create(id)
<1>1. /\ DOMAIN g = DOMAIN segments \cup {id}
      /\ g = [s \in DOMAIN g |-> g[s]]
      /\ g[id] = <<>>
      /\ \A s \in DOMAIN segments : s # id => g[s] = segments[s]
  BY DEF Create
<1> HIDE DEF g
<1>2. DOMAIN g \subseteq Nat \ {0}
  BY <1>1 DEF FilesOK
<1>3. \A s \in DOMAIN g : g[s] \in Seq(Cell)
  <2>1. <<>> \in Seq(Cell)
    BY EmptyIs
  <2>2. \A s \in DOMAIN g : s = id \/ (s \in DOMAIN segments /\ s # id)
    BY <1>1
  <2> QED
    BY <1>1, <2>1, <2>2, ZenonT(30) DEF FilesOK
<1>4. Ranged(DOMAIN g)
  <2>1. DOMAIN segments \subseteq Nat /\ Ranged(DOMAIN segments)
    BY DEF FilesOK
  <2> QED
    BY <1>1, <2>1, RangedAdd
<1> QED
  BY <1>1, <1>2, <1>3, <1>4 DEF FilesOK, g

LEMMA Removed ==
  ASSUME FilesOK(segments), NEW id \in DOMAIN segments,
         NEW g, g = Restrict(segments, DOMAIN segments \ {id})
  PROVE  /\ FilesOK(g)
         /\ DOMAIN g = DOMAIN segments \ {id}
         /\ \A s \in DOMAIN g : g[s] = segments[s]
<1>1. /\ DOMAIN g = DOMAIN segments \ {id}
      /\ \A s \in DOMAIN g : g[s] = segments[s]
      /\ g = [s \in DOMAIN g |-> g[s]]
  BY DEF Restrict
<1>2. Ranged(DOMAIN g)
  BY <1>1, ZenonT(30) DEF FilesOK, Ranged
<1> QED
  BY <1>1, <1>2, ZenonT(30) DEF FilesOK

LEMMA Changed ==
  ASSUME FilesOK(segments), NEW id \in DOMAIN segments, NEW f \in Seq(Cell),
         NEW g, g = [segments EXCEPT ![id] = f]
  PROVE  /\ FilesOK(g)
         /\ DOMAIN g = DOMAIN segments
         /\ g[id] = f
         /\ \A s \in DOMAIN segments : s # id => g[s] = segments[s]
BY ZenonT(30) DEF FilesOK

\* The next segment is the first one after the cursor's.
LEMMA Moves ==
  ASSUME Types, NEW c \in Cursor
  PROVE  LET n == next_cursor_after(c.segment_id) IN
         /\ n.kind \in {"empty", "move"}
         /\ n.kind = "empty" => \A s \in DOMAIN segments : ~(s > c.segment_id)
         /\ n.kind = "move" =>
              /\ n.next \in Cursor /\ n.next.offset = 0
              /\ n.next.segment_id \in DOMAIN segments
              /\ n.next.segment_id > c.segment_id
              /\ \A s \in DOMAIN segments : s > c.segment_id => s >= n.next.segment_id
<1>0. c.segment_id \in Nat
  BY DEF Cursor
<1> DEFINE later == {s \in DOMAIN segments : s > c.segment_id}
           m == Min(later)
<1>1. CASE later = {}
  BY <1>1 DEF next_cursor_after, Step
<1>2. CASE later # {}
  <2>1. later \subseteq Nat /\ later \subseteq DOMAIN segments /\ Ranged(DOMAIN segments)
    BY DEF Types, FilesOK
  <2>2. m \in later /\ \A s \in later : m <= s
    <3> HIDE DEF later
    <3> QED
      BY <1>2, <2>1, MinIsLeast, ZenonT(30)
  <2>3. next_cursor_after(c.segment_id) = Step("move", 0, [segment_id |-> m, offset |-> 0])
    BY <1>2 DEF next_cursor_after
  <2> HIDE DEF m
  <2>4. m \in Nat /\ m \in DOMAIN segments /\ m > c.segment_id
        /\ \A s \in DOMAIN segments : s > c.segment_id => s >= m
    BY <1>0, <2>1, <2>2
  <2> QED
    BY <2>3, <2>4 DEF Step, Cursor
<1> QED
  BY <1>1, <1>2

\* What one read does to the cursor.
LEMMA Reads ==
  ASSUME Types, NEW c \in Cursor
  PROVE  LET step == read_step_at(c) IN
         /\ step.kind \in {"record", "move", "corrupt", "empty"}
         /\ step.kind = "record" =>
              /\ c.segment_id \in DOMAIN segments /\ step.rec \in Records
              /\ FrameAt(segments[c.segment_id], c.offset, step.rec)
              /\ step.next = [c EXCEPT !.offset = @ + storage_bytes_for_payload(step.rec)]
              /\ step.next \in Cursor /\ Before(c, step.next)
         /\ step.kind = "move" =>
              /\ step.next \in Cursor /\ step.next.offset = 0
              /\ step.next.segment_id \in DOMAIN segments
              /\ step.next.segment_id > c.segment_id
              /\ \A s \in DOMAIN segments : s > c.segment_id => s >= step.next.segment_id
              /\ c.segment_id \in DOMAIN segments => Len(segments[c.segment_id]) < c.offset + HEADER
         /\ step.kind = "corrupt" => c.segment_id \in DOMAIN segments
<1>1. c.segment_id \in Nat /\ c.offset \in Nat
  BY DEF Cursor
<1>3. CASE c.segment_id \notin DOMAIN segments
  BY <1>3, Moves DEF read_step_at
<1>4. CASE c.segment_id \in DOMAIN segments
  <2> DEFINE f == segments[c.segment_id]
             here == {r \in Records : FrameAt(f, c.offset, r)}
  <2>1. CASE Len(f) < c.offset + HEADER
    <3>1. read_step_at(c) \in {next_cursor_after(c.segment_id), Step("empty", 0, NoCursor)}
      BY <1>4, <2>1 DEF read_step_at
    <3> QED
      BY <2>1, <3>1, Moves DEF Step
  <2>2. CASE ~(Len(f) < c.offset + HEADER) /\ here = {}
    <3>1. read_step_at(c) = Step("corrupt", 0, NoCursor)
      BY <1>4, <2>2 DEF read_step_at
    <3> QED
      BY <1>4, <3>1 DEF Step
  <2>3. CASE ~(Len(f) < c.offset + HEADER) /\ here # {}
    <3>1. PICK r \in here : read_step_at(c) = Step("record", r, AfterRecord(c, r))
      BY <1>4, <2>3, ZenonT(30) DEF read_step_at
    <3>2. /\ storage_bytes_for_payload(r) \in Nat
          /\ AfterRecord(c, r) = [c EXCEPT !.offset = @ + storage_bytes_for_payload(r)]
      BY Sizes DEF AfterRecord
    <3>3. AfterRecord(c, r) \in Cursor /\ Before(c, AfterRecord(c, r))
      BY <1>1, <3>2 DEF Cursor, Before
    <3> QED
      BY <1>4, <3>1, <3>2, <3>3 DEF Step
  <2> QED
    BY <2>1, <2>2, <2>3
<1> QED
  BY <1>3, <1>4

LEMMA BeforeTransitive ==
  ASSUME NEW c \in Cursor, NEW d \in Cursor, NEW e \in Cursor, Before(c, d), Before(d, e)
  PROVE  Before(c, e)
BY DEF Before, Cursor

-----------------------------------------------------------------------------
(* The order of the cursors is kept by every step and every fault.         *)

LEMMA OpenOrder ==
  ASSUME Order, Open
  PROVE  Order'
<1> DEFINE c == RecoveryCursor
<1>1. /\ pc = "closed" /\ pc' = "idle" /\ cursor' = c /\ cursor_file' = c
      /\ active_segment_id' = LastSegment
      /\ segments' = IF LastSegment \in DOMAIN segments THEN segments ELSE Create(LastSegment)
      /\ UNCHANGED <<todo, rd, batch, submitted>>
  BY DEF Open, OpenAt, history
<1>2. c \in Cursor /\ c.segment_id > 0
  <2>1. CASE cursor_file = NoCursor
    <3>1. c = [segment_id |-> 1, offset |-> 0]
      BY <2>1 DEF RecoveryCursor, Order, Fresh
    <3> QED
      BY <3>1 DEF Cursor
  <2>2. CASE cursor_file # NoCursor
    BY <2>2 DEF RecoveryCursor, Order, Fresh, Types
  <2> QED
    BY <2>1, <2>2
<1> HIDE DEF c
<1>3. LastSegment \in Nat \ {0}
  BY LastSegmentIsLast DEF Order, Types, FilesOK, LastOne
<1>4. FilesOK(segments')
  BY <1>1, <1>3, Created, ZenonT(30) DEF Order, Types
<1>5. batch = NoBatch
  BY <1>1 DEF Order, CursorsOrdered
<1>6. Types'
  BY <1>1, <1>2, <1>3, <1>4 DEF Order, Types
<1>7. Fresh'
  BY <1>1, <1>2 DEF Fresh, NoCursor
<1>8. CursorsOrdered'
  <2>1. Before(c, c)
    BY <1>2 DEF Before, Cursor
  <2> QED
    BY <1>1, <1>3, <1>5, <2>1 DEF CursorsOrdered, NoBatch
<1> QED
  BY <1>1, <1>6, <1>7, <1>8 DEF Order, Writing

\* One more cell of the record is in the file.
LEMMA Written1 ==
  ASSUME Order, WriteCell
  PROVE  LET a == active_segment_id IN
         /\ a \in DOMAIN segments /\ segments[a] \in Seq(Cell)
         /\ Written \in Nat /\ Written' = Written + 1
         /\ segments' = [segments EXCEPT ![a] = Append(segments[a], <<submitted, Written + 1>>)]
         /\ <<submitted, Written + 1>> \in Cell
         /\ pc = "write" /\ submitted \in Records
         /\ todo' \in Seq(Cell) /\ Len(todo') = Len(todo) - 1
         /\ \A k \in DOMAIN todo' : todo'[k] = <<submitted, Written' + k>>
         /\ Written' <= storage_bytes_for_payload(submitted)
<1>1. /\ pc = "write" /\ todo # <<>> /\ todo' = Tail(todo)
      /\ segments' = [segments EXCEPT ![active_segment_id] = Append(segments[active_segment_id], Head(todo))]
      /\ UNCHANGED submitted
  BY DEF WriteCell, history
<1>2. /\ submitted \in Records /\ active_segment_id \in DOMAIN segments
      /\ Written \in 0..storage_bytes_for_payload(submitted)
      /\ \A k \in DOMAIN todo : todo[k] = <<submitted, Written + k>>
  BY <1>1 DEF Order, Writing
<1>3. /\ todo \in Seq(Cell) /\ Len(todo) \in Nat /\ Len(todo) > 0 /\ DOMAIN todo = 1..Len(todo)
      /\ Head(todo) = todo[1]
      /\ todo' \in Seq(Cell) /\ Len(todo') = Len(todo) - 1
      /\ \A k \in 1..(Len(todo) - 1) : todo'[k] = todo[k + 1]
  <2>1. todo \in Seq(Cell)
    BY DEF Order, Types
  <2> QED
    BY <1>1, <2>1, TailIs, SeqIs, EmptyIs
<1>4. Written \in Nat /\ storage_bytes_for_payload(submitted) \in Nat
  BY <1>2, Sizes
<1>5. Written' = Written + 1 /\ Written' <= storage_bytes_for_payload(submitted)
  BY <1>1, <1>3, <1>4 DEF Written
<1>6. Head(todo) = <<submitted, Written + 1>>
  BY <1>2, <1>3
<1>7. \A k \in DOMAIN todo' : todo'[k] = <<submitted, Written' + k>>
  <2> SUFFICES ASSUME NEW k \in DOMAIN todo'
               PROVE  todo'[k] = <<submitted, Written' + k>>
    OBVIOUS
  <2>1. k \in 1..(Len(todo) - 1) /\ k + 1 \in DOMAIN todo
    BY <1>3, SeqIs
  <2>2. todo'[k] = <<submitted, Written + (k + 1)>>
    BY <1>2, <1>3, <2>1, ZenonT(30)
  <2>3. Written + (k + 1) = Written' + k
    BY <1>4, <1>5, <2>1
  <2> QED
    BY <2>2, <2>3
<1>8. segments[active_segment_id] \in Seq(Cell) /\ <<submitted, Written + 1>> \in Cell
  BY <1>2, <1>4 DEF Order, Types, FilesOK, Cell
<1> QED
  BY <1>1, <1>2, <1>3, <1>4, <1>5, <1>6, <1>7, <1>8, ZenonT(30)

LEMMA CommitOrder ==
  ASSUME Order, RemoveSegment \/ PersistCursor
  PROVE  Order'
<1>0. batch = NoBatch \/ pc # "commit"
  BY DEF Order, CursorsOrdered
<1>1. CASE RemoveSegment
  <2>1. /\ pc = "commit" /\ Consumed # {}
        /\ segments' = Restrict(segments, DOMAIN segments \ {Min(Consumed)})
        /\ UNCHANGED <<cursor_file, pc, cursor, rd, batch, accepted, todo, submitted, active_segment_id>>
    BY <1>1 DEF RemoveSegment, history
  <2>2. Min(Consumed) \in DOMAIN segments
    <3>1. Consumed \subseteq Nat /\ Consumed \subseteq DOMAIN segments /\ Ranged(DOMAIN segments)
      BY DEF Consumed, Order, Types, FilesOK
    <3> QED
      BY <2>1, <3>1, MinIsLeast, ZenonT(30)
  <2>3. FilesOK(segments')
    BY <2>1, <2>2, Removed DEF Order, Types
  <2>4. Types'
    BY <2>1, <2>3 DEF Order, Types
  <2> QED
    BY <2>1, <2>4 DEF Order, Fresh, CursorsOrdered, Writing
<1>2. CASE PersistCursor
  <2>1. /\ pc = "commit" /\ pc' = "idle" /\ cursor_file' = cursor
        /\ UNCHANGED <<segments, cursor, rd, batch, accepted, todo, submitted, active_segment_id>>
    BY <1>2 DEF PersistCursor, memory, history
  <2>2. Types'
    BY <2>1 DEF Order, Types
  <2>3. cursor.segment_id > 0 /\ Before(cursor, cursor)
    BY <2>1 DEF Order, Types, Fresh, CursorsOrdered, Before, Cursor
  <2>4. Fresh'
    BY <2>1, <2>3 DEF Fresh, NoCursor
  <2> QED
    BY <1>0, <2>1, <2>2, <2>3, <2>4 DEF Order, CursorsOrdered, Writing, NoBatch, NoCursor
<1> QED
  BY <1>1, <1>2

\* What bit rot does to a file.
LEMMA Rots ==
  ASSUME Order, BitRot
  PROVE  \E s \in DOMAIN segments : \E i \in 1..Len(segments[s]) : \E q \in Records :
           /\ segments[s][i] = <<q, 1>>
           /\ FilesOK(segments') /\ DOMAIN segments' = DOMAIN segments
           /\ \A u \in DOMAIN segments : u # s => segments'[u] = segments[u]
           /\ Len(segments'[s]) = Len(segments[s])
           /\ segments'[s][i] = <<q, 0>>
           /\ \A j \in 1..Len(segments[s]) : j # i => segments'[s][j] = segments[s][j]
           /\ rotten' = rotten \cup {q}
<1>0. PICK s \in DOMAIN segments : \E i \in 1..Len(segments[s]) :
        /\ segments[s][i][2] = 1
        /\ segments' = [segments EXCEPT ![s][i] = <<segments[s][i][1], 0>>]
        /\ rotten' = rotten \cup {segments[s][i][1]}
  BY ZenonT(30) DEF BitRot
<1>1. PICK i \in 1..Len(segments[s]) :
        /\ segments[s][i][2] = 1
        /\ segments' = [segments EXCEPT ![s] = [segments[s] EXCEPT ![i] = <<segments[s][i][1], 0>>]]
        /\ rotten' = rotten \cup {segments[s][i][1]}
  BY <1>0, ZenonT(30)
<1> DEFINE f == segments[s]
           q == f[i][1]
           g == [f EXCEPT ![i] = <<q, 0>>]
<1>2. f \in Seq(Cell) /\ FilesOK(segments)
  BY DEF Order, Types, FilesOK
<1>3. f[i] \in Cell
  <2> HIDE DEF f
  <2> QED
    BY <1>2, <1>1, SeqIs DEF f
<1>4. q \in Records /\ f[i] = <<q, 1>> /\ <<q, 0>> \in Cell
  BY <1>1, <1>3 DEF Cell
<1> HIDE DEF q
<1>5. g \in Seq(Cell) /\ Len(g) = Len(f) /\ g[i] = <<q, 0>>
      /\ \A j \in 1..Len(f) : j # i => g[j] = f[j]
  <2> DEFINE c == <<q, 0>>
  <2> HIDE DEF f, c
  <2>1. i \in 1..Len(f) /\ c \in Cell /\ f \in Seq(Cell)
    BY <1>2, <1>4 DEF f, c
  <2>2. [f EXCEPT ![i] = c] \in Seq(Cell) /\ Len([f EXCEPT ![i] = c]) = Len(f)
    BY <2>1, ExceptIs
  <2> QED
    BY <2>1, <2>2, SeqIs DEF c
<1>6. segments' = [segments EXCEPT ![s] = g]
  BY <1>1 DEF q
<1> HIDE DEF g
<1>7. /\ FilesOK(segments') /\ DOMAIN segments' = DOMAIN segments /\ segments'[s] = g
      /\ \A u \in DOMAIN segments : u # s => segments'[u] = segments[u]
  BY <1>2, <1>5, <1>6, Changed, ZenonT(30)
<1> QED
  BY <1>1, <1>4, <1>5, <1>7 DEF q

LEMMA InitOrder == Init => Order
<1> SUFFICES ASSUME Init
             PROVE  Order
  OBVIOUS
<1>1. DOMAIN segments = {} /\ FilesOK(segments)
  BY DEF Init, FilesOK, Ranged
<1>2. /\ DOMAIN rd = {"at", "payloads", "should_commit"} /\ rd.at \in Cursor
      /\ rd.payloads \in Seq(Records) /\ cursor \in Cursor /\ todo \in Seq(Cell)
      /\ DOMAIN batch = {"payloads", "next_cursor", "sent"} /\ batch.next_cursor \in Cursor
      /\ batch.payloads \in Seq(Records) /\ cursor_file \in Cursor
  BY EmptyIs DEF Init, NoRead, NoBatch, NoCursor, Cursor
<1>3. Types
  BY <1>1, <1>2, Sizes DEF Init, Types
<1> QED
  BY <1>1, <1>3 DEF Init, Order, Fresh, CursorsOrdered, Writing

LEMMA NextOrder == Order /\ [Next]_vars => Order'
\* A step that leaves the files, the cursors, the read and the batch alone.
<1>SameOrder. ASSUME Order, UNCHANGED <<segments, cursor_file, cursor, rd, batch, accepted>>,
                     pc' \in {"idle", "commit"}, pc # "closed",
                     batch # NoBatch => pc' = "idle",
                     active_segment_id' \in Nat \ {0}, todo' \in Seq(Cell), submitted' \in 0..N
              PROVE  Order'
  <2> USE <1>SameOrder
  <2>1. Types'
    BY DEF Order, Types
  <2>2. Fresh' /\ CursorsOrdered' /\ Writing'
    BY DEF Order, Fresh, CursorsOrdered, Writing
  <2> QED
    BY <2>1, <2>2 DEF Order
<1>EnqueueOrder. ASSUME Order, Enqueue
                 PROVE  Order'
  <2> USE <1>EnqueueOrder
  <2> DEFINE r == submitted + 1
  <2>1. /\ pc = "idle" /\ pc' = "write" /\ submitted < N /\ submitted' = r /\ todo' = Frame(r)
        /\ UNCHANGED <<cursor_file, cursor, rd, batch, accepted>>
    BY DEF Enqueue
  <2>2. \/ /\ active_segment_id' = active_segment_id /\ active_segment_id \in DOMAIN segments
           /\ segments' = segments
        \/ /\ active_segment_id' \in {active_segment_id, active_segment_id + 1}
           /\ segments' = Create(active_segment_id')
    BY DEF Enqueue
  <2>3. active_segment_id' \in Nat \ {0}
    BY <2>1, <2>2 DEF Order, Types, CursorsOrdered
  <2>4. FilesOK(segments') /\ active_segment_id' \in DOMAIN segments'
    <3>1. FilesOK(segments)
      BY DEF Order, Types
    <3>2. CASE segments' = segments
      BY <2>2, <3>1, <3>2 DEF Create
    <3>3. CASE segments' = Create(active_segment_id')
      <4>1. FilesOK(Create(active_segment_id')) /\ active_segment_id' \in DOMAIN Create(active_segment_id')
        BY <2>3, <3>1, Created, ZenonT(30)
      <4> QED
        BY <3>3, <4>1
    <3> QED
      BY <2>2, <3>2, <3>3
  <2>5. /\ r \in Records /\ storage_bytes_for_payload(r) \in Nat
        /\ Frame(r) \in Seq(Cell) /\ Len(Frame(r)) = storage_bytes_for_payload(r)
        /\ \A k \in DOMAIN Frame(r) : Frame(r)[k] = <<r, k>> /\ k \in Nat
    <3>1. r \in Records
      BY <2>1, Sizes DEF Records, Order, Types
    <3>2. storage_bytes_for_payload(r) \in Nat
      BY <3>1, Sizes
    <3> DEFINE n == storage_bytes_for_payload(r)
    <3> HIDE DEF n, r
    <3>3. \A k \in 1..n : <<r, k>> \in Cell
      BY <3>1 DEF Cell
    <3>4. Frame(r) = [k \in 1..n |-> <<r, k>>] /\ n \in Nat
      BY <3>2 DEF Frame, n
    <3> QED
      BY <3>1, <3>2, <3>3, <3>4 DEF n
  <2> HIDE DEF r
  <2>6. Types'
    <3>1. submitted' \in 0..N
      BY <2>1, <2>5 DEF Records
    <3> QED
      BY <2>1, <2>3, <2>4, <2>5, <3>1 DEF Order, Types
  <2>7. Writing'
    <3>1. Written' = 0
      BY <2>1, <2>5 DEF Written
    <3>2. \A k \in DOMAIN todo' : todo'[k] = <<submitted', Written' + k>>
      BY <2>1, <2>5, <3>1
    <3> QED
      BY <2>1, <2>4, <2>5, <3>1, <3>2 DEF Writing
  <2>8. Fresh' /\ CursorsOrdered'
    BY <2>1, <2>3 DEF Order, Fresh, CursorsOrdered
  <2> QED
    BY <2>6, <2>7, <2>8 DEF Order
<1>WriteOrder. ASSUME Order, WriteCell
               PROVE  Order'
  <2> USE <1>WriteOrder
  <2> DEFINE a == active_segment_id
             f == Append(segments[a], <<submitted, Written + 1>>)
  <2>1. UNCHANGED <<cursor_file, pc, active_segment_id, cursor, rd, batch, submitted, accepted>>
    BY DEF WriteCell, memory, history
  <2>2. f \in Seq(Cell)
    BY Written1, AppendIs
  <2>3. FilesOK(segments') /\ DOMAIN segments' = DOMAIN segments
    <3>1. FilesOK(segments) /\ a \in DOMAIN segments /\ segments' = [segments EXCEPT ![a] = f]
      BY Written1 DEF Order, Types
    <3> HIDE DEF f
    <3> QED
      BY <2>2, <3>1, Changed, ZenonT(30)
  <2>4. Types'
    BY <2>1, <2>3, Written1 DEF Order, Types
  <2>5. Writing'
    <3>1. Written' \in 0..storage_bytes_for_payload(submitted)
      BY Written1, Sizes
    <3> QED
      BY <2>1, <2>3, <3>1, Written1 DEF Writing
  <2> QED
    BY <2>1, <2>3, <2>4, <2>5, Written1 DEF Order, Fresh, CursorsOrdered
\* The ends of an enqueue and of a commit, a failing rotation, and a commit
\* that starts.
<1>ReturnOrder. ASSUME Order, EnqueueReturn \/ WriteFails \/ RotateFails \/ CommitFails
                PROVE  Order'
  <2> USE <1>ReturnOrder
  <2>1. CASE EnqueueReturn
    <3>1. /\ pc = "write" /\ pc' = "idle" /\ UNCHANGED <<segments, cursor_file, cursor, rd, batch>>
          /\ UNCHANGED <<active_segment_id, todo, submitted>>
      BY <2>1 DEF EnqueueReturn, disk
    <3>2. Types'
      BY <3>1 DEF Order, Types
    <3> QED
      BY <3>1, <3>2 DEF Order, Fresh, CursorsOrdered, Writing
  <2>2. CASE WriteFails \/ CommitFails
    <3>1. /\ pc # "closed" /\ pc' = "idle"
          /\ UNCHANGED <<segments, cursor_file, cursor, rd, batch, accepted>>
          /\ UNCHANGED <<active_segment_id, submitted>> /\ todo' \in {todo, <<>>}
      BY <2>2 DEF WriteFails, CommitFails, disk, memory, history
    <3>2. todo' \in Seq(Cell)
      BY <3>1, EmptyIs, ZenonT(30) DEF Order, Types
    <3>3. active_segment_id' \in Nat \ {0} /\ submitted' \in 0..N
      BY <3>1 DEF Order, Types, CursorsOrdered
    <3> QED
      BY <3>1, <3>2, <3>3, <1>SameOrder
  <2>3. CASE RotateFails
    <3>1. /\ pc = "idle" /\ pc' = "idle" /\ submitted < N /\ submitted' = submitted + 1
          /\ UNCHANGED <<segments, cursor_file, cursor, rd, batch, accepted, todo>>
          /\ active_segment_id' = active_segment_id + 1
      BY <2>3 DEF RotateFails, disk
    <3>2. active_segment_id' \in Nat \ {0} /\ submitted' \in 0..N /\ todo' \in Seq(Cell)
      BY <3>1, Sizes DEF Order, Types
    <3> QED
      BY <3>1, <3>2, <1>SameOrder
  <2> QED
    BY <2>1, <2>2, <2>3
\* A read goes forward.
<1>ReadStepOrder. ASSUME Order, pc \in {"read", "quarantine"}, pc' = "read",
                         UNCHANGED <<cursor_file, cursor, batch, accepted, todo, submitted>>,
                         FilesOK(segments'), active_segment_id' \in Nat \ {0},
                         DOMAIN rd' = DOMAIN rd, rd'.at \in Cursor, rd'.payloads \in Seq(Records),
                         Before(rd.at, rd'.at)
                  PROVE  Order'
  <2> USE <1>ReadStepOrder
  <2>1. Types'
    BY DEF Order, Types
  <2>2. Before(cursor, rd'.at)
    BY BeforeTransitive DEF Order, Types, CursorsOrdered
  <2>3. batch = NoBatch /\ cursor_file # NoCursor
    BY DEF Order, CursorsOrdered, Fresh
  <2> QED
    BY <2>1, <2>2, <2>3 DEF Order, Fresh, CursorsOrdered, Writing
<1>ReadOrder. ASSUME Order, ReadRecord \/ ReadMove
              PROVE  Order'
  <2> USE <1>ReadOrder
  <2> DEFINE step == read_step_at(rd.at)
  <2>1. /\ pc = "read" /\ pc' = "read"
        /\ UNCHANGED <<segments, cursor_file, cursor, batch, accepted, todo, submitted>>
        /\ UNCHANGED active_segment_id
    BY DEF ReadRecord, ReadMove, disk, memory, history
  <2>2. rd.at \in Cursor /\ DOMAIN rd = {"at", "payloads", "should_commit"} /\ rd.payloads \in Seq(Records)
    BY DEF Order, Types
  <2>3. FilesOK(segments') /\ active_segment_id' \in Nat \ {0}
    BY <2>1 DEF Order, Types, CursorsOrdered
  <2>4. CASE ReadRecord
    <3>1. step.kind = "record" /\ rd' = [rd EXCEPT !.at = step.next, !.payloads = Append(rd.payloads, step.rec)]
      BY <2>4 DEF ReadRecord
    <3>2. step.rec \in Records /\ step.next \in Cursor /\ Before(rd.at, step.next)
      BY <2>2, <3>1, Reads, ZenonT(30) DEF Order
    <3> HIDE DEF step
    <3>3. Append(rd.payloads, step.rec) \in Seq(Records)
      BY <2>2, <3>2, AppendIs
    <3>4. DOMAIN rd' = DOMAIN rd /\ rd'.at = step.next /\ rd'.payloads = Append(rd.payloads, step.rec)
      BY <2>2, <3>1
    <3> QED
      BY <2>1, <2>3, <3>2, <3>3, <3>4, <1>ReadStepOrder
  <2>5. CASE ReadMove
    <3>1. step.kind = "move" /\ rd' = [rd EXCEPT !.at = step.next, !.should_commit = TRUE]
      BY <2>5 DEF ReadMove
    <3>2. step.next \in Cursor /\ step.next.segment_id > rd.at.segment_id
      BY <2>2, <3>1, Reads, ZenonT(30) DEF Order
    <3> HIDE DEF step
    <3>3. Before(rd.at, step.next)
      BY <3>2 DEF Before
    <3>4. DOMAIN rd' = DOMAIN rd /\ rd'.at = step.next /\ rd'.payloads = rd.payloads
      BY <2>2, <3>1
    <3> QED
      BY <2>1, <2>2, <2>3, <3>2, <3>3, <3>4, <1>ReadStepOrder
  <2> QED
    BY <2>4, <2>5
<1>ReadEndsOrder. ASSUME Order, ReadBatch \/ ReadReturn
                  PROVE  Order'
  <2> USE <1>ReadEndsOrder
  <2>1. CASE ReadBatch
    <3>1. /\ pc = "idle" /\ pc' = "read" /\ batch = NoBatch
          /\ rd' = [at |-> cursor, payloads |-> <<>>, should_commit |-> FALSE]
          /\ UNCHANGED <<segments, cursor_file, cursor, batch, accepted, todo, submitted, active_segment_id>>
      BY <2>1 DEF ReadBatch, disk, memory, history
    <3>2. /\ DOMAIN rd' = {"at", "payloads", "should_commit"} /\ rd'.at = cursor
          /\ rd'.payloads = <<>> /\ <<>> \in Seq(Records)
      BY <3>1, EmptyIs
    <3>3. Types'
      BY <3>1, <3>2 DEF Order, Types
    <3>4. Before(cursor, cursor)
      BY DEF Before, Order, Types, Cursor
    <3> QED
      BY <3>1, <3>2, <3>3, <3>4 DEF Order, Fresh, CursorsOrdered, Writing
  <2>2. CASE ReadReturn
    <3>1. /\ pc = "read" /\ pc' \in {"idle", "commit"}
          /\ pc' = "commit" => rd.payloads = <<>>
          /\ cursor' \in {cursor, rd.at}
          /\ cursor' = rd.at \/ cursor' = cursor
          /\ rd' = NoRead
          /\ batch' = IF rd.payloads = <<>> THEN NoBatch
                      ELSE [payloads |-> rd.payloads, next_cursor |-> rd.at, sent |-> FALSE]
          /\ rd.payloads # <<>> => cursor' = cursor
          /\ UNCHANGED <<segments, cursor_file, accepted, todo, submitted, active_segment_id>>
      BY <2>2 DEF ReadReturn, CursorAfterRead, disk, history
    <3>2. /\ DOMAIN rd' = {"at", "payloads", "should_commit"} /\ rd'.at \in Cursor
          /\ rd'.payloads \in Seq(Records)
      BY <3>1, EmptyIs DEF NoRead, NoCursor, Cursor
    <3>3. CASE rd.payloads = <<>>
      <4>1. batch' = NoBatch
        BY <3>1, <3>3
      <4>2. /\ DOMAIN batch' = {"payloads", "next_cursor", "sent"} /\ batch'.next_cursor \in Cursor
            /\ batch'.payloads \in Seq(Records)
        BY <4>1, EmptyIs DEF NoBatch, NoCursor, Cursor
      <4>3. Types'
        BY <3>1, <3>2, <4>2 DEF Order, Types
      <4>4. Before(cursor_file, cursor')
        BY <3>1, BeforeTransitive DEF Order, Types, CursorsOrdered
      <4>5. NoBatch' = NoBatch
        BY DEF NoBatch, NoCursor
      <4> QED
        BY <3>1, <4>1, <4>3, <4>4, <4>5 DEF Order, Fresh, CursorsOrdered, Writing
    <3>4. CASE rd.payloads # <<>>
      <4>1. batch' = [payloads |-> rd.payloads, next_cursor |-> rd.at, sent |-> FALSE]
        BY <3>1, <3>4
      <4>2. /\ DOMAIN batch' = {"payloads", "next_cursor", "sent"} /\ batch'.next_cursor = rd.at
            /\ batch'.payloads = rd.payloads
        BY <4>1
      <4>3. Types'
        BY <3>1, <3>2, <3>4, <4>2 DEF Order, Types
      <4>4. pc' = "idle" /\ cursor' = cursor
        BY <3>1, <3>4
      <4> QED
        BY <3>1, <4>2, <4>3, <4>4 DEF Order, Fresh, CursorsOrdered, Writing
    <3> QED
      BY <3>3, <3>4
  <2> QED
    BY <2>1, <2>2
<1>QuarantineOrder. ASSUME Order, QuarantineSegment \/ QuarantineAdvance \/ QuarantineFails
                    PROVE  Order'
  <2> USE <1>QuarantineOrder
  <2>0. /\ rd.at \in Cursor /\ rd.at.segment_id \in Nat /\ FilesOK(segments)
        /\ DOMAIN rd = {"at", "payloads", "should_commit"} /\ rd.payloads \in Seq(Records)
    BY DEF Order, Types, Cursor
  <2>1. CASE QuarantineSegment
    <3>1. /\ pc = "read" /\ pc' = "quarantine" /\ read_step_at(rd.at).kind = "corrupt"
          /\ segments' = Restrict(segments, DOMAIN segments \ {rd.at.segment_id})
          /\ UNCHANGED <<cursor_file, cursor, rd, batch, accepted, todo, submitted, active_segment_id>>
      BY <2>1 DEF QuarantineSegment
    <3>2. rd.at.segment_id \in DOMAIN segments
      BY <2>0, <3>1, Reads, ZenonT(30) DEF Order
    <3>3. FilesOK(segments')
      BY <2>0, <3>1, <3>2, Removed
    <3>4. Types'
      BY <3>1, <3>3 DEF Order, Types
    <3> QED
      BY <3>1, <3>4 DEF Order, Fresh, CursorsOrdered, Writing
  <2>2. CASE QuarantineAdvance
    <3>1. /\ pc = "quarantine" /\ pc' = "read"
          /\ UNCHANGED <<cursor_file, cursor, batch, accepted, todo, submitted>>
      BY <2>2 DEF QuarantineAdvance, history
    <3>2. CASE rd.at.segment_id >= active_segment_id
      <4> DEFINE id == rd.at.segment_id + 1
                 to == [segment_id |-> id, offset |-> 0]
      <4>1. /\ active_segment_id' = id /\ segments' = Create(id)
            /\ rd' = [rd EXCEPT !.at = to, !.should_commit = TRUE]
        BY <2>2, <3>2 DEF QuarantineAdvance
      <4>2. id \in Nat \ {0} /\ to \in Cursor /\ Before(rd.at, to)
        BY <2>0 DEF Cursor, Before
      <4> HIDE DEF id, to
      <4>3. FilesOK(segments') /\ active_segment_id' \in Nat \ {0}
        BY <2>0, <4>1, <4>2, Created, ZenonT(30)
      <4>4. DOMAIN rd' = DOMAIN rd /\ rd'.at = to /\ rd'.payloads = rd.payloads
        BY <2>0, <4>1
      <4> QED
        BY <2>0, <3>1, <4>2, <4>3, <4>4, <1>ReadStepOrder
    <3>3. CASE ~(rd.at.segment_id >= active_segment_id)
      <4> DEFINE step == next_cursor_after(rd.at.segment_id)
      <4>1. /\ UNCHANGED <<segments, active_segment_id>>
            /\ rd' = IF step.kind = "empty" THEN rd
                     ELSE [rd EXCEPT !.at = step.next, !.should_commit = TRUE]
        BY <2>2, <3>3 DEF QuarantineAdvance
      <4>2. step.kind # "empty" => step.next \in Cursor /\ step.next.segment_id > rd.at.segment_id
        BY <2>0, Moves DEF Order
      <4> HIDE DEF step
      <4>3. FilesOK(segments') /\ active_segment_id' \in Nat \ {0}
        BY <3>1, <4>1 DEF Order, Types, CursorsOrdered
      <4>4. /\ DOMAIN rd' = DOMAIN rd /\ rd'.payloads = rd.payloads
            /\ rd'.at = rd.at \/ (step.kind # "empty" /\ rd'.at = step.next)
        BY <2>0, <4>1
      <4>5. rd'.at \in Cursor /\ Before(rd.at, rd'.at)
        BY <2>0, <4>2, <4>4 DEF Before, Cursor
      <4> QED
        BY <2>0, <3>1, <4>3, <4>4, <4>5, <1>ReadStepOrder
    <3> QED
      BY <3>2, <3>3
  <2>3. CASE QuarantineFails
    <3>1. /\ pc = "quarantine" /\ pc' = "idle" /\ rd' = NoRead
          /\ active_segment_id' \in {active_segment_id, rd.at.segment_id + 1}
          /\ UNCHANGED <<segments, cursor_file, cursor, batch, accepted, todo, submitted>>
      BY <2>3 DEF QuarantineFails, disk, history
    <3>2. /\ DOMAIN rd' = {"at", "payloads", "should_commit"} /\ rd'.at \in Cursor
          /\ rd'.payloads \in Seq(Records)
      BY <3>1, EmptyIs DEF NoRead, NoCursor, Cursor
    <3>3. active_segment_id' \in Nat \ {0}
      BY <2>0, <3>1 DEF Order, Types, CursorsOrdered
    <3>4. Types'
      BY <3>1, <3>2, <3>3 DEF Order, Types
    <3> QED
      BY <3>1, <3>3, <3>4 DEF Order, Fresh, CursorsOrdered, Writing
  <2> QED
    BY <2>1, <2>2, <2>3
<1>BatchOrder. ASSUME Order, ExportSucceeds \/ ExportFails \/ CommitBatch
               PROVE  Order'
  <2> USE <1>BatchOrder
  <2>1. CASE ExportSucceeds
    <3>1. /\ batch # NoBatch /\ batch' = [batch EXCEPT !.sent = TRUE]
          /\ UNCHANGED <<segments, cursor_file, pc, cursor, rd, accepted, todo, submitted, active_segment_id>>
      BY <2>1 DEF ExportSucceeds, disk, memory
    <3>2. /\ DOMAIN batch' = {"payloads", "next_cursor", "sent"}
          /\ batch'.next_cursor = batch.next_cursor /\ batch'.payloads = batch.payloads
      BY <3>1 DEF Order, Types
    <3>3. Types'
      BY <3>1, <3>2 DEF Order, Types
    <3> QED
      BY <3>1, <3>2, <3>3 DEF Order, Fresh, CursorsOrdered, Writing, Written
  <2>2. CASE ExportFails \/ CommitBatch
    <3>1. /\ batch' = NoBatch /\ batch # NoBatch
          /\ \/ cursor' = cursor /\ pc' = pc
             \/ pc = "idle" /\ pc' = "commit" /\ cursor' = batch.next_cursor
          /\ UNCHANGED <<segments, cursor_file, rd, accepted, todo, submitted, active_segment_id>>
      BY <2>2 DEF ExportFails, CommitBatch, disk, memory, history, NoBatch
    <3>2. /\ DOMAIN batch' = {"payloads", "next_cursor", "sent"} /\ batch'.next_cursor \in Cursor
          /\ batch'.payloads \in Seq(Records)
      BY <3>1, EmptyIs DEF NoBatch, NoCursor, Cursor
    <3>3. Types'
      BY <3>1, <3>2 DEF Order, Types
    <3>4. Before(cursor_file, cursor') /\ pc' \in {"idle", "write", "commit"} /\ pc # "closed"
      BY <3>1, BeforeTransitive DEF Order, Types, CursorsOrdered
    <3>5. NoBatch' = NoBatch
      BY DEF NoBatch, NoCursor
    <3>6. Writing'
      BY <3>1 DEF Order, Writing, Written
    <3> QED
      BY <3>1, <3>3, <3>4, <3>5, <3>6 DEF Order, Fresh, CursorsOrdered
  <2> QED
    BY <2>1, <2>2
<1>CrashOrder. ASSUME Order, Crash
               PROVE  Order'
  <2> USE <1>CrashOrder
  <2>1. /\ pc # "closed" /\ pc' = "closed" /\ active_segment_id' = 0 /\ cursor' = NoCursor
        /\ todo' = <<>> /\ rd' = NoRead /\ batch' = NoBatch
        /\ UNCHANGED <<segments, cursor_file, accepted, submitted>>
    BY DEF Crash, disk, history
  <2>2. /\ DOMAIN rd' = {"at", "payloads", "should_commit"} /\ rd'.at \in Cursor
        /\ rd'.payloads \in Seq(Records) /\ cursor' \in Cursor /\ todo' \in Seq(Cell)
        /\ DOMAIN batch' = {"payloads", "next_cursor", "sent"} /\ batch'.next_cursor \in Cursor
        /\ batch'.payloads \in Seq(Records)
    BY <2>1, EmptyIs DEF NoRead, NoBatch, NoCursor, Cursor
  <2>3. Types'
    BY <2>1, <2>2 DEF Order, Types
  <2>4. NoBatch' = NoBatch
    BY DEF NoBatch, NoCursor
  <2> QED
    BY <2>1, <2>3, <2>4 DEF Order, Fresh, CursorsOrdered, Writing
<1>RotOrder. ASSUME Order, BitRot
             PROVE  Order'
  <2> USE <1>RotOrder
  <2>1. UNCHANGED <<cursor_file, pc, active_segment_id, cursor, todo, rd, batch, submitted, accepted>>
    BY DEF BitRot, memory
  <2>2. FilesOK(segments') /\ DOMAIN segments' = DOMAIN segments
    BY Rots
  <2>3. Types'
    BY <2>1, <2>2 DEF Order, Types
  <2> QED
    BY <2>1, <2>2, <2>3 DEF Order, Fresh, CursorsOrdered, Writing, Written, NoBatch, NoCursor
<1> SUFFICES ASSUME Order, [Next]_vars
             PROVE  Order'
  OBVIOUS
<1>1. CASE UNCHANGED vars
  <2>1. UNCHANGED <<segments, cursor_file, pc, active_segment_id, cursor, todo, rd, batch, submitted, accepted>>
    BY <1>1 DEF vars, disk, memory, history
  <2>2. Types'
    BY <2>1 DEF Order, Types
  <2> QED
    BY <2>1, <2>2 DEF Order, Fresh, CursorsOrdered, Writing, Written, NoBatch, NoCursor
<1>2. CASE System
  BY <1>2, OpenOrder, <1>EnqueueOrder, <1>WriteOrder, <1>ReturnOrder, <1>ReadOrder, <1>ReadEndsOrder,
     <1>QuarantineOrder, <1>BatchOrder, CommitOrder DEF System
<1>3. CASE Environment
  BY <1>3, <1>CrashOrder, <1>ReturnOrder, <1>QuarantineOrder, <1>RotOrder DEF Environment
<1> QED
  BY <1>1, <1>2, <1>3 DEF Next

LEMMA OrderInvariance == Spec => []Order
BY InitOrder, NextOrder, PTL DEF Spec

-----------------------------------------------------------------------------
(* Nothing comes back.                                                     *)

LEMMA StoredEarlier ==
  ASSUME FilesOK(segments), NEW c \in Cursor, NEW d \in Cursor, NEW r, Before(c, d), StoredAfter(d, r)
  PROVE  StoredAfter(c, r)
<1>1. PICK s \in DOMAIN segments :
        /\ s >= d.segment_id
        /\ \E o \in 0..Len(segments[s]) :
             (s = d.segment_id => o >= d.offset) /\ FrameAt(segments[s], o, r)
  BY DEF StoredAfter
<1>2. PICK o \in 0..Len(segments[s]) :
        (s = d.segment_id => o >= d.offset) /\ FrameAt(segments[s], o, r)
  BY <1>1
<1>3. s \in Nat /\ Len(segments[s]) \in Nat
  BY SeqIs DEF FilesOK
<1>4. s >= c.segment_id /\ (s = c.segment_id => o >= c.offset)
  BY <1>1, <1>2, <1>3 DEF Before, Cursor
<1> QED
  BY <1>2, <1>4 DEF StoredAfter

\* Creating and removing files stores nothing.
LEMMA OnlyOldFiles ==
  ASSUME FilesOK(segments), NEW c \in Cursor, NEW r \in Records, StoredAfter(c, r)',
         \A s \in DOMAIN segments' :
           \/ s \in DOMAIN segments /\ segments'[s] = segments[s]
           \/ segments'[s] = <<>>
  PROVE  StoredAfter(c, r)
<1>1. PICK s \in DOMAIN segments' :
        /\ s >= c.segment_id
        /\ \E o \in 0..Len(segments'[s]) :
             (s = c.segment_id => o >= c.offset) /\ FrameAt(segments'[s], o, r)
  BY DEF StoredAfter
<1>2. PICK o \in 0..Len(segments'[s]) :
        (s = c.segment_id => o >= c.offset) /\ FrameAt(segments'[s], o, r)
  BY <1>1
<1>3. segments'[s] # <<>>
  <2> SUFFICES ASSUME segments'[s] = <<>>
               PROVE  FALSE
    OBVIOUS
  <2>1. o + storage_bytes_for_payload(r) <= 0 /\ o >= 0 /\ o \in Int
    BY <1>2 DEF FrameAt
  <2> QED
    BY <2>1, Sizes DEF HEADER
<1> QED
  BY <1>1, <1>2, <1>3 DEF StoredAfter

\* A write completes no record but its own.
LEMMA WriteStores ==
  ASSUME Order, WriteCell, NEW c \in Cursor, NEW r \in Records, StoredAfter(c, r)', r # submitted
  PROVE  StoredAfter(c, r)
<1> DEFINE a == active_segment_id
           f == segments[a]
           n == Len(f)
           cell == <<submitted, Written + 1>>
<1>1. /\ a \in DOMAIN segments /\ f \in Seq(Cell) /\ cell \in Cell
      /\ segments' = [segments EXCEPT ![a] = Append(f, cell)]
  BY Written1
<1>2. /\ DOMAIN segments' = DOMAIN segments
      /\ \A s \in DOMAIN segments : s # a => segments'[s] = segments[s]
      /\ segments'[a] = Append(f, cell)
  BY <1>1 DEF Order, Types, FilesOK
<1>3. /\ n \in Nat /\ Len(segments'[a]) = n + 1 /\ segments'[a][n + 1] = cell
      /\ \A i \in 1..n : segments'[a][i] = f[i]
  <2> HIDE DEF cell, f
  <2> QED
    BY <1>1, <1>2, AppendIs, SeqIs
<1>4. PICK s \in DOMAIN segments' :
        /\ s >= c.segment_id
        /\ \E o \in 0..Len(segments'[s]) :
             (s = c.segment_id => o >= c.offset) /\ FrameAt(segments'[s], o, r)
  BY DEF StoredAfter
<1>5. PICK o \in 0..Len(segments'[s]) :
        (s = c.segment_id => o >= c.offset) /\ FrameAt(segments'[s], o, r)
  BY <1>4
<1>6. CASE s # a
  BY <1>2, <1>4, <1>5, <1>6 DEF StoredAfter
<1>7. CASE s = a
  <2> DEFINE z == storage_bytes_for_payload(r)
  <2>1. z \in Nat /\ z > 0 /\ o \in Nat /\ o + z <= n + 1
        /\ \A k \in 1..z : segments'[a][o + k] = <<r, k>>
    BY <1>3, <1>5, <1>7, Sizes DEF FrameAt, HEADER
  <2> HIDE DEF z, n
  <2>2. o + z # n + 1
    <3> SUFFICES ASSUME o + z = n + 1
                 PROVE  FALSE
      OBVIOUS
    <3>1. z \in 1..z
      BY <2>1
    <3>2. segments'[a][o + z] = <<r, z>>
      BY <2>1, <3>1, ZenonT(30)
    <3> QED
      BY <1>3, <3>2
  <2>3. o + z <= n /\ o \in 0..n
    BY <1>3, <2>1, <2>2
  <2>4. \A k \in 1..z : f[o + k] = <<r, k>>
    <3> SUFFICES ASSUME NEW k \in 1..z
                 PROVE  f[o + k] = <<r, k>>
      OBVIOUS
    <3>1. o + k \in 1..n
      BY <1>3, <2>1, <2>3
    <3> QED
      BY <1>3, <2>1, <3>1
  <2>5. FrameAt(f, o, r)
    BY <2>3, <2>4 DEF FrameAt, z, n
  <2> QED
    BY <1>1, <1>4, <1>5, <1>7, <2>3, <2>5 DEF StoredAfter, n
<1> QED
  BY <1>6, <1>7

\* Damage completes none.
LEMMA RotStores ==
  ASSUME Order, BitRot, NEW c \in Cursor, NEW r \in Records, StoredAfter(c, r)'
  PROVE  StoredAfter(c, r)
<1>1. PICK u \in DOMAIN segments : \E i \in 1..Len(segments[u]) : \E q \in Records :
        /\ FilesOK(segments') /\ DOMAIN segments' = DOMAIN segments
        /\ \A s \in DOMAIN segments : s # u => segments'[s] = segments[s]
        /\ Len(segments'[u]) = Len(segments[u])
        /\ segments'[u][i] = <<q, 0>>
        /\ \A j \in 1..Len(segments[u]) : j # i => segments'[u][j] = segments[u][j]
  BY Rots
<1>2. PICK i \in 1..Len(segments[u]), q \in Records :
        /\ DOMAIN segments' = DOMAIN segments
        /\ \A s \in DOMAIN segments : s # u => segments'[s] = segments[s]
        /\ Len(segments'[u]) = Len(segments[u])
        /\ segments'[u][i] = <<q, 0>>
        /\ \A j \in 1..Len(segments[u]) : j # i => segments'[u][j] = segments[u][j]
  BY <1>1
<1>3. PICK s \in DOMAIN segments :
        /\ s >= c.segment_id
        /\ \E o \in 0..Len(segments'[s]) :
             (s = c.segment_id => o >= c.offset) /\ FrameAt(segments'[s], o, r)
  BY <1>2 DEF StoredAfter
<1>4. PICK o \in 0..Len(segments'[s]) :
        (s = c.segment_id => o >= c.offset) /\ FrameAt(segments'[s], o, r)
  BY <1>3
<1>5. CASE s # u
  BY <1>2, <1>3, <1>4, <1>5 DEF StoredAfter
<1>6. CASE s = u
  <2> DEFINE z == storage_bytes_for_payload(r)
             n == Len(segments[u])
  <2>1. z \in Nat /\ o \in Nat /\ o + z <= n /\ n \in Nat
        /\ \A k \in 1..z : segments'[u][o + k] = <<r, k>>
    <3>1. segments[u] \in Seq(Cell)
      BY DEF Order, Types, FilesOK
    <3>2. n \in Nat /\ o \in Nat /\ z \in Nat
      BY <1>2, <1>6, <3>1, Sizes, SeqIs
    <3> QED
      BY <1>2, <1>4, <1>6, <3>2, ZenonT(30) DEF FrameAt
  <2> HIDE DEF z, n
  <2>2. \A k \in 1..z : o + k \in 1..n /\ o + k # i
    <3> SUFFICES ASSUME NEW k \in 1..z
                 PROVE  o + k \in 1..n /\ o + k # i
      OBVIOUS
    <3>1. k \in Nat /\ k > 0 /\ o + k \in 1..n
      BY <2>1
    <3>2. segments'[u][o + k] = <<r, k>>
      BY <2>1, ZenonT(30)
    <3>3. segments'[u][i] = <<q, 0>>
      BY <1>2
    <3>4. k # 0
      BY <3>1
    <3>5. o + k # i
      BY <3>2, <3>3, <3>4
    <3> QED
      BY <3>1, <3>5, ZenonT(30)
  <2>3. \A k \in 1..z : segments[u][o + k] = <<r, k>>
    BY <1>2, <2>1, <2>2, ZenonT(30) DEF n
  <2>4. FrameAt(segments[u], o, r)
    BY <2>1, <2>3 DEF FrameAt, z, n
  <2> QED
    BY <1>2, <1>3, <1>4, <1>6, <2>4 DEF StoredAfter
<1> QED
  BY <1>5, <1>6

\* What every other step does to the files.
LEMMA OtherFiles ==
  ASSUME Order, Next \/ UNCHANGED vars, ~WriteCell, ~BitRot
  PROVE  \A s \in DOMAIN segments' :
           \/ s \in DOMAIN segments /\ segments'[s] = segments[s]
           \/ segments'[s] = <<>>
<1>0. FilesOK(segments)
  BY DEF Order, Types
<1>1. CASE UNCHANGED segments
  BY <1>1
<1>2. ASSUME NEW id \in Nat \ {0}, segments' = Create(id)
      PROVE  \A s \in DOMAIN segments' :
               \/ s \in DOMAIN segments /\ segments'[s] = segments[s]
               \/ segments'[s] = <<>>
  BY <1>0, <1>2, Created, ZenonT(30)
<1>3. CASE Open
  <2>1. LastSegment \in Nat \ {0}
    BY LastSegmentIsLast DEF Order, Types, FilesOK, LastOne
  <2>2. segments' = segments \/ segments' = Create(LastSegment)
    BY <1>3 DEF Open, OpenAt
  <2> QED
    BY <1>1, <1>2, <2>1, <2>2
<1>4. CASE Enqueue
  <2>1. active_segment_id \in Nat \ {0}
    BY <1>4 DEF Enqueue, Order, Types, CursorsOrdered
  <2>2. \/ segments' = segments \/ segments' = Create(active_segment_id)
        \/ segments' = Create(active_segment_id + 1)
    BY <1>4 DEF Enqueue
  <2>3. active_segment_id + 1 \in Nat \ {0}
    BY <2>1
  <2> QED
    BY <1>1, <1>2, <2>1, <2>2, <2>3
<1>5. CASE QuarantineAdvance
  <2>1. rd.at.segment_id + 1 \in Nat \ {0}
    BY DEF Order, Types, Cursor
  <2>2. segments' = segments \/ segments' = Create(rd.at.segment_id + 1)
    BY <1>5 DEF QuarantineAdvance
  <2> QED
    BY <1>1, <1>2, <2>1, <2>2
<1>6. CASE QuarantineSegment \/ RemoveSegment
  <2>1. PICK S : segments' = Restrict(segments, DOMAIN segments \ S)
    BY <1>6, ZenonT(30) DEF QuarantineSegment, RemoveSegment
  <2> QED
    BY <2>1 DEF Restrict
<1>7. CASE EnqueueReturn \/ ReadBatch \/ ReadRecord \/ ReadMove \/ ReadReturn \/ ExportSucceeds
           \/ ExportFails \/ CommitBatch \/ PersistCursor
  <2>1. UNCHANGED segments
    BY <1>7 DEF EnqueueReturn, ReadBatch, ReadRecord, ReadMove, ReadReturn, ExportSucceeds,
                ExportFails, CommitBatch, PersistCursor, disk
  <2> QED
    BY <1>1, <2>1
<1>8. CASE (Environment /\ ~BitRot) \/ UNCHANGED vars
  <2>1. UNCHANGED segments
    BY <1>8 DEF Environment, Crash, WriteFails, QuarantineFails, RotateFails, CommitFails, disk, vars
  <2> QED
    BY <1>1, <2>1
<1> QED
  BY <1>3, <1>4, <1>5, <1>6, <1>7, <1>8 DEF Next, System

\* The cursor of a restart moves only when it is persisted.
LEMMA RecoveryStep ==
  ASSUME Order, [Next]_vars
  PROVE  \/ RecoveryCursor' = RecoveryCursor
         \/ PersistCursor /\ RecoveryCursor' = cursor /\ RecoveryCursor = cursor_file
         \/ DOMAIN segments' = {}
<1>1. CASE Open
  <2>1. cursor_file' = RecoveryCursor
    BY <1>1 DEF Open, OpenAt
  <2>2. cursor_file' # NoCursor
    BY <1>1, OpenOrder DEF Order, Fresh, Open, OpenAt
  <2> QED
    BY <2>1, <2>2, ZenonT(30) DEF RecoveryCursor, NoCursor
<1>2. CASE PersistCursor
  <2>1. cursor_file' = cursor /\ pc = "commit" /\ pc' = "idle"
    BY <1>2 DEF PersistCursor
  <2>2. cursor_file' # NoCursor /\ cursor_file # NoCursor
    BY <1>2, <2>1, CommitOrder DEF Order, Fresh, NoCursor
  <2> QED
    BY <1>2, <2>1, <2>2, ZenonT(30) DEF RecoveryCursor, NoCursor
<1>3. CASE UNCHANGED cursor_file
  <2>1. CASE cursor_file # NoCursor
    BY <1>3, <2>1 DEF RecoveryCursor, NoCursor
  <2>2. CASE cursor_file = NoCursor
    <3>1. Order'
      BY NextOrder
    <3> QED
      BY <1>3, <2>2, <3>1 DEF Order, Fresh, NoCursor
  <2> QED
    BY <2>1, <2>2
<1> QED
  BY <1>1, <1>2, <1>3, ZenonT(30)
     DEF Next, System, Environment, vars, disk, Enqueue, WriteCell, EnqueueReturn, ReadBatch, ReadRecord,
         ReadMove, QuarantineSegment, ReadReturn, QuarantineAdvance, ExportSucceeds, ExportFails,
         CommitBatch, RemoveSegment, Crash, WriteFails, QuarantineFails, RotateFails, CommitFails, BitRot

\* A record a restart would not find is not found later either, unless it is the
\* one being written: for every fault, in any number.
THEOREM NothingReturns == Spec => NothingComesBack
<1>1. ASSUME Order, [Next]_vars, NEW r \in Records, Stored(r)', ~(pc = "write" /\ r = submitted)
      PROVE  Stored(r)
  <2>1. PICK c : c = RecoveryCursor'
    OBVIOUS
  <2>2. StoredAfter(c, r)' /\ DOMAIN segments' # {}
    BY <1>1, <2>1 DEF Stored, StoredAfter
  <2>3. /\ FilesOK(segments) /\ cursor \in Cursor /\ cursor_file \in Cursor
        /\ RecoveryCursor \in Cursor
    <3>1. cursor_file = NoCursor => RecoveryCursor = [segment_id |-> 1, offset |-> 0]
      BY <1>1 DEF Order, Fresh, RecoveryCursor
    <3>2. [segment_id |-> 1, offset |-> 0] \in Cursor
      BY DEF Cursor
    <3> QED
      BY <1>1, <3>1, <3>2 DEF Order, Types, RecoveryCursor
  <2>4. c \in Cursor
    BY <1>1, <2>1, <2>2, <2>3, RecoveryStep
  <2>5. StoredAfter(c, r)
    <3>1. CASE WriteCell
      <4>1. pc = "write"
        BY <3>1 DEF WriteCell
      <4> QED
        BY <1>1, <2>2, <2>4, <3>1, <4>1, WriteStores
    <3>2. CASE BitRot
      BY <1>1, <2>2, <2>4, <3>2, RotStores
    <3>3. CASE ~WriteCell /\ ~BitRot
      BY <1>1, <2>2, <2>3, <2>4, <3>3, OtherFiles, OnlyOldFiles
    <3> QED
      BY <3>1, <3>2, <3>3
  <2>6. CASE c = RecoveryCursor
    BY <2>5, <2>6 DEF Stored
  <2>7. CASE PersistCursor /\ c = cursor /\ RecoveryCursor = cursor_file
    <3>1. Before(cursor_file, cursor)
      BY <1>1, <2>7 DEF PersistCursor, Order, CursorsOrdered
    <3> QED
      BY <2>3, <2>5, <2>7, <3>1, StoredEarlier DEF Stored
  <2> QED
    BY <1>1, <2>1, <2>2, <2>6, <2>7, RecoveryStep
<1>2. Order /\ [Next]_vars =>
        [\A r \in Records : ~Stored(r) /\ Stored(r)' => pc = "write" /\ r = submitted]_vars
  BY <1>1
<1> QED
  BY <1>2, OrderInvariance, PTL DEF Spec, NothingComesBack

-----------------------------------------------------------------------------
(* No file is newer than the active segment, so that creating a segment    *)
(* truncates nothing.                                                      *)

\* And no reader is past it.
Below ==
  pc # "closed" =>
    /\ \A s \in DOMAIN segments : s <= active_segment_id
    /\ batch # NoBatch => batch.next_cursor.segment_id <= active_segment_id
    /\ pc = "commit" => cursor.segment_id <= active_segment_id
    /\ pc \in {"read", "quarantine"} /\ (rd.payloads # <<>> \/ rd.should_commit) =>
         rd.at.segment_id <= active_segment_id
    /\ pc = "quarantine" =>
         rd.at.segment_id <= active_segment_id /\ rd.at.segment_id \notin DOMAIN segments

LEMMA FaultsGrow ==
  ASSUME [Next]_vars
  PROVE  faults \subseteq faults'
<1>1. CASE System
  BY <1>1 DEF System, Open, OpenAt, Enqueue, WriteCell, EnqueueReturn, ReadBatch, ReadRecord,
     ReadMove, QuarantineSegment, ReadReturn, QuarantineAdvance, ExportSucceeds, ExportFails,
     CommitBatch, RemoveSegment, PersistCursor
<1>2. CASE Environment
  BY <1>2, ZenonT(30) DEF Environment, Crash, WriteFails, QuarantineFails, RotateFails, CommitFails, BitRot, Fault
<1>3. CASE UNCHANGED vars
  BY <1>3 DEF vars
<1> QED
  BY <1>1, <1>2, <1>3 DEF Next

\* What was read lies in a file, so no later than the active segment.
LEMMA NextBelow == Order /\ Below /\ [Next]_vars => Below'
<1> SUFFICES ASSUME Order, Below, [Next]_vars
             PROVE  Below'
  OBVIOUS
<1>0. NoBatch' = NoBatch /\ NoBatch.sent = FALSE
  BY DEF NoBatch, NoCursor
<1>1. CASE Open
  <2> DEFINE m == LastSegment
  <2>1. /\ pc' = "idle" /\ active_segment_id' = m /\ batch' = NoBatch
        /\ segments' = IF m \in DOMAIN segments THEN segments ELSE Create(m)
    BY <1>1 DEF Open, OpenAt, Order, CursorsOrdered
  <2>2. \A s \in DOMAIN segments' : s <= m
    <3>1. CASE m \in DOMAIN segments
      BY <2>1, <3>1, LastSegmentIsLast DEF Order, LastOne
    <3>2. CASE m \notin DOMAIN segments
      <4>1. DOMAIN segments = {} /\ m = 1
        BY <3>2, LastSegmentIsLast DEF Order, LastOne
      <4>2. segments' = Create(1) /\ FilesOK(segments) /\ 1 \in Nat \ {0}
        BY <2>1, <3>2, <4>1 DEF Order, Types
      <4>3. DOMAIN segments' = {1}
        BY <4>1, <4>2, Created, ZenonT(30)
      <4> QED
        BY <4>1, <4>3
    <3> QED
      BY <3>1, <3>2
  <2> HIDE DEF m
  <2> QED
    BY <1>0, <2>1, <2>2 DEF Below
<1>2. CASE Enqueue
  <2> DEFINE a == active_segment_id
  <2>1. pc = "idle" /\ pc' = "write" /\ UNCHANGED <<batch, cursor, rd>>
    BY <1>2 DEF Enqueue
  <2>2. a \in Nat \ {0} /\ a + 1 \in Nat \ {0} /\ FilesOK(segments) /\ (\A s \in DOMAIN segments : s <= a)
    BY <2>1 DEF Order, CursorsOrdered, Types, Below
  <2>3. /\ active_segment_id' \in {a, a + 1}
        /\ segments' = segments \/ segments' = Create(active_segment_id')
    BY <1>2 DEF Enqueue
  <2>4. DOMAIN segments' \subseteq DOMAIN segments \cup {active_segment_id'}
    <3>1. DOMAIN Create(a) = DOMAIN segments \cup {a} /\ DOMAIN Create(a + 1) = DOMAIN segments \cup {a + 1}
      BY <2>2, Created, ZenonT(30)
    <3> QED
      BY <2>3, <3>1, ZenonT(30)
  <2>5. DOMAIN segments \subseteq Nat /\ batch.next_cursor.segment_id \in Nat
    BY DEF Order, Types, FilesOK, Cursor
  <2>6. batch # NoBatch => batch.next_cursor.segment_id <= a
    BY <2>1 DEF Below
  <2> HIDE DEF a
  <2>7. \A s \in DOMAIN segments' : s <= active_segment_id'
    BY <2>2, <2>3, <2>4, <2>5
  <2>8. batch # NoBatch => batch.next_cursor.segment_id <= active_segment_id'
    BY <2>2, <2>3, <2>5, <2>6
  <2> QED
    BY <1>0, <2>1, <2>7, <2>8, ZenonT(30) DEF Below
<1>3. CASE WriteCell
  <2>1. DOMAIN segments' = DOMAIN segments
    BY <1>3 DEF WriteCell
  <2> QED
    BY <1>0, <1>3, <2>1, ZenonT(30) DEF WriteCell, memory, history, Below
<1>4. CASE EnqueueReturn
  BY <1>0, <1>4 DEF EnqueueReturn, disk, Below
<1>5. CASE ReadBatch \/ ReadRecord \/ ReadMove \/ ReadReturn
  <2>1. /\ pc # "closed" /\ (\A s \in DOMAIN segments : s <= active_segment_id)
        /\ pc' # "quarantine" /\ UNCHANGED <<segments, active_segment_id>>
    BY <1>5 DEF ReadBatch, ReadRecord, ReadMove, ReadReturn, disk, memory, Below
  <2>2. CASE ReadBatch
    <3>1. pc' = "read" /\ batch' = NoBatch /\ rd'.payloads = <<>> /\ rd'.should_commit = FALSE
      BY <2>2 DEF ReadBatch
    <3> QED
      BY <1>0, <2>1, <3>1 DEF Below
  <2>3. CASE ReadRecord \/ ReadMove
    <3>1. /\ pc = "read" /\ pc' = "read" /\ batch' = NoBatch /\ rd.at \in Cursor
          /\ rd'.at = read_step_at(rd.at).next /\ read_step_at(rd.at).kind \in {"record", "move"}
      BY <2>3, ZenonT(30) DEF ReadRecord, ReadMove, Order, CursorsOrdered, Types
    <3>2. rd'.at.segment_id \in DOMAIN segments
      <4> DEFINE n == read_step_at(rd.at)
      <4>1. /\ n.kind = "record" =>
                 /\ rd.at.segment_id \in DOMAIN segments
                 /\ n.next = [rd.at EXCEPT !.offset = @ + storage_bytes_for_payload(n.rec)]
            /\ n.kind = "move" => n.next.segment_id \in DOMAIN segments
        BY <3>1, Reads DEF Order
      <4> HIDE DEF n
      <4> QED
        BY <3>1, <4>1 DEF n, Cursor
    <3> QED
      BY <1>0, <2>1, <3>1, <3>2 DEF Below
  <2>4. CASE ReadReturn
    <3>1. /\ pc = "read" /\ pc' \in {"idle", "commit"}
          /\ batch' # NoBatch => rd.payloads # <<>> /\ batch'.next_cursor = rd.at
          /\ pc' = "commit" => rd.should_commit /\ cursor' = rd.at
      BY <2>4, ZenonT(30) DEF ReadReturn, CursorAfterRead
    <3> QED
      BY <1>0, <2>1, <3>1 DEF Below
  <2> QED
    BY <1>5, <2>2, <2>3, <2>4
<1>6. CASE QuarantineSegment
  <2> DEFINE id == rd.at.segment_id
  <2>1. /\ pc = "read" /\ pc' = "quarantine" /\ read_step_at(rd.at).kind = "corrupt"
        /\ segments' = Restrict(segments, DOMAIN segments \ {id})
        /\ UNCHANGED <<active_segment_id, rd, batch>>
    BY <1>6 DEF QuarantineSegment
  <2>2. id \in DOMAIN segments /\ FilesOK(segments) /\ batch = NoBatch
    BY <2>1, Reads, ZenonT(30) DEF Order, Types, CursorsOrdered
  <2>3. DOMAIN segments' = DOMAIN segments \ {id}
    BY <2>1, <2>2, Removed
  <2> QED
    BY <1>0, <2>1, <2>2, <2>3 DEF Below
<1>7. CASE QuarantineAdvance
  <2> DEFINE id == rd.at.segment_id
             a == active_segment_id
  <2>1. /\ pc = "quarantine" /\ pc' = "read" /\ id <= a /\ (\A s \in DOMAIN segments : s <= a)
        /\ UNCHANGED <<cursor, batch>> /\ batch = NoBatch
    BY <1>7 DEF QuarantineAdvance, Below, Order, CursorsOrdered
  <2>2. FilesOK(segments) /\ a \in Nat /\ id \in Nat /\ id + 1 \in Nat \ {0} /\ DOMAIN segments \subseteq Nat
    BY DEF Order, Types, Cursor, FilesOK
  <2>3. CASE id >= a
    <3>1. active_segment_id' = a + 1 /\ segments' = Create(a + 1) /\ rd'.at.segment_id = a + 1
      <4>1. id = a
        BY <2>1, <2>2, <2>3
      <4>2. rd' = [rd EXCEPT !.at = [segment_id |-> id + 1, offset |-> 0], !.should_commit = TRUE]
        BY <1>7, <2>3 DEF QuarantineAdvance
      <4>3. rd'.at = [segment_id |-> id + 1, offset |-> 0]
        BY <4>2 DEF Order, Types
      <4> QED
        BY <1>7, <2>3, <4>1, <4>3 DEF QuarantineAdvance
    <3>2. a + 1 \in Nat \ {0}
      BY <2>2
    <3>3. DOMAIN segments' = DOMAIN segments \cup {a + 1}
      BY <2>2, <3>1, <3>2, Created, ZenonT(30)
    <3> QED
      BY <1>0, <2>1, <2>2, <3>1, <3>3 DEF Below
  <2>4. CASE ~(id >= a)
    <3> DEFINE n == next_cursor_after(id)
    <3>1. n.kind = "empty" \/ n.next.segment_id \in DOMAIN segments
      BY Moves, ZenonT(30) DEF Order, Types
    <3> HIDE DEF n
    <3>2. /\ UNCHANGED <<segments, active_segment_id>>
          /\ rd' = IF n.kind = "empty" THEN rd
                   ELSE [rd EXCEPT !.at = n.next, !.should_commit = TRUE]
      BY <1>7, <2>4 DEF QuarantineAdvance, n
    <3>3. n.kind # "empty" => rd'.at = n.next
      BY <3>2 DEF Order, Types
    <3> QED
      BY <1>0, <2>1, <3>1, <3>2, <3>3 DEF Below
  <2> QED
    BY <2>3, <2>4
<1>8. CASE ExportSucceeds \/ ExportFails
  <2>1. /\ UNCHANGED <<segments, pc, active_segment_id, cursor, rd>> /\ batch # NoBatch
        /\ batch' = NoBatch \/ batch'.next_cursor = batch.next_cursor
    BY <1>8 DEF ExportSucceeds, ExportFails, disk, memory, history, Order, Types
  <2> QED
    BY <1>0, <2>1 DEF Below
<1>9. CASE CommitBatch \/ PersistCursor
  <2>1. /\ pc' \in {"idle", "commit"} /\ pc # "closed" /\ UNCHANGED <<segments, active_segment_id>>
        /\ batch' = NoBatch \/ batch' = batch
        /\ pc' = "commit" => batch # NoBatch /\ cursor' = batch.next_cursor
    BY <1>0, <1>9 DEF CommitBatch, PersistCursor, disk, memory
  <2> QED
    BY <1>0, <2>1 DEF Below
<1>10. CASE RemoveSegment
  <2>1. /\ pc = "commit" /\ Consumed # {} /\ segments' = Restrict(segments, DOMAIN segments \ {Min(Consumed)})
        /\ UNCHANGED <<pc, active_segment_id, cursor, rd, batch>>
    BY <1>10 DEF RemoveSegment
  <2>2. DOMAIN segments' \subseteq DOMAIN segments
    BY <2>1 DEF Restrict
  <2> QED
    BY <1>0, <2>1, <2>2, ZenonT(30) DEF Below
<1>11. CASE Crash
  BY <1>11 DEF Crash, Below
<1>12. CASE WriteFails \/ CommitFails
  <2>1. pc # "closed" /\ pc' = "idle" /\ UNCHANGED <<segments, active_segment_id, cursor, rd, batch>>
    BY <1>12 DEF WriteFails, CommitFails, disk, memory
  <2> QED
    BY <1>0, <2>1 DEF Below
<1>13. CASE QuarantineFails \/ RotateFails
  <2>1. /\ pc \in {"quarantine", "idle"} /\ pc' = "idle" /\ UNCHANGED <<segments, batch>>
        /\ \/ active_segment_id' = active_segment_id
           \/ active_segment_id' = active_segment_id + 1
           \/ pc = "quarantine" /\ active_segment_id' = rd.at.segment_id + 1 /\ rd.at.segment_id >= active_segment_id
    BY <1>13 DEF QuarantineFails, RotateFails, disk
  <2>2. /\ active_segment_id \in Nat /\ DOMAIN segments \subseteq Nat /\ rd.at.segment_id \in Nat
        /\ batch.next_cursor.segment_id \in Nat
    BY DEF Order, Types, FilesOK, Cursor
  <2>3. /\ \A s \in DOMAIN segments : s <= active_segment_id
        /\ batch # NoBatch => batch.next_cursor.segment_id <= active_segment_id
    BY <2>1 DEF Below
  <2>4. /\ \A s \in DOMAIN segments : s <= active_segment_id'
        /\ batch # NoBatch => batch.next_cursor.segment_id <= active_segment_id'
    BY <2>1, <2>2, <2>3
  <2> QED
    BY <1>0, <2>1, <2>4 DEF Below
<1>14. CASE BitRot
  <2>1. UNCHANGED <<pc, active_segment_id, cursor, rd, batch>> /\ DOMAIN segments' = DOMAIN segments
    BY <1>14 DEF BitRot, memory
  <2> QED
    BY <1>0, <2>1 DEF Below
<1>15. CASE UNCHANGED vars
  <2>1. UNCHANGED <<segments, pc, active_segment_id, cursor, rd, batch>>
    BY <1>15 DEF vars, disk, memory
  <2> QED
    BY <1>0, <2>1 DEF Below
<1> QED
  BY <1>1, <1>2, <1>3, <1>4, <1>5, <1>6, <1>7, <1>8, <1>9, <1>10, <1>11, <1>12, <1>13, <1>14, <1>15, ZenonT(30)
     DEF Next, System, Environment

LEMMA BelowInvariance == Spec => []Below
<1>1. Init => Below
  BY DEF Init, Below
<1> QED
  BY <1>1, NextBelow, OrderInvariance, PTL DEF Spec

-----------------------------------------------------------------------------
(* A record in the files.                                                  *)

\* r lies whole in the files g, ahead of a reader at c.
StoredIn(g, c, r) ==
  \E s \in DOMAIN g :
    /\ s >= c.segment_id
    /\ \E o \in 0..Len(g[s]) : (s = c.segment_id => o >= c.offset) /\ FrameAt(g[s], o, r)

\* Appending to the active segment moves no frame.
LEMMA AppendStored ==
  ASSUME FilesOK(segments), NEW a \in DOMAIN segments, NEW cell \in Cell,
         segments' = [segments EXCEPT ![a] = Append(segments[a], cell)],
         NEW c \in Cursor, NEW r \in Records, StoredIn(segments, c, r)
  PROVE  StoredIn(segments', c, r)
<1>1. /\ DOMAIN segments' = DOMAIN segments
      /\ \A s \in DOMAIN segments : s # a => segments'[s] = segments[s]
      /\ segments'[a] = Append(segments[a], cell)
  BY DEF FilesOK
<1>2. /\ Len(segments[a]) \in Nat /\ Len(segments'[a]) = Len(segments[a]) + 1
      /\ \A i \in 1..Len(segments[a]) : segments'[a][i] = segments[a][i]
  BY <1>1, AppendIs, SeqIs DEF FilesOK
<1>3. PICK s \in DOMAIN segments :
        /\ s >= c.segment_id
        /\ \E o \in 0..Len(segments[s]) : (s = c.segment_id => o >= c.offset) /\ FrameAt(segments[s], o, r)
  BY DEF StoredIn
<1>4. PICK o \in 0..Len(segments[s]) : (s = c.segment_id => o >= c.offset) /\ FrameAt(segments[s], o, r)
  BY <1>3
<1>5. CASE s # a
  BY <1>1, <1>3, <1>4, <1>5 DEF StoredIn
<1>6. CASE s = a
  <2> DEFINE z == storage_bytes_for_payload(r)
             n == Len(segments[a])
  <2>1. z \in Nat /\ o \in 0..n /\ o + z <= n /\ n \in Nat /\ \A k \in 1..z : segments[a][o + k] = <<r, k>>
    BY <1>2, <1>4, <1>6, Sizes DEF FrameAt
  <2> HIDE DEF z, n
  <2>2. \A k \in 1..z : o + k \in 1..n
    BY <2>1
  <2>3. \A k \in 1..z : segments'[a][o + k] = <<r, k>>
    BY <1>2, <2>1, <2>2 DEF n
  <2>4. o \in 0..(n + 1) /\ o + z <= n + 1
    BY <2>1
  <2>5. FrameAt(segments'[a], o, r) /\ o \in 0..Len(segments'[a])
    BY <1>2, <2>3, <2>4, ZenonT(30) DEF FrameAt, z, n
  <2> QED
    BY <1>1, <1>3, <1>4, <1>6, <2>5 DEF StoredIn
<1> QED
  BY <1>5, <1>6

-----------------------------------------------------------------------------
(* Reading.                                                                *)

\* The reader is past one more record, which is now in its hands: the frames it
\* steps over overlap that of no other record.
LEMMA SkipRecord ==
  ASSUME FilesOK(segments), NEW c \in Cursor, NEW q \in Records, NEW r \in Records,
         c.segment_id \in DOMAIN segments, FrameAt(segments[c.segment_id], c.offset, q),
         NEW d \in Cursor, d = [c EXCEPT !.offset = @ + storage_bytes_for_payload(q)],
         StoredAfter(c, r), r # q
  PROVE  StoredAfter(d, r)
<1> DEFINE z == storage_bytes_for_payload(q)
           f == segments[c.segment_id]
<1>1. d.segment_id = c.segment_id /\ d.offset = c.offset + z
  BY DEF Cursor
<1>2. PICK s \in DOMAIN segments :
        /\ s >= c.segment_id
        /\ \E o \in 0..Len(segments[s]) : (s = c.segment_id => o >= c.offset) /\ FrameAt(segments[s], o, r)
  BY DEF StoredAfter
<1>3. PICK o \in 0..Len(segments[s]) : (s = c.segment_id => o >= c.offset) /\ FrameAt(segments[s], o, r)
  BY <1>2
<1>4. /\ c.offset \in Nat /\ z \in Nat /\ o \in Nat
      /\ storage_bytes_for_payload(r) \in Nat /\ storage_bytes_for_payload(r) > 0
  BY Sizes DEF Cursor, HEADER
<1>5. ASSUME s = c.segment_id, o < d.offset
      PROVE  FALSE
  <2>1. f[o + 1] = <<r, 1>>
    <3>1. 1 \in 1..storage_bytes_for_payload(r)
      BY <1>4
    <3> QED
      BY <1>3, <1>5, <3>1 DEF FrameAt
  <2> DEFINE k == o + 1 - c.offset
  <2>2. k \in 1..z /\ c.offset + k = o + 1
    BY <1>1, <1>3, <1>4, <1>5
  <2>3. f[c.offset + k] = <<q, k>>
    <3> HIDE DEF k
    <3> QED
      BY <2>2, ZenonT(30) DEF FrameAt
  <2> HIDE DEF k
  <2>4. <<r, 1>> = <<q, k>>
    BY <2>1, <2>2, <2>3
  <2> QED
    BY <2>4
<1>6. s >= d.segment_id /\ (s = d.segment_id => o >= d.offset)
  BY <1>1, <1>2, <1>4, <1>5
<1> QED
  BY <1>3, <1>6 DEF StoredAfter

\* Going on to the next segment steps over none.
LEMMA SkipEnd ==
  ASSUME FilesOK(segments), NEW c \in Cursor, NEW r \in Records, NEW d \in Cursor, d.offset = 0,
         \A s \in DOMAIN segments : s > c.segment_id => s >= d.segment_id,
         c.segment_id \in DOMAIN segments => Len(segments[c.segment_id]) < c.offset + HEADER,
         StoredAfter(c, r)
  PROVE  StoredAfter(d, r)
<1>1. PICK s \in DOMAIN segments :
        /\ s >= c.segment_id
        /\ \E o \in 0..Len(segments[s]) : (s = c.segment_id => o >= c.offset) /\ FrameAt(segments[s], o, r)
  BY DEF StoredAfter
<1>2. PICK o \in 0..Len(segments[s]) : (s = c.segment_id => o >= c.offset) /\ FrameAt(segments[s], o, r)
  BY <1>1
<1>3. s \in Nat /\ Len(segments[s]) \in Nat /\ c.segment_id \in Nat /\ c.offset \in Nat
  BY SeqIs DEF FilesOK, Cursor
<1>4. storage_bytes_for_payload(r) \in Nat /\ storage_bytes_for_payload(r) > HEADER
  BY Sizes
<1>5. o + storage_bytes_for_payload(r) <= Len(segments[s])
  BY <1>2 DEF FrameAt
<1>6. s # c.segment_id
  BY <1>2, <1>3, <1>4, <1>5 DEF HEADER
<1>7. s >= d.segment_id
  BY <1>1, <1>3, <1>6
<1> QED
  BY <1>2, <1>3, <1>7 DEF StoredAfter

-----------------------------------------------------------------------------
(***************************************************************************)
(* Records are read in the order they were accepted.  The cells of the     *)
(* files are in the order they were written (CellsInOrder), which damage   *)
(* does not change, and no cell is newer than the record being written     *)
(* (NoneNewer); so the frames that are whole are in order, and what a      *)
(* reader holds is older than what lies ahead of it (HeldInOrder).         *)
(***************************************************************************)

\* A damaged first cell is 0.
Earlier(a, b) == a[1] < b[1] \/ (a[1] = b[1] /\ a[2] < b[2] /\ b[2] > 1)

CellsInOrder ==
  \A s, t \in DOMAIN segments : \A i \in DOMAIN segments[s], j \in DOMAIN segments[t] :
    s < t \/ (s = t /\ i < j) => Earlier(segments[s][i], segments[t][j])

NoneNewer ==
  \A s \in DOMAIN segments : \A i \in DOMAIN segments[s] :
    /\ segments[s][i][1] <= submitted
    /\ pc = "write" /\ segments[s][i][1] = submitted =>
         Written > 0 /\ segments[s][i][2] <= Written

\* The records that were read, and those of them that were exported.
Taken == exported \cup Range(rd.payloads) \cup Range(batch.payloads)

NoneTakenNewer ==
  \A r \in Taken : r \in Records /\ r <= submitted /\ (pc = "write" => r < submitted)

InOrder(x, c) == Increasing(x) /\ \A i \in DOMAIN x : \A r \in Ahead(c) : x[i] < r

HeldInOrder ==
  /\ pc \in {"read", "quarantine"} => InOrder(rd.payloads, rd.at)
  /\ batch # NoBatch => InOrder(batch.payloads, batch.next_cursor)

Fifo == CellsInOrder /\ NoneNewer /\ NoneTakenNewer /\ HeldInOrder

-----------------------------------------------------------------------------
LEMMA CellIs ==
  ASSUME Order, NEW s \in DOMAIN segments
  PROVE  /\ s \in Nat /\ segments[s] \in Seq(Cell) /\ Len(segments[s]) \in Nat
         /\ DOMAIN segments[s] = 1..Len(segments[s])
         /\ \A i \in DOMAIN segments[s] :
              segments[s][i][1] \in Nat /\ segments[s][i][2] \in Nat
<1>1. s \in Nat /\ segments[s] \in Seq(Cell)
  BY DEF Order, Types, FilesOK
<1>2. Len(segments[s]) \in Nat /\ DOMAIN segments[s] = 1..Len(segments[s])
  BY <1>1, SeqIs
<1>3. \A i \in DOMAIN segments[s] : segments[s][i] \in Cell
  BY <1>1, <1>2, SeqIs
<1> QED
  BY <1>1, <1>2, <1>3, QueueAssumption DEF Cell, Records

\* Where the frame of a record lies is its first cell.
LEMMA FirstCell ==
  ASSUME NEW f \in Seq(Cell), NEW o \in Nat, NEW r \in Records, FrameAt(f, o, r)
  PROVE  o + 1 \in DOMAIN f /\ f[o + 1] = <<r, 1>>
<1>1. storage_bytes_for_payload(r) \in Nat /\ storage_bytes_for_payload(r) > 0
  BY Sizes DEF HEADER
<1>2. 1 \in 1..storage_bytes_for_payload(r) /\ o + 1 \in 1..Len(f)
  BY <1>1, SeqIs DEF FrameAt
<1> QED
  BY <1>2, SeqIs DEF FrameAt

LEMMA FramesInOrder ==
  ASSUME Order, CellsInOrder
  PROVE  StoredInOrder
<1> SUFFICES ASSUME NEW s \in DOMAIN segments, NEW o \in 0..Len(segments[s]), NEW q \in Records,
                    NEW t \in DOMAIN segments, NEW p \in 0..Len(segments[t]), NEW r \in Records,
                    FrameAt(segments[s], o, q), FrameAt(segments[t], p, r), s < t \/ (s = t /\ o < p)
             PROVE  q < r
  BY DEF StoredInOrder
<1>1. s \in Nat /\ t \in Nat /\ o \in Nat /\ p \in Nat /\ segments[s] \in Seq(Cell) /\ segments[t] \in Seq(Cell)
  BY CellIs
<1>2. /\ o + 1 \in DOMAIN segments[s] /\ segments[s][o + 1] = <<q, 1>>
      /\ p + 1 \in DOMAIN segments[t] /\ segments[t][p + 1] = <<r, 1>>
  BY <1>1, FirstCell
<1>3. Earlier(<<q, 1>>, <<r, 1>>)
  <2>1. s < t \/ (s = t /\ o + 1 < p + 1)
    BY <1>1
  <2> QED
    BY <1>2, <2>1, ZenonT(30) DEF CellsInOrder
<1> QED
  BY <1>3 DEF Earlier

-----------------------------------------------------------------------------
\* What lies ahead of a cursor only loses records, but for the one written.
LEMMA AheadShrinks ==
  ASSUME Order, [Next]_vars, NEW c \in Cursor, NEW r \in Ahead(c)'
  PROVE  r \in Records /\ (r \in Ahead(c) \/ (WriteCell /\ r = submitted))
<1>1. r \in Records /\ StoredAfter(c, r)'
  BY DEF Ahead
<1>2. CASE WriteCell
  BY <1>1, <1>2, WriteStores DEF Ahead
<1>3. CASE BitRot
  BY <1>1, <1>3, RotStores DEF Ahead
<1>4. CASE ~WriteCell /\ ~BitRot
  <2>1. \A s \in DOMAIN segments' :
          \/ s \in DOMAIN segments /\ segments'[s] = segments[s]
          \/ segments'[s] = <<>>
    BY <1>4, OtherFiles
  <2>2. FilesOK(segments)
    BY DEF Order, Types
  <2> QED
    BY <1>1, <2>1, <2>2, OnlyOldFiles DEF Ahead
<1> QED
  BY <1>2, <1>3, <1>4

LEMMA AheadLater ==
  ASSUME Order, NEW c \in Cursor, NEW d \in Cursor, Before(c, d)
  PROVE  Ahead(d) \subseteq Ahead(c)
<1>1. FilesOK(segments)
  BY DEF Order, Types
<1> QED
  BY <1>1, StoredEarlier DEF Ahead

\* The record found at a cursor comes before all that lie ahead of the next.
LEMMA RecordFound ==
  ASSUME Order, CellsInOrder, NoneNewer, read_step_at(rd.at).kind = "record"
  PROVE  LET x == read_step_at(rd.at).rec
             d == read_step_at(rd.at).next
         IN  /\ x \in Ahead(rd.at) /\ x \in Records /\ d \in Cursor /\ Before(rd.at, d)
             /\ x <= submitted
             /\ \A r \in Ahead(d) : x < r
<1> DEFINE c == rd.at
           x == read_step_at(c).rec
           d == read_step_at(c).next
           f == segments[c.segment_id]
<1>1. c \in Cursor /\ c.segment_id \in Nat /\ c.offset \in Nat
  BY DEF Order, Types, Cursor
<1>2. /\ c.segment_id \in DOMAIN segments /\ x \in Records /\ FrameAt(f, c.offset, x)
      /\ d = [c EXCEPT !.offset = @ + storage_bytes_for_payload(x)]
      /\ d \in Cursor /\ Before(c, d)
  BY <1>1, Reads, ZenonT(30) DEF Order
<1> HIDE DEF c, x, d
<1>3. storage_bytes_for_payload(x) \in Nat /\ storage_bytes_for_payload(x) > 0
  BY <1>2, Sizes DEF HEADER
<1>4. d.segment_id = c.segment_id /\ d.offset = c.offset + storage_bytes_for_payload(x)
  BY <1>1, <1>2 DEF Cursor
<1>5. f \in Seq(Cell) /\ Len(f) \in Nat /\ c.offset \in 0..Len(f)
  BY <1>1, <1>2, <1>3, CellIs DEF FrameAt
<1>6. x \in Ahead(c)
  BY <1>1, <1>2, <1>5 DEF Ahead, StoredAfter
<1>7. x <= submitted
  <2>1. c.offset + 1 \in DOMAIN f /\ f[c.offset + 1] = <<x, 1>>
    BY <1>1, <1>2, <1>5, FirstCell
  <2> QED
    BY <1>2, <2>1 DEF NoneNewer
<1>8. ASSUME NEW r \in Ahead(d)
      PROVE  x < r
  <2>1. r \in Records /\ StoredAfter(d, r)
    BY DEF Ahead
  <2>2. PICK t \in DOMAIN segments :
          /\ t >= d.segment_id
          /\ \E p \in 0..Len(segments[t]) :
               (t = d.segment_id => p >= d.offset) /\ FrameAt(segments[t], p, r)
    BY <2>1 DEF StoredAfter
  <2>3. PICK p \in 0..Len(segments[t]) :
          (t = d.segment_id => p >= d.offset) /\ FrameAt(segments[t], p, r)
    BY <2>2
  <2>4. c.segment_id < t \/ (c.segment_id = t /\ c.offset < p)
    <3>1. t \in Nat /\ Len(segments[t]) \in Nat
      BY CellIs
    <3> QED
      BY <1>1, <1>3, <1>4, <2>2, <2>3, <3>1
  <2> QED
    BY <1>2, <1>5, <2>1, <2>3, <2>4, FramesInOrder, ZenonT(30) DEF StoredInOrder
<1> QED
  BY <1>2, <1>6, <1>7, <1>8 DEF c, x, d

\* Reading adds what is found to what is held.
LEMMA RecordTaken ==
  ASSUME Order, ReadRecord
  PROVE  LET x == read_step_at(rd.at).rec IN
         /\ pc = "read" /\ pc' = "read" /\ read_step_at(rd.at).kind = "record"
         /\ rd'.at = read_step_at(rd.at).next /\ rd'.payloads = Append(rd.payloads, x)
         /\ rd.payloads \in Seq(Records) /\ x \in Records
         /\ Range(rd'.payloads) = Range(rd.payloads) \cup {x}
         /\ UNCHANGED <<segments, cursor_file, cursor, batch, submitted, exported, active_segment_id>>
<1> DEFINE step == read_step_at(rd.at)
<1>1. /\ pc = "read" /\ pc' = "read" /\ step.kind = "record"
      /\ rd' = [rd EXCEPT !.at = step.next, !.payloads = Append(rd.payloads, step.rec)]
      /\ UNCHANGED <<segments, cursor_file, cursor, batch, submitted, exported, active_segment_id>>
  BY DEF ReadRecord, disk, memory, history
<1>2. rd.at \in Cursor /\ DOMAIN rd = {"at", "payloads", "should_commit"} /\ rd.payloads \in Seq(Records)
  BY DEF Order, Types
<1>3. step.rec \in Records
  BY <1>1, <1>2, Reads, ZenonT(30) DEF Order
<1> HIDE DEF step
<1>4. rd'.at = step.next /\ rd'.payloads = Append(rd.payloads, step.rec)
  BY <1>1, <1>2
<1>5. Range(rd'.payloads) = Range(rd.payloads) \cup {step.rec}
  <2> DEFINE p == rd.payloads
             q == Append(p, step.rec)
  <2>1. /\ DOMAIN p = 1..Len(p) /\ DOMAIN q = 1..(Len(p) + 1) /\ Len(p) \in Nat
        /\ q[Len(p) + 1] = step.rec /\ \A i \in 1..Len(p) : q[i] = p[i]
    BY <1>2, <1>3
  <2> HIDE DEF p, q
  <2>2. DOMAIN q = DOMAIN p \cup {Len(p) + 1}
    BY <2>1
  <2>3. \A y : y \in Range(q) <=> y \in Range(p) \/ y = step.rec
    BY <2>1, <2>2 DEF Range
  <2>4. Range(q) = Range(p) \cup {step.rec}
    BY <2>3
  <2> QED
    BY <1>4, <2>4 DEF p, q
<1> QED
  BY <1>1, <1>2, <1>3, <1>4, <1>5 DEF step

-----------------------------------------------------------------------------
LEMMA InitFifo == Init => Fifo
<1> SUFFICES ASSUME Init PROVE Fifo
  OBVIOUS
<1>1. CellsInOrder /\ NoneNewer
  BY DEF Init, CellsInOrder, NoneNewer
<1>2. Taken = {}
  BY DEF Init, Taken, NoRead, NoBatch, Range
<1> QED
  BY <1>1, <1>2 DEF Init, Fifo, NoneTakenNewer, HeldInOrder

LEMMA NextFifo == Order /\ Below /\ Fifo /\ [Next]_vars => Fifo'
\* When a record is submitted, and what else may happen during its write.
<1>Submits. ASSUME Order, [Next]_vars, ~WriteCell
            PROVE  /\ submitted \in Nat /\ submitted' \in Nat /\ submitted <= submitted'
                   /\ pc' = "write" =>
                        submitted' > submitted \/ (pc = "write" /\ UNCHANGED <<submitted, todo>>)
  <2> USE <1>Submits
  <2>1. submitted \in Nat
    BY Sizes DEF Order, Types
  <2>2. CASE Enqueue
    BY <2>1, <2>2 DEF Enqueue
  <2>3. CASE RotateFails
    BY <2>1, <2>3 DEF RotateFails
  <2>4. CASE ExportSucceeds \/ ExportFails \/ UNCHANGED vars \/ BitRot
    BY <2>1, <2>4 DEF ExportSucceeds, ExportFails, BitRot, vars, history
  <2>5. CASE /\ submitted' = submitted /\ pc' # "write"
    BY <2>1, <2>5
  <2> QED
    BY <2>2, <2>3, <2>4, <2>5, ZenonT(30)
       DEF Next, System, Environment, history, Open, OpenAt, EnqueueReturn, ReadBatch, ReadRecord,
           ReadMove, QuarantineSegment, ReadReturn, QuarantineAdvance,
           CommitBatch, RemoveSegment, PersistCursor, Crash, WriteFails, QuarantineFails, CommitFails
<1>OtherCells. ASSUME Order, CellsInOrder, NoneNewer, [Next]_vars, ~WriteCell, ~BitRot
               PROVE  CellsInOrder' /\ NoneNewer'
  <2> USE <1>OtherCells
  <2>1. \A s \in DOMAIN segments' : \A i \in DOMAIN segments'[s] :
          s \in DOMAIN segments /\ segments'[s] = segments[s]
    <3> SUFFICES ASSUME NEW s \in DOMAIN segments', NEW i \in DOMAIN segments'[s], segments'[s] = <<>>
                 PROVE  FALSE
      BY OtherFiles
    <3> QED
      OBVIOUS
  <2>2. CellsInOrder'
    BY <2>1, ZenonT(30) DEF CellsInOrder
  <2>3. NoneNewer'
    <3> SUFFICES ASSUME NEW s \in DOMAIN segments', NEW i \in DOMAIN segments'[s]
                 PROVE  /\ segments'[s][i][1] <= submitted'
                        /\ pc' = "write" /\ segments'[s][i][1] = submitted' =>
                             Written' > 0 /\ segments'[s][i][2] <= Written'
      BY DEF NoneNewer
    <3>1. s \in DOMAIN segments /\ segments'[s] = segments[s] /\ i \in DOMAIN segments[s]
      BY <2>1
    <3> DEFINE x == segments[s][i]
    <3>2. x[1] \in Nat /\ x[2] \in Nat /\ x = segments'[s][i]
      BY <3>1, CellIs
    <3>3. x[1] <= submitted /\ (pc = "write" /\ x[1] = submitted => Written > 0 /\ x[2] <= Written)
      BY <3>1 DEF NoneNewer
    <3> HIDE DEF x
    <3>4. pc' = "write" /\ x[1] = submitted' => pc = "write" /\ x[1] = submitted /\ Written' = Written
      <4>1. UNCHANGED <<submitted, todo>> => Written' = Written
        BY DEF Written
      <4> QED
        BY <3>2, <3>3, <4>1, <1>Submits
    <3> QED
      BY <3>2, <3>3, <3>4, <1>Submits
  <2> QED
    BY <2>2, <2>3
<1>WrittenCells. ASSUME Order, Below, CellsInOrder, NoneNewer, WriteCell
                 PROVE  CellsInOrder' /\ NoneNewer'
  <2> USE <1>WrittenCells
  <2> DEFINE a == active_segment_id
             n == Len(segments[a])
             w == Written + 1
  <2>1. /\ a \in DOMAIN segments /\ segments[a] \in Seq(Cell) /\ <<submitted, w>> \in Cell
        /\ segments' = [segments EXCEPT ![a] = Append(segments[a], <<submitted, w>>)]
        /\ Written \in Nat /\ Written' = w /\ pc = "write"
    BY Written1
  <2>2. pc' = "write" /\ submitted' = submitted /\ submitted \in Nat
    BY Sizes DEF WriteCell, history, Order, Types
  <2>3. /\ DOMAIN segments' = DOMAIN segments
        /\ \A s \in DOMAIN segments : s # a => segments'[s] = segments[s]
        /\ segments'[a] = Append(segments[a], <<submitted, w>>)
    BY <2>1 DEF Order, Types, FilesOK
  <2>4. /\ n \in Nat /\ DOMAIN segments'[a] = 1..(n + 1) /\ DOMAIN segments[a] = 1..n
        /\ segments'[a][n + 1] = <<submitted, w>>
        /\ \A i \in 1..n : segments'[a][i] = segments[a][i]
    <3>1. Append(segments[a], <<submitted, w>>) \in Seq(Cell)
      BY <2>1, AppendIs
    <3> HIDE DEF w
    <3> QED
      BY <2>1, <2>3, <3>1, AppendIs, SeqIs
  <2>5. \A s \in DOMAIN segments : s <= a
    BY <2>1 DEF Below
  <2> HIDE DEF n
  \* An old cell, or the new one.
  <2>6. \A s \in DOMAIN segments' : \A i \in DOMAIN segments'[s] :
          \/ i \in DOMAIN segments[s] /\ segments'[s][i] = segments[s][i]
          \/ s = a /\ i = n + 1 /\ segments'[s][i] = <<submitted, w>>
    <3> SUFFICES ASSUME NEW s \in DOMAIN segments', NEW i \in DOMAIN segments'[s]
                 PROVE  \/ i \in DOMAIN segments[s] /\ segments'[s][i] = segments[s][i]
                        \/ s = a /\ i = n + 1 /\ segments'[s][i] = <<submitted, w>>
      OBVIOUS
    <3>1. CASE s # a
      BY <2>3, <3>1
    <3>2. CASE s = a
      <4>1. i \in 1..n \/ i = n + 1
        BY <2>4, <3>2
      <4> QED
        BY <2>4, <3>2, <4>1, ZenonT(30)
    <3> QED
      BY <3>1, <3>2
  <2>7. \A s \in DOMAIN segments : \A i \in DOMAIN segments[s] :
          /\ segments[s][i][1] \in Nat /\ segments[s][i][2] \in Nat /\ s \in Nat
          /\ segments[s][i][1] <= submitted
          /\ segments[s][i][1] = submitted => Written > 0 /\ segments[s][i][2] <= Written
    BY <2>1, CellIs DEF NoneNewer
  <2>8. CellsInOrder'
    <3> SUFFICES ASSUME NEW s \in DOMAIN segments', NEW t \in DOMAIN segments',
                        NEW i \in DOMAIN segments'[s], NEW j \in DOMAIN segments'[t],
                        s < t \/ (s = t /\ i < j)
                 PROVE  Earlier(segments'[s][i], segments'[t][j])
      BY DEF CellsInOrder
    <3>1. s \in Nat /\ t \in Nat /\ a \in Nat /\ s <= a /\ t <= a
      BY <2>1, <2>3, <2>5, CellIs
    <3>2. CASE s = a /\ i = n + 1
      <4>1. t = a /\ j > n + 1
        BY <3>1, <3>2
      <4> QED
        BY <2>4, <4>1
    <3>3. CASE i \in DOMAIN segments[s] /\ segments'[s][i] = segments[s][i]
               /\ j \in DOMAIN segments[t] /\ segments'[t][j] = segments[t][j]
      BY <2>3, <3>3, ZenonT(30) DEF CellsInOrder
    <3>4. CASE i \in DOMAIN segments[s] /\ segments'[s][i] = segments[s][i]
               /\ segments'[t][j] = <<submitted, w>>
      <4> DEFINE x == segments[s][i]
      <4>1. x[1] \in Nat /\ x[2] \in Nat /\ x[1] <= submitted
            /\ (x[1] = submitted => Written > 0 /\ x[2] <= Written)
        BY <2>3, <2>7, <3>4
      <4> HIDE DEF x
      <4>2. Earlier(x, <<submitted, w>>)
        BY <2>1, <2>2, <4>1 DEF Earlier
      <4> QED
        BY <3>4, <4>2 DEF x
    <3> QED
      BY <2>6, <3>2, <3>3, <3>4
  <2>9. NoneNewer'
    <3> SUFFICES ASSUME NEW s \in DOMAIN segments', NEW i \in DOMAIN segments'[s]
                 PROVE  /\ segments'[s][i][1] <= submitted'
                        /\ segments'[s][i][1] = submitted' => Written' > 0 /\ segments'[s][i][2] <= Written'
      BY DEF NoneNewer
    <3>1. CASE i \in DOMAIN segments[s] /\ segments'[s][i] = segments[s][i]
      BY <2>1, <2>2, <2>3, <2>7, <3>1
    <3>2. CASE segments'[s][i] = <<submitted, w>>
      BY <2>1, <2>2, <3>2
    <3> QED
      BY <2>6, <3>1, <3>2
  <2> QED
    BY <2>8, <2>9
<1>RottenCells. ASSUME Order, CellsInOrder, NoneNewer, BitRot
                PROVE  CellsInOrder' /\ NoneNewer'
  <2> USE <1>RottenCells
  <2>0. PICK u \in DOMAIN segments : \E k \in 1..Len(segments[u]) : \E q \in Records :
          /\ segments[u][k] = <<q, 1>>
          /\ FilesOK(segments') /\ DOMAIN segments' = DOMAIN segments
          /\ \A s \in DOMAIN segments : s # u => segments'[s] = segments[s]
          /\ Len(segments'[u]) = Len(segments[u])
          /\ segments'[u][k] = <<q, 0>>
          /\ \A j \in 1..Len(segments[u]) : j # k => segments'[u][j] = segments[u][j]
    BY Rots, ZenonT(30)
  <2>1. PICK k \in 1..Len(segments[u]), q \in Records :
          /\ segments[u][k] = <<q, 1>>
          /\ FilesOK(segments') /\ DOMAIN segments' = DOMAIN segments
          /\ \A s \in DOMAIN segments : s # u => segments'[s] = segments[s]
          /\ Len(segments'[u]) = Len(segments[u])
          /\ segments'[u][k] = <<q, 0>>
          /\ \A j \in 1..Len(segments[u]) : j # k => segments'[u][j] = segments[u][j]
    BY <2>0, ZenonT(30)
  <2>2. UNCHANGED <<pc, submitted, todo>> /\ Written' = Written
    BY DEF BitRot, Written
  <2>3. \A s \in DOMAIN segments : DOMAIN segments'[s] = DOMAIN segments[s]
    <3>1. segments'[u] \in Seq(Cell)
      BY <2>1 DEF FilesOK
    <3>2. DOMAIN segments'[u] = 1..Len(segments'[u])
      BY <3>1, SeqIs, ZenonT(30)
    <3>3. DOMAIN segments[u] = 1..Len(segments[u])
      BY CellIs, ZenonT(30)
    <3>4. DOMAIN segments'[u] = DOMAIN segments[u]
      BY <2>1, <3>2, <3>3, ZenonT(30)
    <3> QED
      BY <2>1, <3>4, ZenonT(30)
  <2>4. \A s \in DOMAIN segments : \A i \in DOMAIN segments[s] :
          \/ segments'[s][i] = segments[s][i]
          \/ \E r \in Records : segments[s][i] = <<r, 1>> /\ segments'[s][i] = <<r, 0>>
    <3> SUFFICES ASSUME NEW s \in DOMAIN segments, NEW i \in DOMAIN segments[s], s = u
                 PROVE  \/ segments'[s][i] = segments[s][i]
                        \/ \E r \in Records : segments[s][i] = <<r, 1>> /\ segments'[s][i] = <<r, 0>>
      BY <2>1, ZenonT(30)
    <3>1. i \in 1..Len(segments[u])
      BY CellIs
    <3> QED
      BY <2>1, <3>1, ZenonT(30)
  <2>5. \A s \in DOMAIN segments : \A i \in DOMAIN segments[s] :
          /\ segments[s][i][1] \in Nat /\ segments[s][i][2] \in Nat
          /\ segments'[s][i][1] = segments[s][i][1]
          /\ \/ segments'[s][i][2] = segments[s][i][2]
             \/ segments[s][i][2] = 1 /\ segments'[s][i][2] = 0
    <3> SUFFICES ASSUME NEW s \in DOMAIN segments, NEW i \in DOMAIN segments[s]
                 PROVE  /\ segments[s][i][1] \in Nat /\ segments[s][i][2] \in Nat
                        /\ segments'[s][i][1] = segments[s][i][1]
                        /\ \/ segments'[s][i][2] = segments[s][i][2]
                           \/ segments[s][i][2] = 1 /\ segments'[s][i][2] = 0
      BY ZenonT(30)
    <3>1. segments[s][i][1] \in Nat /\ segments[s][i][2] \in Nat
      BY CellIs, ZenonT(30)
    <3>2. CASE segments'[s][i] = segments[s][i]
      BY <3>1, <3>2, ZenonT(30)
    <3>3. CASE \E r \in Records : segments[s][i] = <<r, 1>> /\ segments'[s][i] = <<r, 0>>
      BY <3>1, <3>3
    <3> QED
      BY <2>4, <3>2, <3>3, ZenonT(30)
  <2>6. CellsInOrder'
    <3> SUFFICES ASSUME NEW s \in DOMAIN segments, NEW t \in DOMAIN segments,
                        NEW i \in DOMAIN segments[s], NEW j \in DOMAIN segments[t],
                        s < t \/ (s = t /\ i < j)
                 PROVE  Earlier(segments'[s][i], segments'[t][j])
      BY <2>1, <2>3, ZenonT(30) DEF CellsInOrder
    <3>1. Earlier(segments[s][i], segments[t][j])
      BY ZenonT(30) DEF CellsInOrder
    <3> QED
      BY <2>5, <3>1 DEF Earlier
  <2>7. NoneNewer'
    <3> SUFFICES ASSUME NEW s \in DOMAIN segments, NEW i \in DOMAIN segments[s]
                 PROVE  /\ segments'[s][i][1] <= submitted
                        /\ pc = "write" /\ segments'[s][i][1] = submitted =>
                             Written > 0 /\ segments'[s][i][2] <= Written
      BY <2>1, <2>2, <2>3 DEF NoneNewer
    <3>1. /\ segments[s][i][1] <= submitted
          /\ pc = "write" /\ segments[s][i][1] = submitted =>
               Written > 0 /\ segments[s][i][2] <= Written
      BY DEF NoneNewer
    <3>2. pc = "write" => Written \in Nat
      BY Sizes DEF Order, Writing
    <3> QED
      BY <2>5, <3>1, <3>2
  <2> QED
    BY <2>6, <2>7
\* A read goes on from where it was.
<1>ReadGoesOn. ASSUME Order, ReadMove \/ QuarantineSegment \/ QuarantineAdvance
               PROVE  /\ pc \in {"read", "quarantine"} /\ rd'.payloads = rd.payloads
                      /\ rd.at \in Cursor /\ rd'.at \in Cursor /\ Before(rd.at, rd'.at)
                      /\ UNCHANGED <<batch, submitted, exported, cursor, cursor_file>>
                      /\ pc' \in {"read", "quarantine"}
  <2> USE <1>ReadGoesOn
  <2>0. /\ rd.at \in Cursor /\ rd.at.segment_id \in Nat /\ rd.at.offset \in Nat
        /\ DOMAIN rd = {"at", "payloads", "should_commit"}
    BY DEF Order, Types, Cursor
  <2>1. CASE ReadMove
    <3> DEFINE step == read_step_at(rd.at)
    <3>1. step.kind = "move" /\ rd' = [rd EXCEPT !.at = step.next, !.should_commit = TRUE]
      BY <2>1 DEF ReadMove
    <3>2. step.next \in Cursor /\ step.next.segment_id > rd.at.segment_id
      BY <2>0, <3>1, Reads, ZenonT(30) DEF Order
    <3> HIDE DEF step
    <3>3. rd'.at = step.next /\ rd'.payloads = rd.payloads
      BY <2>0, <3>1
    <3>4. /\ pc = "read" /\ pc' = "read"
          /\ UNCHANGED <<batch, submitted, exported, cursor, cursor_file>>
      BY <2>1 DEF ReadMove, disk, memory, history
    <3> QED
      BY <2>0, <3>2, <3>3, <3>4 DEF Before
  <2>2. CASE QuarantineSegment
    <3>1. /\ pc = "read" /\ pc' = "quarantine" /\ rd' = rd
          /\ UNCHANGED <<batch, submitted, exported, cursor, cursor_file>>
      BY <2>2 DEF QuarantineSegment
    <3> QED
      BY <2>0, <3>1 DEF Before
  <2>3. CASE QuarantineAdvance
    <3>0. /\ pc = "quarantine" /\ pc' = "read"
          /\ UNCHANGED <<batch, submitted, exported, cursor, cursor_file>>
      BY <2>3 DEF QuarantineAdvance, history
    <3>1. CASE rd.at.segment_id >= active_segment_id
      <4> DEFINE to == [segment_id |-> rd.at.segment_id + 1, offset |-> 0]
      <4>1. rd' = [rd EXCEPT !.at = to, !.should_commit = TRUE]
        BY <2>3, <3>1 DEF QuarantineAdvance
      <4>2. to \in Cursor /\ Before(rd.at, to)
        BY <2>0 DEF Cursor, Before
      <4> HIDE DEF to
      <4>3. rd'.at = to /\ rd'.payloads = rd.payloads
        BY <2>0, <4>1
      <4> QED
        BY <2>0, <3>0, <4>2, <4>3, ZenonT(30)
    <3>2. CASE ~(rd.at.segment_id >= active_segment_id)
      <4> DEFINE step == next_cursor_after(rd.at.segment_id)
      <4>1. rd' = IF step.kind = "empty" THEN rd
                  ELSE [rd EXCEPT !.at = step.next, !.should_commit = TRUE]
        BY <2>3, <3>2 DEF QuarantineAdvance
      <4>2. step.kind # "empty" => step.next \in Cursor /\ step.next.segment_id > rd.at.segment_id
        BY <2>0, Moves DEF Order
      <4> HIDE DEF step
      <4>3. /\ rd'.payloads = rd.payloads
            /\ rd'.at = rd.at \/ (step.kind # "empty" /\ rd'.at = step.next)
        BY <2>0, <4>1
      <4>4. rd'.at \in Cursor /\ Before(rd.at, rd'.at)
        BY <2>0, <4>2, <4>3 DEF Before
      <4> QED
        BY <2>0, <3>0, <4>3, <4>4, ZenonT(30)
    <3> QED
      BY <3>1, <3>2, ZenonT(30)
  <2> QED
    BY <2>1, <2>2, <2>3, ZenonT(30)
\* What a step does to the records that were read.
<1>TakenStep. ASSUME Order, [Next]_vars, ~ReadRecord
              PROVE  Taken' \subseteq Taken
  <2> USE <1>TakenStep
  <2>0. /\ DOMAIN batch = {"payloads", "next_cursor", "sent"}
        /\ NoRead.payloads = <<>> /\ NoBatch.payloads = <<>> /\ Range(<<>>) = {}
    BY DEF Order, Types, NoRead, NoBatch, Range
  <2>1. CASE ExportSucceeds
    <3>1. /\ batch' = [batch EXCEPT !.sent = TRUE] /\ rd' = rd
          /\ exported' = exported \cup Range(batch.payloads)
      BY <2>1 DEF ExportSucceeds
    <3>2. batch'.payloads = batch.payloads
      BY <2>0, <3>1
    <3> QED
      BY <3>1, <3>2 DEF Taken
  <2>2. CASE ReadReturn
    <3>1. /\ batch' = IF rd.payloads = <<>> THEN NoBatch
                      ELSE [payloads |-> rd.payloads, next_cursor |-> rd.at, sent |-> FALSE]
          /\ rd' = NoRead /\ exported' = exported
      BY <2>2 DEF ReadReturn, history
    <3>2. batch'.payloads \in {<<>>, rd.payloads}
      BY <2>0, <3>1
    <3> QED
      BY <2>0, <3>1, <3>2 DEF Taken
  <2>3. CASE ReadMove \/ QuarantineSegment \/ QuarantineAdvance
    BY <2>3, <1>ReadGoesOn DEF Taken
  <2>4. CASE ReadBatch
    <3>1. rd'.payloads = <<>> /\ UNCHANGED <<batch, exported>>
      BY <2>4 DEF ReadBatch, history
    <3> QED
      BY <2>0, <3>1 DEF Taken
  <2>5. CASE exported' = exported /\ rd' \in {rd, NoRead} /\ batch' \in {batch, NoBatch}
    BY <2>0, <2>5 DEF Taken
  <2>6. CASE UNCHANGED vars
    BY <2>5, <2>6 DEF vars, history
  <2>7. CASE Open \/ Enqueue \/ WriteCell \/ EnqueueReturn \/ ExportFails \/ CommitBatch
             \/ RemoveSegment \/ PersistCursor
    BY <2>5, <2>7, ZenonT(30) DEF Open, OpenAt, Enqueue, WriteCell, EnqueueReturn, ExportFails, CommitBatch,
                      RemoveSegment, PersistCursor, history
  <2>8. CASE Environment
    BY <2>5, <2>8 DEF Environment, Crash, WriteFails, QuarantineFails, RotateFails, CommitFails, BitRot,
                      history
  <2> QED
    BY <2>1, <2>2, <2>3, <2>4, <2>6, <2>7, <2>8, ZenonT(30) DEF Next, System
<1>NextTaken. ASSUME Order, CellsInOrder, NoneNewer, NoneTakenNewer, [Next]_vars
              PROVE  NoneTakenNewer'
  <2> USE <1>NextTaken
  <2> SUFFICES ASSUME NEW r \in Taken'
               PROVE  r \in Records /\ r <= submitted' /\ (pc' = "write" => r < submitted')
    BY DEF NoneTakenNewer
  <2>1. CASE ReadRecord
    <3> DEFINE x == read_step_at(rd.at).rec
    <3>1. x \in Records /\ x <= submitted
      BY <2>1, RecordTaken, RecordFound, ZenonT(30)
    <3>2. r \in Taken \/ r = x
      BY <2>1, RecordTaken, ZenonT(30) DEF Taken
    <3>3. pc' = "read" /\ submitted' = submitted
      BY <2>1, RecordTaken, ZenonT(30)
    <3> HIDE DEF x
    <3> QED
      BY <3>1, <3>2, <3>3 DEF NoneTakenNewer
  <2>2. CASE ~ReadRecord
    <3>1. r \in Taken
      BY <2>2, <1>TakenStep
    <3>2. r \in Records /\ r \in Nat /\ r <= submitted /\ (pc = "write" => r < submitted)
      BY <3>1, Sizes DEF NoneTakenNewer, Records
    <3>3. CASE WriteCell
      <4>1. pc' = pc /\ submitted' = submitted
        BY <3>3 DEF WriteCell, history
      <4> QED
        BY <3>2, <4>1
    <3>4. CASE ~WriteCell
      BY <3>2, <3>4, <1>Submits
    <3> QED
      BY <3>3, <3>4
  <2> QED
    BY <2>1, <2>2
\* What is held stays in order when the cursor it goes with moves forward.
<1>StaysInOrder. ASSUME Order, [Next]_vars, NEW x \in Seq(Records), NEW c \in Cursor, NEW d \in Cursor, Before(c, d),
                        InOrder(x, c), WriteCell => \A i \in DOMAIN x : x[i] < submitted
                 PROVE  InOrder(x, d)'
  <2> USE <1>StaysInOrder
  <2>1. Increasing(x)' <=> Increasing(x)
    BY DEF Increasing
  <2>2. ASSUME NEW i \in DOMAIN x, NEW r \in Ahead(d)'
        PROVE  x[i] < r
    <3>1. r \in Ahead(d) \/ (WriteCell /\ r = submitted)
      BY AheadShrinks
    <3>2. r \in Ahead(d) => r \in Ahead(c)
      BY AheadLater
    <3> QED
      BY <3>1, <3>2 DEF InOrder
  <2> QED
    BY <2>1, <2>2 DEF InOrder
<1>RecordInOrder. ASSUME Order, CellsInOrder, NoneNewer, ReadRecord, [Next]_vars, InOrder(rd.payloads, rd.at)
                  PROVE  InOrder(rd.payloads, rd.at)'
  <2> USE <1>RecordInOrder
  <2>0. PICK p, c, x, d : /\ p = rd.payloads /\ c = rd.at
                          /\ x = read_step_at(rd.at).rec /\ d = read_step_at(rd.at).next
    OBVIOUS
  <2> DEFINE q == Append(p, x)
  <2>1. /\ rd'.at = d /\ rd'.payloads = q /\ p \in Seq(Records) /\ x \in Records
    BY <2>0, RecordTaken, ZenonT(30)
  <2>2. x \in Ahead(c) /\ c \in Cursor /\ d \in Cursor /\ Before(c, d) /\ \A r \in Ahead(d) : x < r
    BY <2>0, RecordTaken, RecordFound, ZenonT(30) DEF Order, Types
  <2>3. \A r \in Ahead(d)' : r \in Ahead(d) /\ r \in Ahead(c)
    <3>1. ~WriteCell
      BY RecordTaken, ZenonT(30) DEF WriteCell
    <3> QED
      BY <2>2, <3>1, AheadShrinks, AheadLater
  <2>4. /\ Len(p) \in Nat /\ DOMAIN p = 1..Len(p) /\ DOMAIN q = 1..(Len(p) + 1)
        /\ q[Len(p) + 1] = x /\ \A i \in 1..Len(p) : q[i] = p[i]
    BY <2>1, AppendIs, SeqIs
  <2>5. InOrder(p, c) /\ \A i \in DOMAIN p : p[i] < x
    BY <2>0, <2>2 DEF InOrder
  <2> HIDE DEF q
  <2>6. Increasing(q)
    <3> SUFFICES ASSUME NEW i \in DOMAIN q, NEW j \in DOMAIN q, i < j
                 PROVE  q[i] < q[j]
      BY DEF Increasing
    <3>1. i \in DOMAIN p /\ q[i] = p[i]
      BY <2>4
    <3>2. CASE j = Len(p) + 1
      BY <2>4, <2>5, <3>1, <3>2
    <3>3. CASE j # Len(p) + 1
      <4>1. j \in DOMAIN p /\ q[j] = p[j]
        BY <2>4, <3>3
      <4> QED
        BY <2>5, <3>1, <4>1 DEF InOrder, Increasing
    <3> QED
      BY <3>2, <3>3
  <2>7. ASSUME NEW i \in DOMAIN q, NEW r \in Ahead(d)'
        PROVE  q[i] < r
    <3>1. r \in Ahead(d) /\ r \in Ahead(c)
      BY <2>3
    <3>2. i \in DOMAIN p \/ q[i] = x
      BY <2>4
    <3> QED
      BY <2>2, <2>4, <2>5, <3>1, <3>2, ZenonT(30) DEF InOrder
  <2> QED
    BY <2>1, <2>6, <2>7 DEF InOrder, Increasing
<1>NextHeld. ASSUME Order, Fifo, [Next]_vars
             PROVE  HeldInOrder'
  <2> USE <1>NextHeld
  <2> DEFINE Reading == pc \in {"read", "quarantine"}
  <2>0. /\ rd.at \in Cursor /\ rd.payloads \in Seq(Records)
        /\ batch.next_cursor \in Cursor /\ batch.payloads \in Seq(Records)
        /\ DOMAIN batch = {"payloads", "next_cursor", "sent"}
    BY DEF Order, Types
  <2>1. \A c \in Cursor : Before(c, c)
    BY DEF Before, Cursor
  <2>2. ASSUME Reading'
        PROVE  InOrder(rd.payloads, rd.at)'
    <3>1. CASE ReadRecord
      <4>1. pc = "read"
        BY <3>1 DEF ReadRecord
      <4> QED
        BY <3>1, <4>1, <1>RecordInOrder DEF Fifo, HeldInOrder
    <3>2. CASE ReadBatch
      <4>1. rd'.payloads = <<>>
        BY <3>2 DEF ReadBatch
      <4> QED
        BY <4>1 DEF InOrder, Increasing
    <3>3. CASE Reading /\ ~WriteCell /\ rd'.payloads = rd.payloads /\ rd'.at \in Cursor /\ Before(rd.at, rd'.at)
      <4>1. PICK x, c, d : x = rd.payloads /\ c = rd.at /\ d = rd'.at
        OBVIOUS
      <4>2. InOrder(x, c)
        BY <3>3, <4>1 DEF Fifo, HeldInOrder
      <4>3. InOrder(x, d)'
        BY <2>0, <3>3, <4>1, <4>2, <1>StaysInOrder
      <4> QED
        BY <3>3, <4>1, <4>3 DEF InOrder
    <3>4. CASE ReadMove \/ QuarantineSegment \/ QuarantineAdvance
      <4>1. ~WriteCell
        BY <3>4, <1>ReadGoesOn DEF WriteCell
      <4> QED
        BY <3>3, <3>4, <4>1, <1>ReadGoesOn
    <3>5. CASE UNCHANGED <<pc, rd>>
      BY <2>0, <2>1, <2>2, <3>3, <3>5 DEF WriteCell
    <3> QED
      BY <2>2, <3>1, <3>2, <3>4, <3>5, ZenonT(30)
         DEF Next, System, Environment, vars, Open, OpenAt, Enqueue, WriteCell, EnqueueReturn,
             ReadReturn, ExportSucceeds, ExportFails, CommitBatch, RemoveSegment, PersistCursor,
             Crash, WriteFails, QuarantineFails, RotateFails, CommitFails, BitRot
  <2>3. ASSUME batch' # NoBatch
        PROVE  InOrder(batch.payloads, batch.next_cursor)'
    <3>1. CASE ReadReturn
      <4>1. /\ batch'.payloads = rd.payloads /\ batch'.next_cursor = rd.at /\ pc = "read"
        BY <2>3, <3>1 DEF ReadReturn
      <4>2. PICK x, c : x = rd.payloads /\ c = rd.at
        OBVIOUS
      <4>3. InOrder(x, c)
        BY <4>1, <4>2 DEF Fifo, HeldInOrder
      <4>4. InOrder(x, c)'
        BY <2>0, <2>1, <4>1, <4>2, <4>3, <1>StaysInOrder, ZenonT(30) DEF WriteCell
      <4> QED
        BY <4>1, <4>2, <4>4 DEF InOrder
    <3>2. CASE batch # NoBatch /\ batch'.payloads = batch.payloads /\ batch'.next_cursor = batch.next_cursor
      <4>1. PICK x, c : x = batch.payloads /\ c = batch.next_cursor
        OBVIOUS
      <4>2. InOrder(x, c)
        BY <3>2, <4>1 DEF Fifo, HeldInOrder
      <4>3. WriteCell => \A i \in DOMAIN x : x[i] < submitted
        BY <4>1, ZenonT(30) DEF Fifo, NoneTakenNewer, Taken, Range, WriteCell
      <4>4. InOrder(x, c)'
        BY <2>0, <2>1, <4>1, <4>2, <4>3, <1>StaysInOrder, ZenonT(30)
      <4> QED
        BY <3>2, <4>1, <4>4 DEF InOrder
    <3>3. CASE ExportSucceeds
      <4>1. batch # NoBatch /\ batch' = [batch EXCEPT !.sent = TRUE]
        BY <3>3 DEF ExportSucceeds
      <4> QED
        BY <2>0, <3>2, <4>1
    <3>4. CASE batch' \in {batch, NoBatch}
      BY <2>3, <3>2, <3>4
    <3> QED
      BY <3>1, <3>3, <3>4, ZenonT(30)
         DEF Next, System, Environment, vars, Open, OpenAt, Enqueue, WriteCell, EnqueueReturn,
             ReadBatch, ReadRecord, ReadMove, QuarantineSegment, QuarantineAdvance,
             ExportFails, CommitBatch, RemoveSegment, PersistCursor,
             Crash, WriteFails, QuarantineFails, RotateFails, CommitFails, BitRot
  <2> QED
    BY <2>2, <2>3, ZenonT(30) DEF HeldInOrder
<1> SUFFICES ASSUME Order, Below, Fifo, [Next]_vars
             PROVE  Fifo'
  OBVIOUS
<1>1. CellsInOrder' /\ NoneNewer'
  BY <1>OtherCells, <1>WrittenCells, <1>RottenCells DEF Fifo
<1> QED
  BY <1>1, <1>NextTaken, <1>NextHeld DEF Fifo

LEMMA FifoInvariance == Spec => []Fifo
BY InitFifo, NextFifo, OrderInvariance, BelowInvariance, PTL DEF Spec

\* Records are stored and handed to the exporters in the order in which
\* enqueue accepted them, whatever faults happened: the cells written last are
\* the last in the files, and read_batch only moves forward through them.
THEOREM ReadsInOrder == Spec => []ReadInOrder
<1>1. Order /\ Fifo => ReadInOrder
  BY FramesInOrder DEF Fifo, HeldInOrder, InOrder, ReadInOrder, BatchInOrder
<1> QED
  BY <1>1, OrderInvariance, FifoInvariance, PTL

=============================================================================
