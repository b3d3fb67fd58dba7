-------------------------- MODULE DiskQueueReading --------------------------
(***************************************************************************)
(* What a reader of the disk queue gets, record after record, and the FIFO *)
(* that the queue implements.                                              *)
(***************************************************************************)
EXTENDS DiskQueue

\* The records that lie ahead of a reader at cursor c.
Ahead(c) == {r \in Records : StoredAfter(c, r)}

Increasing(s) == \A i, j \in DOMAIN s : i < j => s[i] < s[j]

\* Records lie in the files in the order they were accepted.
StoredInOrder ==
  \A s \in DOMAIN segments : \A o \in 0..Len(segments[s]) : \A q \in Records :
    FrameAt(segments[s], o, q) =>
      \A t \in DOMAIN segments : \A p \in 0..Len(segments[t]) : \A r \in Records :
        FrameAt(segments[t], p, r) /\ (s < t \/ (s = t /\ o < p)) => q < r

\* A flush hands records over in the order they were accepted, also when
\* rotation, quarantine or a restart comes in the middle of the batch: the
\* batch is in order, and all of it comes before whatever lies ahead of the
\* cursor it will be committed with.
BatchInOrder ==
  batch # NoBatch =>
    /\ Increasing(batch.payloads)
    /\ \A i \in DOMAIN batch.payloads : \A r \in Ahead(batch.next_cursor) :
         batch.payloads[i] < r

\* Both, whatever was damaged, torn or interrupted before.
ReadInOrder == StoredInOrder /\ BatchInOrder

\* The disk queue is a durable at-least-once FIFO.
Abstract == INSTANCE DurableQueue
              WITH queue <- Ahead(RecoveryCursor), delivered <- exported

\* Nothing is stored but the newest record, acknowledged before it is stored,
\* delivered out of its turn, or dropped undelivered, by any operation of the
\* queue, a crash, or an error of a rotation or a commit.
ImplementsDurableQueue == Abstract!ASpec
=============================================================================
