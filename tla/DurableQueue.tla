---------------------------- MODULE DurableQueue ----------------------------
(***************************************************************************)
(* What the agent's disk queue promises its user when no file is damaged:  *)
(* a durable FIFO of records with at-least-once delivery.                  *)
(*                                                                         *)
(* `queue' is what a process started now would read.  Records are numbered *)
(* in the order of submission, which is the order they are stored and read *)
(* in.  A record is only acknowledged to its sender once it is there, and  *)
(* leaves it only from the front and only once it was delivered.  A crash  *)
(* changes nothing.                                                        *)
(***************************************************************************)
EXTENDS Integers

CONSTANT N  \* records are numbered 1, 2, ..., N

VARIABLES queue, accepted, delivered

avars == <<queue, accepted, delivered>>

Seen == queue \cup delivered

AInit ==
  /\ queue = {}
  /\ accepted = {}
  /\ delivered = {}

\* A record newer than every record seen before becomes durable.
Store(r) ==
  /\ \A s \in Seen : s < r
  /\ queue' = queue \cup {r}
  /\ UNCHANGED <<accepted, delivered>>

Acknowledge(r) ==
  /\ r \in Seen
  /\ accepted' = accepted \cup {r}
  /\ UNCHANGED <<queue, delivered>>

\* A run of records, from i to j, is delivered; it may have been before.
Deliver(i, j) ==
  /\ {i, j} \subseteq queue
  /\ delivered' = delivered \cup {r \in queue : i <= r /\ r <= j}
  /\ UNCHANGED <<queue, accepted>>

\* The records up to n, all delivered, are forgotten.
Forget(n) ==
  /\ \A r \in queue : r <= n => r \in delivered
  /\ queue' = {r \in queue : r > n}
  /\ UNCHANGED <<accepted, delivered>>

ANext ==
  \/ \E r \in 1..N : Store(r) \/ Acknowledge(r) \/ Forget(r)
  \/ \E i, j \in 1..N : Deliver(i, j)

ASpec == AInit /\ [][ANext]_avars
=============================================================================
