--------------------------- MODULE ReceiversProofs ---------------------------
(***************************************************************************)
(* The receivers for any clients, requests, chunk sizes, limits and number *)
(* of attempts: who was told of success has every record stored once, who  *)
(* was refused has none, requests do not mix in the queue, and how HTTP    *)
(* requests are cut into chunks does not matter.                           *)
(*                                                                         *)
(* IInv adds what holds of an attempt under way (Pending, Ingesting):      *)
(* while a task has the lock, the last record stored is the last one it    *)
(* ingested.                                                               *)
(*                                                                         *)
(* And the configuration, for any files, command lines and updates:        *)
(* whatever is running has passed validation after the last change to it   *)
(* (ConfigInv), and an update that is refused changes nothing.             *)
(***************************************************************************)
EXTENDS MCReceivers, SequenceTheorems, FiniteSetTheorems, WellFoundedInduction, TLAPS

Stored == Clients \X (Nat \ {0}) \X Nat

Types ==
  /\ at \in [Clients -> {"idle", "reading", "waiting", "ingesting"}]
  /\ buffer \in [Clients -> Nat]
  /\ next \in [Clients -> Nat \ {0}]
  /\ told \in [Clients -> {"nothing", "ok", "refused", "incomplete", "exhausted", "closed"}]
  /\ attempt \in [Clients -> 0..MaxAttempts]
  /\ stored \in Seq(Stored)
  /\ committed \in 0..Len(stored)

Bounded ==
  \A c \in Clients :
    /\ buffer[c] <= Request[c].head + Request[c].length
    /\ next[c] <= Len(Request[c].records) + 1

Exclusive == \A c \in Clients : lock = c <=> at[c] = "ingesting"

\* Nothing is stored for an attempt to come, and nothing said of one under way.
Past ==
  /\ \A i \in DOMAIN stored : stored[i][3] <= attempt[stored[i][1]]
  /\ \A c \in Clients : at[c] # "idle" => told[c] = "nothing"

\* An attempt that has not the lock yet has stored nothing.
Pending ==
  \A c \in Clients : at[c] \in {"reading", "waiting"} =>
    next[c] = 1 /\ Of(c, attempt[c]) = {}

\* One that has it has stored the records before the next, the last of them
\* just now.
Ingesting ==
  \A c \in Clients : at[c] = "ingesting" =>
    /\ Cardinality(Of(c, attempt[c])) = next[c] - 1
    /\ \A i \in Of(c, attempt[c]) : stored[i][2] < next[c]
    /\ next[c] > 1 => Len(stored) > 0 /\ stored[Len(stored)] = <<c, next[c] - 1, attempt[c]>>

IInv ==
  /\ Types /\ Bounded /\ Exclusive /\ Past /\ Pending /\ Ingesting
  /\ AckedStored /\ RefusedStoresNothing /\ RequestsContiguous /\ ChunksDoNotMatter

\* A step that stores nothing and is of the client c alone.
Quiet(c) ==
  /\ UNCHANGED <<stored, committed>>
  /\ \A d \in Clients \ {c} :
       /\ at'[d] = at[d] /\ buffer'[d] = buffer[d] /\ next'[d] = next[d]
       /\ told'[d] = told[d] /\ attempt'[d] = attempt[d]

-----------------------------------------------------------------------------
\* The provers, and the seconds each may take, for a step that names none.
USE SMTT(30), Z3T(30), ZenonT(30)

\* The facts about the constants a proof needs.
LEMMA Constants ==
  /\ NoOne \notin Clients
  /\ MaxAttempts \in Nat /\ MaxBody \in Nat /\ Chunk \in Nat \ {0}
  /\ \A c \in Clients :
       /\ Request[c].transport \in {"http", "grpc"}
       /\ Request[c].head \in Nat \ {0} /\ Request[c].length \in Nat
       /\ Request[c].records \in Seq(Nat \ {0}) /\ Len(Request[c].records) \in Nat
BY ReceiversAssumption, LenProperties

LEMMA StoredTyped ==
  ASSUME Types
  PROVE  /\ Len(stored) \in Nat /\ DOMAIN stored = 1..Len(stored)
         /\ \A i \in DOMAIN stored :
              /\ stored[i] = <<stored[i][1], stored[i][2], stored[i][3]>>
              /\ stored[i][1] \in Clients /\ stored[i][2] \in Nat \ {0} /\ stored[i][3] \in Nat
<1>1. stored \in Seq(Stored)
  BY DEF Types
<1>2. /\ Len(stored) \in Nat /\ DOMAIN stored = 1..Len(stored)
      /\ \A i \in DOMAIN stored : stored[i] \in Stored
  BY <1>1, LenProperties, ElementOfSeq
<1> QED
  BY <1>2 DEF Stored

\* What the other clients rely on survives a quiet step of c.
LEMMA QuietStep ==
  ASSUME IInv, NEW c \in Clients, Quiet(c), Types',
         \A d \in Clients \ {c} : lock' = d <=> lock = d,
         lock' = c <=> at'[c] = "ingesting",
         buffer'[c] <= Request[c].head + Request[c].length,
         next'[c] <= Len(Request[c].records) + 1,
         attempt'[c] >= attempt[c],
         at'[c] # "idle" => told'[c] = "nothing",
         at'[c] \in {"reading", "waiting"} => next'[c] = 1 /\ Of(c, attempt'[c]) = {},
         at'[c] = "ingesting" =>
           /\ attempt'[c] = attempt[c]
           /\ next'[c] = next[c]
           /\ \/ at[c] = "ingesting"
              \/ at[c] = "waiting",
         told'[c] = "ok" => Cardinality(Of(c, attempt'[c])) = Len(Request[c].records),
         told'[c] \in {"refused", "incomplete"} => Of(c, attempt'[c]) = {},
         told'[c] = "refused" =>
           told[c] = "refused" \/ ~(/\ Request[c].transport = "http" /\ Request[c].kind = "ok"
                                    /\ Request[c].head + Request[c].length <= MaxBody)
  PROVE  IInv'
<1>1. \A d \in Clients : \A a : Of(d, a)' = Of(d, a)
  BY DEF Quiet, Of
<1>2. \A d \in Clients : Of(d, attempt[d])' = Of(d, attempt'[d])
  BY DEF Quiet, Of
<1>3. Bounded' /\ Exclusive'
  BY DEF IInv, Bounded, Exclusive, Quiet
<1>4. Past'
  <2>1. \A d \in Clients : attempt[d] \in Nat /\ attempt'[d] \in Nat /\ attempt'[d] >= attempt[d]
    <3>1. \A d \in Clients : attempt[d] \in Nat /\ attempt'[d] \in Nat
      BY Constants DEF IInv, Types
    <3>2. \A d \in Clients \ {c} : attempt'[d] = attempt[d]
      BY DEF Quiet
    <3> QED
      BY <3>1, <3>2
  <2>2. \A i \in DOMAIN stored : stored[i][1] \in Clients /\ stored[i][3] \in Nat
    BY StoredTyped DEF IInv
  <2> QED
    BY <2>1, <2>2 DEF IInv, Past, Quiet
<1>5. Pending'
  BY <1>2 DEF IInv, Pending, Quiet
<1>6. Ingesting'
  <2> SUFFICES ASSUME NEW d \in Clients, at'[d] = "ingesting"
               PROVE  /\ Cardinality(Of(d, attempt'[d])) = next'[d] - 1
                      /\ \A i \in Of(d, attempt'[d]) : stored[i][2] < next'[d]
                      /\ next'[d] > 1 => Len(stored) > 0 /\ stored[Len(stored)] = <<d, next'[d] - 1, attempt'[d]>>
    BY <1>2 DEF Ingesting, Quiet
  <2>1. attempt'[d] = attempt[d] /\ next'[d] = next[d] /\ at[d] \in {"ingesting", "waiting"}
    BY DEF Quiet
  <2>2. CASE at[d] = "ingesting"
    BY <2>1, <2>2 DEF IInv, Ingesting
  <2>3. CASE at[d] = "waiting"
    <3>1. next[d] = 1 /\ Of(d, attempt[d]) = {}
      BY <2>3, ZenonT(30) DEF IInv, Pending
    <3> QED
      BY <2>1, <3>1, FS_EmptySet
  <2> QED
    BY <2>1, <2>2, <2>3
<1>7. AckedStored'
  BY <1>2 DEF IInv, AckedStored, Quiet
<1>8. RefusedStoresNothing'
  BY <1>2 DEF IInv, RefusedStoresNothing, Quiet
<1>9. RequestsContiguous'
  BY DEF IInv, RequestsContiguous, Quiet
<1>10. ChunksDoNotMatter'
  BY DEF IInv, ChunksDoNotMatter, Quiet
<1> QED
  BY <1>3, <1>4, <1>5, <1>6, <1>7, <1>8, <1>9, <1>10 DEF IInv

-----------------------------------------------------------------------------
(* One lemma for each group of actions.                                    *)

LEMMA SendStep ==
  ASSUME IInv, NEW c \in Clients, Send(c)
  PROVE  IInv'
<1>1. /\ at[c] = "idle" /\ attempt[c] < MaxAttempts /\ attempt[c] \in Nat
      /\ attempt' = [attempt EXCEPT ![c] = attempt[c] + 1]
      /\ told' = [told EXCEPT ![c] = "nothing"]
      /\ at'[c] \in {"reading", "waiting"}
      /\ at' = [at EXCEPT ![c] = at'[c]]
      /\ buffer' = [buffer EXCEPT ![c] = 0]
      /\ next' = [next EXCEPT ![c] = 1]
      /\ UNCHANGED <<lock, stored, committed>>
  BY Constants DEF Send, IInv, Types
<1>2. Quiet(c)
  BY <1>1 DEF Quiet, IInv, Types
<1>3. Types'
  BY <1>1, Constants DEF IInv, Types
<1>4. /\ attempt'[c] = attempt[c] + 1 /\ told'[c] = "nothing" /\ buffer'[c] = 0 /\ next'[c] = 1
  BY <1>1 DEF IInv, Types
<1>5. Of(c, attempt'[c]) = {}
  BY <1>1, <1>4, StoredTyped DEF IInv, Past, Of
<1>6. lock # c
  BY <1>1 DEF IInv, Exclusive
<1> QED
  BY <1>1, <1>2, <1>3, <1>4, <1>5, <1>6, QuietStep, Constants

LEMMA ChunkStep ==
  ASSUME IInv, NEW c \in Clients, NEW n \in 1..Chunk, ReceiveChunk(c, n)
  PROVE  IInv'
<1> DEFINE r == Request[c]
           read == buffer[c] + n
           outcome == Parsed(r, read)
           then == IF outcome = "complete" THEN Handled(r) ELSE outcome
<1>1. /\ at[c] = "reading" /\ read <= r.head + r.length /\ read \in Nat
      /\ buffer' = [buffer EXCEPT ![c] = read]
      /\ UNCHANGED <<next, attempt, lock, stored, committed>>
  BY Constants DEF ReceiveChunk, IInv, Types
<1>2. then \in {"refused", "waiting", "reading"}
  BY DEF Parsed, Handled
<1>3. ~(r.kind = "ok" /\ r.head + r.length <= MaxBody) \/ then # "refused"
  BY <1>1, Constants DEF Parsed, Handled, Complete
<1>4. \/ /\ then = "refused"
         /\ at' = [at EXCEPT ![c] = "idle"] /\ told' = [told EXCEPT ![c] = "refused"]
      \/ /\ then \in {"waiting", "reading"}
         /\ at' = [at EXCEPT ![c] = then] /\ told' = told
  BY <1>2 DEF ReceiveChunk, Refused
<1> HIDE DEF then
<1>5. /\ at'[c] \in {"idle", "waiting", "reading"}
      /\ told'[c] \in {told[c], "refused"}
      /\ told'[c] = "refused" => told[c] = "refused" \/ then = "refused"
      /\ at'[c] # "idle" => told'[c] = told[c]
      /\ buffer'[c] = read
  BY <1>1, <1>4 DEF IInv, Types
<1>6. Quiet(c)
  BY <1>1, <1>4 DEF Quiet, IInv, Types
<1>7. Types'
  BY <1>1, <1>4, ZenonT(30) DEF IInv, Types
<1>8. told[c] = "nothing" /\ next[c] = 1 /\ Of(c, attempt[c]) = {} /\ lock # c
  BY <1>1 DEF IInv, Past, Pending, Exclusive
<1>9. next'[c] = next[c] /\ attempt'[c] = attempt[c] /\ attempt[c] \in Nat /\ lock' = lock
  BY <1>1, Constants DEF IInv, Types
<1> QED
  BY <1>1, <1>3, <1>5, <1>6, <1>7, <1>8, <1>9, QuietStep, Constants

LEMMA EndStep ==
  ASSUME IInv, NEW c \in Clients, EndOfStream(c)
  PROVE  IInv'
<1>1. /\ at[c] = "reading"
      /\ at' = [at EXCEPT ![c] = "idle"] /\ told' = [told EXCEPT ![c] = "incomplete"]
      /\ UNCHANGED <<buffer, next, attempt, lock, stored, committed>>
  BY DEF EndOfStream, Refused
<1>2. Quiet(c) /\ Types' /\ at'[c] = "idle" /\ told'[c] = "incomplete"
  BY <1>1 DEF Quiet, IInv, Types
<1>3. Of(c, attempt[c]) = {} /\ lock # c
  BY <1>1 DEF IInv, Pending, Exclusive
<1>4. /\ buffer[c] <= Request[c].head + Request[c].length
      /\ next[c] <= Len(Request[c].records) + 1 /\ attempt[c] \in Nat
  BY Constants DEF IInv, Bounded, Types
<1> QED
  BY <1>1, <1>2, <1>3, <1>4, QuietStep

LEMMA LockStep ==
  ASSUME IInv, NEW c \in Clients, Lock(c)
  PROVE  IInv'
<1>1. /\ at[c] = "waiting" /\ lock = NoOne /\ lock' = c
      /\ at' = [at EXCEPT ![c] = "ingesting"]
      /\ UNCHANGED <<buffer, next, told, attempt, stored, committed>>
  BY DEF Lock
<1>2. Quiet(c) /\ Types' /\ at'[c] = "ingesting"
  BY <1>1 DEF Quiet, IInv, Types
<1>3. told[c] = "nothing"
  BY <1>1 DEF IInv, Past
<1>4. /\ buffer[c] <= Request[c].head + Request[c].length
      /\ next[c] <= Len(Request[c].records) + 1 /\ attempt[c] \in Nat
  BY Constants DEF IInv, Bounded, Types
<1> QED
  BY <1>1, <1>2, <1>3, <1>4, QuietStep, Constants

\* The two ways out of the lock: an error, or the answer after the last record.
LEMMA ReleaseSteps ==
  ASSUME IInv, NEW c \in Clients, IngestFails(c) \/ Respond(c)
  PROVE  IInv'
<1>1. /\ at[c] = "ingesting" /\ lock' = NoOne
      /\ at' = [at EXCEPT ![c] = "idle"]
      /\ UNCHANGED <<buffer, next, attempt, stored, committed>>
  BY DEF IngestFails, Respond, Released
<1>2. PICK seen \in {"nothing", "ok", "exhausted", "closed"} :
        /\ told' = [told EXCEPT ![c] = seen]
        /\ seen = "ok" => next[c] > Len(Request[c].records)
  BY DEF IngestFails, Respond, FailureAnswer, Ingested
<1>3. Quiet(c) /\ Types' /\ at'[c] = "idle" /\ told'[c] = seen
  BY <1>1, <1>2 DEF Quiet, IInv, Types
<1>4. /\ buffer[c] <= Request[c].head + Request[c].length
      /\ next[c] <= Len(Request[c].records) + 1 /\ attempt[c] \in Nat /\ next[c] \in Nat
  BY Constants DEF IInv, Bounded, Types
<1>5. lock = c /\ Cardinality(Of(c, attempt[c])) = next[c] - 1
  BY <1>1 DEF IInv, Exclusive, Ingesting
<1>6. seen = "ok" => Cardinality(Of(c, attempt[c])) = Len(Request[c].records)
  BY <1>2, <1>4, <1>5, Constants
<1> QED
  BY <1>1, <1>2, <1>3, <1>4, <1>5, <1>6, QuietStep, Constants

\* A record is stored behind the last one of the same request.
LEMMA IngestStep ==
  ASSUME IInv, NEW c \in Clients, IngestRecord(c)
  PROVE  IInv'
<1> DEFINE k == next[c]
           a == attempt[c]
           new == <<c, k, a>>
           n == Len(stored)
<1>1. /\ at[c] = "ingesting" /\ k <= Len(Request[c].records)
      /\ stored' = Append(stored, new)
      /\ next' = [next EXCEPT ![c] = k + 1]
      /\ UNCHANGED <<at, buffer, told, attempt, lock, committed>>
  BY DEF IngestRecord
<1>2. /\ k \in Nat \ {0} /\ a \in Nat /\ n \in Nat /\ stored \in Seq(Stored) /\ new \in Stored
      /\ next'[c] = k + 1 /\ \A d \in Clients \ {c} : next'[d] = next[d]
  BY <1>1, Constants, StoredTyped DEF IInv, Types, Stored
<1>3. /\ stored' \in Seq(Stored) /\ Len(stored') = n + 1
      /\ DOMAIN stored = 1..n /\ DOMAIN stored' = 1..(n + 1)
      /\ \A i \in 1..n : stored'[i] = stored[i]
      /\ stored'[n + 1] = new
  <2> HIDE DEF new
  <2> QED
    BY <1>1, <1>2, AppendProperties, LenProperties
<1>4. Types'
  <2>1. next' \in [Clients -> Nat \ {0}]
    BY <1>1, <1>2 DEF IInv, Types
  <2>2. committed \in 0..(n + 1)
    BY <1>2 DEF IInv, Types
  <2> QED
    BY <1>1, <1>3, <2>1, <2>2 DEF IInv, Types
<1>5. Bounded' /\ Exclusive'
  <2>1. Len(Request[c].records) \in Nat
    BY Constants
  <2> QED
    BY <1>1, <1>2, <2>1 DEF IInv, Bounded, Exclusive
<1>6. \A d \in Clients \ {c} : at[d] # "ingesting"
  BY <1>1 DEF IInv, Exclusive
<1>7. told[c] = "nothing"
  BY <1>1 DEF IInv, Past
<1>8. \A d \in Clients \ {c} : Of(d, attempt[d])' = Of(d, attempt[d])
  <2> SUFFICES ASSUME NEW d \in Clients \ {c}
               PROVE  \A i : i \in Of(d, attempt[d])' <=> i \in Of(d, attempt[d])
    BY ZenonT(30) DEF Of
  <2>1. \A i \in 1..n : i \in 1..(n + 1)
    BY <1>2
  <2>2. \A i \in 1..(n + 1) : i \in 1..n \/ i = n + 1
    BY <1>2
  <2>3. new[1] = c
    OBVIOUS
  <2> QED
    BY <1>1, <1>3, <2>1, <2>2, <2>3 DEF Of
<1>9. /\ Of(c, attempt[c])' = Of(c, a) \cup {n + 1}
      /\ n + 1 \notin Of(c, a) /\ Of(c, a) \subseteq 1..n
  <2>1. Of(c, a) \subseteq 1..n /\ n + 1 \notin 1..n
    BY <1>2, <1>3 DEF Of
  <2>2. \A i \in 1..(n + 1) : i \in 1..n \/ i = n + 1
    BY <1>2
  <2>3. new[1] = c /\ new[3] = a /\ n + 1 \in 1..(n + 1) /\ \A i \in 1..n : i \in 1..(n + 1)
    BY <1>2
  <2>4. \A i : i \in Of(c, attempt[c])' <=> i \in Of(c, a) \/ i = n + 1
    BY <1>1, <1>3, <2>1, <2>2, <2>3 DEF Of
  <2> QED
    BY <2>1, <2>4
<1>10. Past'
  <2>1. new[1] = c /\ new[3] = a /\ a <= a
    BY <1>2
  <2>2. \A i \in 1..(n + 1) : i \in 1..n \/ i = n + 1
    BY <1>2
  <2> QED
    BY <1>1, <1>3, <2>1, <2>2 DEF IInv, Past
<1>11. Pending'
  BY <1>1, <1>2, <1>8, ZenonT(30) DEF IInv, Pending
<1>12. Ingesting'
  <2>1. Cardinality(Of(c, a)) = k - 1 /\ \A i \in Of(c, a) : stored[i][2] < k
    BY <1>1 DEF IInv, Ingesting
  <2>2. IsFiniteSet(Of(c, a))
    <3>1. 1 \in Int /\ n \in Int
      BY <1>2
    <3>2. IsFiniteSet(1..n)
      BY <3>1, FS_Interval, ZenonT(30)
    <3> QED
      BY <1>9, <3>2, FS_Subset, ZenonT(30)
  <2>3. Cardinality(Of(c, attempt[c])') = k
    <3>1. Cardinality(Of(c, a) \cup {n + 1}) = Cardinality(Of(c, a)) + 1
      BY <1>9, <2>2, FS_AddElement, ZenonT(30)
    <3> QED
      BY <1>2, <1>9, <2>1, <3>1
  <2>4. \A i \in Of(c, attempt[c])' : stored'[i][2] < k + 1
    <3>1. new[2] = k /\ \A i \in 1..n : stored[i][2] \in Nat
      BY <1>3, StoredTyped DEF IInv
    <3> QED
      BY <1>2, <1>3, <1>9, <2>1, <3>1
  <2>5. stored'[Len(stored')] = <<c, (k + 1) - 1, a>> /\ Len(stored') > 0
    BY <1>2, <1>3
  <2>6. Cardinality(Of(c, attempt[c])') = (k + 1) - 1
    BY <1>2, <2>3
  <2> HIDE DEF k, a, new, n
  <2>7. attempt'[c] = a
    BY <1>1 DEF a
  <2> QED
    BY <1>1, <1>2, <1>6, <2>4, <2>5, <2>6, <2>7, ZenonT(30) DEF Ingesting
<1>13. AckedStored' /\ RefusedStoresNothing'
  <2>1. \A d \in Clients : told'[d] = told[d]
    BY <1>1
  <2>2. \A d \in Clients : told[d] # "nothing" => Of(d, attempt[d])' = Of(d, attempt[d])
    BY <1>7, <1>8
  <2> QED
    BY <2>1, <2>2 DEF IInv, AckedStored, RefusedStoresNothing
<1>14. RequestsContiguous'
  <2>1. \A i \in 1..(n + 1) : i \in 1..n \/ i = n + 1
    BY <1>2
  <2>2. \A i \in 1..n : stored[i] # new
    <3> SUFFICES ASSUME NEW i \in 1..n, stored[i] = new
                 PROVE  FALSE
      OBVIOUS
    <3>1. i \in Of(c, a)
      BY <1>3 DEF Of
    <3>2. stored[i][2] < k
      BY <1>1, <3>1 DEF IInv, Ingesting
    <3> QED
      BY <1>2, <3>2
  <2>3. ASSUME NEW i \in 1..n, stored[i][2] > 1
        PROVE  i > 1 /\ stored'[i - 1] = [stored'[i] EXCEPT ![2] = @ - 1]
    <3>1. i > 1 /\ stored[i - 1] = [stored[i] EXCEPT ![2] = @ - 1]
      BY <1>3, <2>3, ZenonT(30) DEF IInv, RequestsContiguous
    <3>2. i - 1 \in 1..n
      BY <1>2, <3>1
    <3> QED
      BY <1>3, <3>1, <3>2
  <2>4. k > 1 => n + 1 > 1 /\ stored'[(n + 1) - 1] = [new EXCEPT ![2] = @ - 1]
    <3> SUFFICES ASSUME k > 1
                 PROVE  n + 1 > 1 /\ stored'[(n + 1) - 1] = [new EXCEPT ![2] = @ - 1]
      OBVIOUS
    <3>1. n > 0 /\ stored[n] = <<c, k - 1, a>>
      BY <1>1 DEF IInv, Ingesting
    <3>2. n + 1 > 1 /\ (n + 1) - 1 = n /\ n \in 1..n
      BY <1>2, <3>1
    <3>3. [new EXCEPT ![2] = @ - 1] = <<c, k - 1, a>>
      OBVIOUS
    <3> QED
      BY <1>3, <3>1, <3>2, <3>3
  <2>5. new[2] = k
    OBVIOUS
  <2>6. \A i, j \in 1..n : stored[i] = stored[j] => i = j
    BY <1>3, ZenonT(30) DEF IInv, RequestsContiguous
  <2> HIDE DEF new, k, n
  <2>7. \A i \in 1..(n + 1) :
          stored'[i][2] > 1 => i > 1 /\ stored'[i - 1] = [stored'[i] EXCEPT ![2] = @ - 1]
    BY <1>3, <2>1, <2>3, <2>4, <2>5
  <2>8. \A i, j \in 1..(n + 1) : stored'[i] = stored'[j] => i = j
    BY <1>3, <2>1, <2>2, <2>6
  <2> QED
    BY <1>3, <2>7, <2>8 DEF RequestsContiguous
<1>15. ChunksDoNotMatter'
  BY <1>1 DEF IInv, ChunksDoNotMatter
<1> QED
  BY <1>4, <1>5, <1>10, <1>11, <1>12, <1>13, <1>14, <1>15 DEF IInv

-----------------------------------------------------------------------------
(* The invariant, and what follows from it.                                *)

LEMMA InitIInv == Init => IInv
<1> SUFFICES ASSUME Init
             PROVE  IInv
  OBVIOUS
<1>1. stored = <<>> /\ DOMAIN stored = {} /\ Len(stored) = 0 /\ stored \in Seq(Stored)
  BY DEF Init
<1>2. \A c \in Clients : \A b : Of(c, b) = {}
  BY <1>1 DEF Of
<1>3. Types /\ Bounded /\ Exclusive
  BY <1>1, Constants DEF Init, Types, Bounded, Exclusive
<1>4. Past /\ Pending /\ Ingesting
  BY <1>1, <1>2 DEF Init, Past, Pending, Ingesting
<1> QED
  BY <1>1, <1>2, <1>3, <1>4
     DEF Init, IInv, AckedStored, RefusedStoresNothing, RequestsContiguous, ChunksDoNotMatter

\* Only committed and the queue's byte count change, of which IInv says little.
LEMMA CommitStep ==
  ASSUME IInv, UNCHANGED <<at, buffer, next, told, attempt, lock, stored>>,
         committed' \in 0..Len(stored)
  PROVE  IInv'
<1>1. \A c, b : Of(c, b)' = Of(c, b)
  BY DEF Of
<1>2. Types' /\ Bounded' /\ Exclusive'
  BY DEF IInv, Types, Bounded, Exclusive
<1>3. Past' /\ Pending' /\ Ingesting'
  BY DEF IInv, Past, Pending, Ingesting, Of
<1>4. AckedStored' /\ RefusedStoresNothing' /\ RequestsContiguous' /\ ChunksDoNotMatter'
  BY DEF IInv, AckedStored, RefusedStoresNothing, RequestsContiguous, ChunksDoNotMatter, Of
<1> QED
  BY <1>2, <1>3, <1>4 DEF IInv

LEMMA NextIInv ==
  ASSUME IInv, [Next]_vars
  PROVE  IInv'
<1>1. ASSUME NEW c \in Clients,
             \/ Send(c) \/ EndOfStream(c) \/ Lock(c) \/ IngestRecord(c) \/ IngestFails(c)
             \/ Respond(c)
             \/ \E n \in 1..Chunk : ReceiveChunk(c, n)
      PROVE  IInv'
  BY <1>1, SendStep, EndStep, LockStep, IngestStep, ReleaseSteps, ChunkStep
<1>2. CASE \E n \in DOMAIN stored : Commit(n)
  <2>1. /\ UNCHANGED <<at, buffer, next, told, attempt, lock, stored>>
        /\ committed' \in (committed + 1)..Len(stored)
    BY <1>2 DEF Commit
  <2>2. committed \in 0..Len(stored) /\ Len(stored) \in Nat
    BY StoredTyped DEF IInv, Types
  <2>3. committed' \in 0..Len(stored)
    BY <2>1, <2>2
  <2> QED
    BY <2>1, <2>3, CommitStep
<1>3. CASE UNCHANGED vars
  BY <1>3, CommitStep DEF vars, IInv, Types
<1> QED
  BY <1>1, <1>2, <1>3 DEF Next

LEMMA Invariance == Spec => []IInv
BY InitIInv, NextIInv, PTL DEF Spec

\* Every task is where handle_otlp_http and the gRPC service can be, within its
\* request, and the one that ingests is the one that has the runtime's lock.
THEOREM ReceiversTypeOK == Spec => []TypeOK
<1>1. IInv => TypeOK
  BY Constants DEF IInv, Types, Bounded, Exclusive, TypeOK
<1> QED
  BY <1>1, Invariance, PTL

\* A client that was told of success has its records stored, all and once.
THEOREM AcknowledgedIsStored == Spec => []AckedStored
BY Invariance, PTL DEF IInv

\* A request that was refused left nothing in the queue.
THEOREM RefusedLeavesNothing == Spec => []RefusedStoresNothing
BY Invariance, PTL DEF IInv

\* What an attempt stored is the beginning of its request, in order and
\* uninterrupted.
THEOREM RequestsDoNotMix == Spec => []RequestsContiguous
BY Invariance, PTL DEF IInv

\* No way to cut a request within the limit into chunks gets it refused.
THEOREM ChunkingIsHarmless == Spec => []ChunksDoNotMatter
BY Invariance, PTL DEF IInv

-----------------------------------------------------------------------------
(* The configuration.                                                      *)

\* What the code's types say of a configuration that is built.
Shape(c) ==
  /\ {"tenant_id", "receivers", "exporters", "routes"} \subseteq DOMAIN c
  /\ \E n \in Nat : c.receivers = [i \in 1..n |-> c.receivers[i]]
  /\ \A i \in DOMAIN c.receivers : c.receivers[i].protocol \in {"otlp-grpc", "otlp-http"}
  /\ \A i \in DOMAIN c.exporters : "max_attempts" \in DOMAIN c.exporters[i].retry
  /\ DOMAIN c.routes \subseteq Nat

Sound(c) == Shape(c) /\ Config!validate(c)

\* A configuration is in use only once the runtime is open, and then it is one
\* that was validated.
ConfigInv ==
  /\ start \in Starts
  /\ \A c \in running : Sound(c)
  /\ status = "starting" => running = {}
  /\ Config!ReceiverFound

LEMMA NamesListed ==
  ASSUME NEW map, IsFiniteSet(DOMAIN map), NEW place, NEW names \in Config!InOrder(map, place)
  PROVE  \E n \in Nat : names \in [1..n -> DOMAIN map]
<1>1. Config!Cardinality(DOMAIN map) \in Nat
  <2>1. Cardinality(DOMAIN map) \in Nat
    BY FS_CardinalityType
  <2> QED
    BY <2>1 DEF Cardinality, Config!Cardinality
<1>2. names \in [1..Config!Cardinality(DOMAIN map) -> DOMAIN map]
  BY DEF Config!InOrder, Config!Bijection, Config!Injection, Config!Surjection
<1> QED
  BY <1>1, <1>2

LEMMA FileShape ==
  ASSUME NEW file, FinitelyMany(file), NEW c \in Config!into_pipeline_config(file)
  PROVE  Shape(c)
<1>1. PICK r \in Config!Sorted(file.receivers), p \in Config!SortedWords(file.processors),
           e \in Config!Sorted(file.exporters), w \in Config!SortedWords(file.routes) :
        /\ Config!parses(file)
        /\ c = [tenant_id |-> file.tenant, name |-> Config!OrDefault(file.pipeline, "default"),
                receivers |-> Config!into_receiver_configs(file, r),
                processors |-> Config!into_processor_configs(file, p),
                exporters |-> Config!into_exporter_configs(file, e),
                routes |-> Config!into_route_configs(file, w),
                limits |-> Config!WithDefaults(file.limits, Config!DefaultLimits)]
  BY DEF Config!into_pipeline_config
<1>2. PICK n \in Nat : r \in [1..n -> DOMAIN file.receivers]
  BY <1>1, NamesListed DEF FinitelyMany, Config!Sorted
<1>3. PICK m \in Nat : w \in [1..m -> DOMAIN file.routes]
  BY <1>1, NamesListed DEF FinitelyMany, Config!SortedWords
<1>4. /\ {"tenant_id", "receivers", "exporters", "routes"} \subseteq DOMAIN c
      /\ c.receivers = Config!into_receiver_configs(file, r)
      /\ c.exporters = Config!into_exporter_configs(file, e)
      /\ c.routes = Config!into_route_configs(file, w)
  BY <1>1
<1>5. c.receivers = [i \in 1..n |-> c.receivers[i]]
  BY <1>2, <1>4 DEF Config!into_receiver_configs
<1>6. ASSUME NEW i \in DOMAIN c.receivers
      PROVE  c.receivers[i].protocol \in {"otlp-grpc", "otlp-http"}
  <2>1. r[i] \in DOMAIN file.receivers
        /\ c.receivers[i].protocol
             = Config!The(Config!parse_receiver_protocol(file.receivers[r[i]]))
    BY <1>2, <1>4, <1>6 DEF Config!into_receiver_configs
  <2>2. Config!parse_receiver_protocol(file.receivers[r[i]]) # {}
    BY <1>1, <2>1 DEF Config!parses
  <2> QED
    BY <2>1, <2>2 DEF Config!The, Config!parse_receiver_protocol
<1>7. ASSUME NEW i \in DOMAIN c.exporters
      PROVE  "max_attempts" \in DOMAIN c.exporters[i].retry
  BY <1>4, <1>7 DEF Config!into_exporter_configs, Config!WithDefaults, Config!DefaultRetry
<1>8. DOMAIN c.routes \subseteq Nat
  BY <1>3, <1>4 DEF Config!into_route_configs
<1> QED
  BY <1>4, <1>5, <1>6, <1>7, <1>8 DEF Shape

LEMMA DefaultShape == Shape(Config!DefaultConfig)
<1> DEFINE c == Config!DefaultConfig
<1>1. /\ {"tenant_id", "receivers", "exporters", "routes"} \subseteq DOMAIN c
      /\ c.receivers = <<[name |-> 1, protocol |-> "otlp-grpc"], [name |-> 2, protocol |-> "otlp-http"]>>
      /\ c.exporters = <<Config!StdoutExporter>>
      /\ c.routes = Config!RoutesTo(Config!StdoutExporter.name)
  BY DEF Config!DefaultConfig
<1>2. DOMAIN c.receivers = 1..2 /\ c.receivers = [i \in 1..2 |-> c.receivers[i]]
      /\ \A i \in 1..2 : c.receivers[i].protocol \in {"otlp-grpc", "otlp-http"}
  BY <1>1
<1>3. \A i \in DOMAIN c.exporters : "max_attempts" \in DOMAIN c.exporters[i].retry
  BY <1>1 DEF Config!StdoutExporter, Config!DefaultRetry
<1>4. DOMAIN c.routes \subseteq Nat
  BY <1>1 DEF Config!RoutesTo
<1> QED
  BY <1>1, <1>2, <1>3, <1>4 DEF Shape

LEMMA NamedShape ==
  ASSUME NEW c, Shape(c), NEW tenant
  PROVE  Shape([c EXCEPT !.tenant_id = tenant])
<1> DEFINE d == [c EXCEPT !.tenant_id = tenant]
<1>1. DOMAIN d = DOMAIN c /\ d.receivers = c.receivers /\ d.exporters = c.exporters
      /\ d.routes = c.routes
  BY DEF Shape
<1> QED
  BY <1>1 DEF Shape

LEMMA UpstreamShape ==
  ASSUME NEW c, Shape(c), NEW address
  PROVE  Shape(Config!with_upstream(c, address))
<1> DEFINE d == Config!with_upstream(c, address)
           x == [name |-> Config!Upstream, protocol |-> "otlp-grpc", endpoint |-> address,
                 retry |-> Config!DefaultRetry]
<1>1. DOMAIN d = DOMAIN c /\ d.receivers = c.receivers
      /\ d.exporters = <<x, Config!StdoutExporter>>
      /\ d.routes = Config!RoutesTo(Config!Upstream)
  BY DEF Shape, Config!with_upstream
<1>2. \A i \in DOMAIN d.exporters : "max_attempts" \in DOMAIN d.exporters[i].retry
  BY <1>1 DEF Config!StdoutExporter, Config!DefaultRetry
<1>3. DOMAIN d.routes \subseteq Nat
  BY <1>1 DEF Config!RoutesTo
<1> QED
  BY <1>1, <1>2, <1>3, ZenonT(30) DEF Shape

LEMMA BuiltSound ==
  ASSUME start \in Starts, NEW c \in Config!build_pipeline_config
  PROVE  Sound(c)
<1> DEFINE loaded == IF start.file = {} THEN {Config!DefaultConfig}
                     ELSE UNION {Config!parse_pipeline_config(f) : f \in start.file}
<1>1. PICK b \in loaded :
        LET d == [b EXCEPT !.tenant_id = Config!OrDefault(start.tenant, b.tenant_id)] IN
        /\ c = IF start.upstream = {} THEN d
               ELSE Config!with_upstream(d, Config!The(start.upstream))
        /\ Config!validate(c)
  BY DEF Config!build_pipeline_config
<1>2. Shape(b)
  <2>1. CASE start.file = {}
    BY <1>1, <2>1, DefaultShape
  <2>2. CASE start.file # {}
    <3>1. PICK f \in start.file : b \in Config!into_pipeline_config(f)
      BY <1>1, <2>2 DEF Config!parse_pipeline_config
    <3>2. FinitelyMany(f)
      BY <3>1, ConfigAssumption
    <3> QED
      BY <3>1, <3>2, FileShape
  <2> QED
    BY <2>1, <2>2
<1> QED
  BY <1>1, <1>2, NamedShape, UpstreamShape DEF Sound

LEMMA UpdateSound ==
  ASSUME NEW u \in Updates, NEW c \in Config!validate_config_update(u)
  PROVE  /\ u.checksum /\ (SigningKey => u.signature = "good")
         /\ c \in Config!into_pipeline_config(u.file)
         /\ Sound(c)
<1>1. /\ u.checksum /\ (SigningKey => u.signature = "good")
      /\ c \in Config!into_pipeline_config(u.file) /\ Config!validate(c)
  <2>1. u.checksum /\ Config!validate_config_signature(u)
    BY DEF Config!validate_config_update
  <2>2. c \in Config!parse_pipeline_config(u.file)
    BY <2>1 DEF Config!validate_config_update
  <2> QED
    BY <2>1, <2>2 DEF Config!validate_config_signature, Config!parse_pipeline_config
<1>2. FinitelyMany(u.file)
  BY ConfigAssumption
<1> QED
  BY <1>1, <1>2, FileShape DEF Sound

LEMMA Smallest ==
  ASSUME NEW S, S \subseteq Nat, S # {}
  PROVE  \E i \in S : \A j \in S : i <= j
<1>1. PICK i \in S : \A j \in S : ~(<<j, i>> \in OpToRel(<, Nat))
  BY WFMin, NatLessThanWellFounded, ZenonT(30)
<1>2. \A j \in S : ~(j < i)
  BY <1>1, ZenonT(30) DEF OpToRel
<1> QED
  BY <1>2

\* The router finds the exporters of a validated configuration's routes.
LEMMA SoundRoutes ==
  ASSUME NEW c, Sound(c), NEW r \in Config!Range(c.routes)
  PROVE  Config!exporters_for(c, r.signal) \notin {{}, {<<>>}}
<1> DEFINE found == {i \in DOMAIN c.routes : c.routes[i].signal = r.signal}
<1>1. found # {} /\ found \subseteq Nat
  BY DEF Sound, Shape, Config!Range
<1>2. PICK i \in found : \A j \in found : i <= j
  BY <1>1, Smallest, ZenonT(30)
<1>3. /\ c.routes[i].exporters # <<>>
      /\ Config!Range(c.routes[i].exporters) \subseteq Config!Names(c.exporters)
  BY <1>2, ZenonT(30) DEF Sound, Config!validate, Config!validate_routes
<1>4. c.routes[i].exporters \in Config!exporters_for(c, r.signal)
  BY <1>2, <1>3 DEF Config!exporters_for
<1> QED
  BY <1>3, <1>4

LEMMA SoundAttempts ==
  ASSUME NEW c, Sound(c), NEW e \in Config!Range(c.exporters)
  PROVE  e.retry.max_attempts > 0
BY ZenonT(30) DEF Sound, Shape, Config!validate, Config!Range

LEMMA SoundReceives ==
  ASSUME NEW c, Sound(c), start.file # {}
  PROVE  Config!receiver_mode(c) # {}
<1>1. c.receivers # <<>>
  BY ZenonT(30) DEF Sound, Config!validate, Config!requires_parts
<1>2. PICK n \in Nat : c.receivers = [i \in 1..n |-> c.receivers[i]]
  BY DEF Sound, Shape
<1>3. n # 0
  <2> SUFFICES ASSUME n = 0
               PROVE  c.receivers = <<>>
    BY <1>1
  <2>1. 1..0 = {}
    OBVIOUS
  <2> QED
    BY <1>2, <2>1
<1>4. c.receivers[1].protocol \in Config!Protocols(c) \cap {"otlp-grpc", "otlp-http"}
  BY <1>2, <1>3 DEF Sound, Shape, Config!Protocols, Config!Range
<1> QED
  BY <1>4 DEF Config!receiver_mode

LEMMA ConfigStart == Config!Init => ConfigInv
BY DEF Config!Init, ConfigInv, Config!ReceiverFound

LEMMA ConfigSteps ==
  ASSUME ConfigInv, [Config!Next]_config_vars
  PROVE  ConfigInv'
<1>1. CASE Config!Open
  <2>1. PICK c \in Config!build_pipeline_config : running' = {c}
    BY <1>1 DEF Config!Open
  <2>2. Sound(c)
    BY <2>1, BuiltSound DEF ConfigInv
  <2> QED
    BY <1>1, <2>1, <2>2 DEF Config!Open, ConfigInv, Config!ReceiverFound
<1>2. CASE Config!Leave
  BY <1>2 DEF Config!Leave, ConfigInv, Config!ReceiverFound
<1>3. CASE Config!ChooseReceiver
  <2>1. PICK c \in running : mode' = Config!receiver_mode(c)
    BY <1>3 DEF Config!ChooseReceiver
  <2>2. start.file # {} => mode' # {}
    BY <2>1, SoundReceives DEF ConfigInv
  <2> QED
    BY <1>3, <2>2 DEF Config!ChooseReceiver, ConfigInv, Config!ReceiverFound
<1>4. ASSUME NEW u \in Updates, Config!ApplyUpdate(u)
      PROVE  ConfigInv'
  <2>1. PICK c \in Config!validate_config_update(u) : running' = {c}
    BY <1>4 DEF Config!ApplyUpdate
  <2>2. Sound(c)
    BY <2>1, UpdateSound
  <2> QED
    BY <1>4, <2>1, <2>2 DEF Config!ApplyUpdate, ConfigInv, Config!ReceiverFound
<1>5. ASSUME UNCHANGED config_vars
      PROVE  ConfigInv'
  BY <1>5 DEF config_vars, ConfigInv, Config!ReceiverFound
<1> QED
  BY <1>1, <1>2, <1>3, <1>4, <1>5 DEF Config!Next, Config!RejectUpdate, Config!vars, config_vars

\* Whatever files, command lines and updates there are: in the configuration the
\* agent uses, Router::exporters_for finds exporters for every signal that has a
\* route and every exporter is tried, and receiver_mode finds a receiver.
THEOREM ConfigurationIsUsable == Config!Spec => []RunningUsable
<1>1. Config!Init => ConfigInv
  BY ConfigStart
<1>2. ConfigInv /\ [Config!Next]_config_vars => ConfigInv'
  BY ConfigSteps
<1>3. ConfigInv => RunningUsable
  <2> SUFFICES ASSUME ConfigInv
               PROVE  Config!RunningRoutable
    BY DEF ConfigInv, RunningUsable
  <2> SUFFICES ASSUME NEW c \in running
               PROVE  /\ \A r \in Config!Range(c.routes) :
                           Config!exporters_for(c, r.signal) \notin {{}, {<<>>}}
                      /\ \A e \in Config!Range(c.exporters) : e.retry.max_attempts > 0
    BY DEF Config!RunningRoutable
  <2>1. Sound(c)
    BY DEF ConfigInv
  <2> QED
    BY <2>1, SoundRoutes, SoundAttempts
<1> QED
  BY <1>1, <1>2, <1>3, PTL DEF Config!Spec, Config!vars, config_vars

\* fetch_and_apply_config replaces the configuration in use only by that of an
\* update with a good checksum and signature that is valid and can be built, and
\* nothing else replaces it.
THEOREM UpdatesAreGood == Config!Spec => OnlyGoodUpdates
<1> DEFINE Good == running # {} /\ running' # running =>
       \E u \in Updates :
         /\ u.checksum /\ (SigningKey => u.signature = "good")
         /\ \E c \in Config!into_pipeline_config(u.file) :
              running' = {c} /\ Config!validate(c) /\ Config!build_exporters(c)
<1>1. Config!Init => ConfigInv
  BY ConfigStart
<1>2. ConfigInv /\ [Config!Next]_config_vars => ConfigInv'
  BY ConfigSteps
<1>3. ConfigInv /\ [Config!Next]_config_vars => Good
  <2> SUFFICES ASSUME ConfigInv, [Config!Next]_config_vars, running # {}, running' # running
               PROVE  Good
    OBVIOUS
  <2>1. PICK u \in Updates : Config!ApplyUpdate(u)
    BY DEF ConfigInv, config_vars, Config!Next, Config!Open, Config!Leave,
           Config!ChooseReceiver, Config!RejectUpdate, Config!vars
  <2>2. PICK c \in Config!validate_config_update(u) : Config!build_exporters(c) /\ running' = {c}
    BY <2>1 DEF Config!ApplyUpdate
  <2> QED
    BY <2>2, UpdateSound DEF Sound
<1> QED
  BY <1>1, <1>2, <1>3, PTL
     DEF Config!Spec, Config!vars, config_vars, OnlyGoodUpdates, Config!OnlyGoodUpdates
=============================================================================
