------------------------------ MODULE Receivers ------------------------------
(***************************************************************************)
(* The OTLP receivers (crates/telemetry-agent/src/otlp_http.rs, otlp.rs):  *)
(* clients send requests of several records over HTTP or gRPC, every       *)
(* connection has its own task, and a task holds the runtime's lock while  *)
(* it ingests its records one by one.  A client that is not told of        *)
(* success sends the request again.                                        *)
(*                                                                         *)
(* An HTTP request is read in chunks of any size into a buffer; its bytes  *)
(* are counted in units.  gRPC framing is the library's: a gRPC request    *)
(* arrives whole.  The disk queue is what it holds and its byte count.     *)
(***************************************************************************)
EXTENDS Integers, Sequences, FiniteSets, FiniteSetsExt

CONSTANTS
  Clients,
  Request,      \* Request[c]: transport, kind, head, length, records (sizes)
  MaxBody,      \* MAX_OTLP_HTTP_BODY_BYTES
  Chunk,        \* the read buffer
  max_record_bytes, max_queue_bytes,
  MaxAttempts   \* bound: times a client sends its request

\* kind: "ok", or what is wrong with the request.
Kinds == {"ok", "no_length", "not_post", "unknown_path", "undecodable"}

NoOne == "nobody"

ASSUME ReceiversAssumption ==
  /\ NoOne \notin Clients
  /\ \A c \in Clients :
       /\ Request[c].transport \in {"http", "grpc"}
       /\ Request[c].kind \in Kinds
       /\ Request[c].head \in Nat \ {0} /\ Request[c].length \in Nat
       /\ Request[c].records \in Seq(Nat \ {0})
  /\ {MaxBody, max_record_bytes, max_queue_bytes, MaxAttempts} \subseteq Nat
  /\ Chunk \in Nat \ {0}

VARIABLES
  at,        \* at[c]: where the task of c's connection is
  buffer,    \* buffer[c]: bytes read
  next,      \* next[c]: the record to ingest
  told,      \* told[c]: what the client knows of its last attempt
  attempt,   \* attempt[c]: which one it is
  lock,      \* who holds the runtime
  stored,    \* every record ever stored, in order: <<c, k, attempt>>
  committed  \* how many of them are off the queue

vars == <<at, buffer, next, told, attempt, lock, stored, committed>>

Init ==
  /\ at = [c \in Clients |-> "idle"]
  /\ buffer = [c \in Clients |-> 0]
  /\ next = [c \in Clients |-> 1]
  /\ told = [c \in Clients |-> "nothing"]
  /\ attempt = [c \in Clients |-> 0]
  /\ lock = NoOne
  /\ stored = <<>>
  /\ committed = 0

-----------------------------------------------------------------------------
Send(c) ==
  /\ at[c] = "idle"
  /\ told[c] # "ok"
  /\ attempt[c] < MaxAttempts
  /\ attempt' = [attempt EXCEPT ![c] = @ + 1]
  /\ told' = [told EXCEPT ![c] = "nothing"]
  /\ at' = [at EXCEPT ![c] = IF Request[c].transport = "http" THEN "reading" ELSE "waiting"]
  /\ buffer' = [buffer EXCEPT ![c] = 0]
  /\ next' = [next EXCEPT ![c] = 1]
  /\ UNCHANGED <<lock, stored, committed>>

Complete(r, n) == n >= r.head + r.length

\* parse_buffered_http_request, then the check of the buffer: what becomes of a
\* request of which n bytes are read.
Parsed(r, n) ==
  CASE n >= r.head /\ r.kind = "no_length" -> "refused"
    [] n >= r.head /\ r.length > MaxBody -> "refused"
    [] n >= r.head /\ Complete(r, n) -> "complete"
    [] OTHER -> IF n > MaxBody THEN "refused" ELSE "reading"

\* The checks of handle_otlp_http before it ingests.
Handled(r) == IF r.kind = "ok" THEN "waiting" ELSE "refused"

\* A refusal is answered (400, 404 or 405) and the connection closed.
Refused(c, why) ==
  /\ at' = [at EXCEPT ![c] = "idle"]
  /\ told' = [told EXCEPT ![c] = why]

ReceiveChunk(c, n) ==
  LET r == Request[c]
      outcome == Parsed(r, buffer[c] + n)
      then == IF outcome = "complete" THEN Handled(r) ELSE outcome IN
  /\ at[c] = "reading"
  /\ buffer[c] + n <= r.head + r.length
  /\ buffer' = [buffer EXCEPT ![c] = @ + n]
  /\ IF then = "refused" THEN Refused(c, "refused")
     ELSE at' = [at EXCEPT ![c] = then] /\ UNCHANGED told
  /\ UNCHANGED <<next, attempt, lock, stored, committed>>

\* The client's side of the connection closes before the request is complete.
EndOfStream(c) ==
  /\ at[c] = "reading"
  /\ Refused(c, "incomplete")
  /\ UNCHANGED <<buffer, next, attempt, lock, stored, committed>>

\* Mutant: the runtime is not locked for the whole request.
LockShared(c) ==
  /\ at[c] = "waiting"
  /\ lock' = c
  /\ at' = [at EXCEPT ![c] = "ingesting"]
  /\ UNCHANGED <<buffer, next, told, attempt, stored, committed>>

Lock(c) ==
  /\ at[c] = "waiting"
  /\ lock = NoOne
  /\ lock' = c
  /\ at' = [at EXCEPT ![c] = "ingesting"]
  /\ UNCHANGED <<buffer, next, told, attempt, stored, committed>>

Size(x) == Request[x[1]].records[x[2]]

queued_bytes ==
  MapThenSumSet(LAMBDA i : Size(stored[i]), (committed + 1)..Len(stored))

\* AgentRuntime::ingest_inner
Admits(size) == size <= max_record_bytes /\ queued_bytes + size <= max_queue_bytes

\* Mutant: the lock is only released on success.
AfterError(c) == lock

\* The guard is dropped on every way out.
Released(c) == NoOne

IngestRecord(c) ==
  /\ at[c] = "ingesting"
  /\ next[c] <= Len(Request[c].records)
  /\ Admits(Request[c].records[next[c]])
  /\ stored' = Append(stored, <<c, next[c], attempt[c]>>)
  /\ next' = [next EXCEPT ![c] = @ + 1]
  /\ UNCHANGED <<at, buffer, told, attempt, lock, committed>>

\* Mutant: the HTTP receiver answers 400, as for a request it did not look into.
FailureRefuses(c) == IF Request[c].transport = "grpc" THEN "exhausted" ELSE "refused"

\* gRPC answers with resource_exhausted; over HTTP the error ends the task,
\* without an answer.
FailureAnswer(c) == IF Request[c].transport = "grpc" THEN "exhausted" ELSE "closed"

\* The first record that is not admitted ends the request.
IngestFails(c) ==
  /\ at[c] = "ingesting"
  /\ next[c] <= Len(Request[c].records)
  /\ ~Admits(Request[c].records[next[c]])
  /\ at' = [at EXCEPT ![c] = "idle"]
  /\ told' = [told EXCEPT ![c] = FailureAnswer(c)]
  /\ lock' = Released(c)
  /\ UNCHANGED <<buffer, next, attempt, stored, committed>>

\* Mutant: the answer does not wait for the last record.
AlmostIngested(c) == next[c] >= Len(Request[c].records)

Ingested(c) == next[c] > Len(Request[c].records)

\* The answer may be lost on its way.
Respond(c) ==
  /\ at[c] = "ingesting"
  /\ Ingested(c)
  /\ at' = [at EXCEPT ![c] = "idle"]
  /\ \E seen \in {"ok", "nothing"} : told' = [told EXCEPT ![c] = seen]
  /\ lock' = NoOne
  /\ UNCHANGED <<buffer, next, attempt, stored, committed>>

\* A flush commits; it has the lock while it does.
Commit(n) ==
  /\ lock = NoOne
  /\ n \in (committed + 1)..Len(stored)
  /\ committed' = n
  /\ UNCHANGED <<at, buffer, next, told, attempt, lock, stored>>

Next ==
  \/ \E c \in Clients :
       \/ Send(c) \/ EndOfStream(c) \/ Lock(c) \/ IngestRecord(c) \/ IngestFails(c)
       \/ Respond(c)
       \/ \E n \in 1..Chunk : ReceiveChunk(c, n)
  \/ \E n \in DOMAIN stored : Commit(n)

\* Tasks run, and tokio's mutex is handed over first come, first served.
Fairness ==
  \A c \in Clients :
    /\ WF_vars(IngestRecord(c) \/ IngestFails(c) \/ Respond(c))
    /\ SF_vars(Lock(c))

Spec == Init /\ [][Next]_vars /\ Fairness
-----------------------------------------------------------------------------
TypeOK ==
  /\ at \in [Clients -> {"idle", "reading", "waiting", "ingesting"}]
  /\ \A c \in Clients :
       /\ buffer[c] \in 0..(Request[c].head + Request[c].length)
       /\ next[c] \in 1..(Len(Request[c].records) + 1)
  /\ told \in [Clients -> {"nothing", "ok", "refused", "incomplete", "exhausted", "closed"}]
  /\ attempt \in [Clients -> 0..MaxAttempts]
  /\ \A c \in Clients : lock = c <=> at[c] = "ingesting"
  /\ committed \in 0..Len(stored)

Of(c, a) == {i \in DOMAIN stored : stored[i][1] = c /\ stored[i][3] = a}

\* A client that was told of success has all its records in the queue, in full
\* and once for the attempt that succeeded.
AckedStored ==
  \A c \in Clients : told[c] = "ok" =>
    Cardinality(Of(c, attempt[c])) = Len(Request[c].records)

\* A request that is refused with an answer leaves nothing behind: the client
\* may correct it and send it again without duplicates.
RefusedStoresNothing ==
  \A c \in Clients : told[c] \in {"refused", "incomplete"} => Of(c, attempt[c]) = {}

\* Requests do not mix: what an attempt stored is the beginning of the request,
\* in order, with nothing of another connection in between.
RequestsContiguous ==
  \A i, j \in DOMAIN stored :
    /\ stored[i][2] > 1 => i > 1 /\ stored[i - 1] = [stored[i] EXCEPT ![2] = @ - 1]
    /\ stored[i] = stored[j] => i = j

\* Reading depends on the request, not on how it is cut into chunks, as long as
\* headers and body together are within the limit.
ChunksDoNotMatter ==
  \A c \in Clients :
    LET r == Request[c] IN
    r.transport = "http" /\ r.kind = "ok" /\ r.head + r.length <= MaxBody
      => told[c] # "refused"

\* A request that waits for the runtime is served: no way out keeps the lock.
HandlersEnd == \A c \in Clients : at[c] = "waiting" ~> at[c] = "idle"

\* A full queue is answered with an error.
BackpressureAnswered == \A c \in Clients : told[c] # "closed"
=============================================================================
