----------------------------- MODULE Processors -----------------------------
(***************************************************************************)
(* The processor chain (crates/telemetry-processors/src/lib.rs) as the     *)
(* runtime uses it: every flush takes a batch off the queue, processes it  *)
(* record by record under the runtime's lock, exports what is left, and    *)
(* commits.  A batch whose export fails is read and processed again, by a  *)
(* chain that remembers the first time.  Loading a configuration, or a new *)
(* process, starts with a fresh chain.                                     *)
(*                                                                         *)
(* A record is its tenant, the length of its body, and its attributes; an  *)
(* attribute's value is its length, or Redacted.  Time is in ticks.        *)
(***************************************************************************)
EXTENDS Integers, Sequences, SequencesExt

CONSTANTS
  Chain,                  \* the enabled processors, in order
  Records,                \* records that may be ingested
  SensitiveKeys,          \* keys that equal or end with a sensitive one
  Overhead,               \* estimate: bytes beyond tenant, attributes and body
  RedactedLen,            \* length of "[REDACTED]"
  Second,                 \* ticks per second
  max_record_bytes, max_bytes_per_second, max_items,
  MaxRecords, MaxTime, MaxFailures, MaxFresh   \* bounds

VARIABLES
  queue,      \* ingested records
  committed,  \* records 1..committed are off the queue
  at,         \* "idle", "process" or "export"
  next,       \* the record to process next
  last,       \* the end of the batch
  records,    \* the batch's records after the chain, by number
  windows,    \* windows[t]: the tenant's TenantRateWindow, if it has one
  now,
  log,        \* every decision of the chain
  exported,   \* <<n, record>>: what left the agent
  failures, fresh

vars == <<queue, committed, at, next, last, records, windows, now, log, exported,
          failures, fresh>>

NoWindows == <<>>
NoRecords == <<>>

Init ==
  /\ queue = <<>>
  /\ committed = 0
  /\ at = "idle"
  /\ next = 1
  /\ last = 0
  /\ records = NoRecords
  /\ windows = NoWindows
  /\ now = 0
  /\ log = <<>>
  /\ exported = {}
  /\ failures = 0
  /\ fresh = 0

-----------------------------------------------------------------------------
(* The processors.  Each answers with the record, or drops it.             *)

Redacted == -1

ValueLen(v) == IF v = Redacted THEN RedactedLen ELSE v

\* Tenants and keys have length one.
estimate_record_bytes(r) ==
  1 + r.body + Overhead
    + MapThenSumSet(LAMBDA i : 1 + ValueLen(r.attributes[i].value), DOMAIN r.attributes)

Emit(r) == [emit |-> TRUE, record |-> r]
Drop(r) == [emit |-> FALSE, record |-> r]

memory_limiter(r) ==
  IF estimate_record_bytes(r) > max_record_bytes THEN Drop(r) ELSE Emit(r)

redact_attribute(a) ==
  IF a.key \in SensitiveKeys THEN [a EXCEPT !.value = Redacted] ELSE a

redact(r) ==
  Emit([r EXCEPT !.attributes = [i \in DOMAIN @ |-> redact_attribute(@[i])]])

WindowOver(w) == now - w.started_at >= Second

\* The tenant's window as process_at finds or makes it.
WindowOf(t, ws) ==
  IF t \in DOMAIN ws /\ ~WindowOver(ws[t]) THEN ws[t]
  ELSE [started_at |-> now, used_bytes |-> 0]

\* Mutant: the record itself is not counted.
OverBefore(w, bytes) == w.used_bytes > max_bytes_per_second

OverLimit(w, bytes) ==
  bytes > max_bytes_per_second \/ w.used_bytes + bytes > max_bytes_per_second

SetWindow(ws, t, w) == [u \in DOMAIN ws \cup {t} |-> IF u = t THEN w ELSE ws[u]]

\* TenantRateLimitProcessor::process_at: the decision, and the windows after.
rate_limited(r, ws) == OverLimit(WindowOf(r.tenant, ws), estimate_record_bytes(r))

rate_windows(r, ws) ==
  LET w == WindowOf(r.tenant, ws)
      used == w.used_bytes + estimate_record_bytes(r) IN
  SetWindow(ws, r.tenant, [w EXCEPT !.used_bytes =
    IF rate_limited(r, ws) THEN @
    ELSE IF used < max_bytes_per_second THEN used ELSE max_bytes_per_second])

Process(kind, s) ==
  CASE kind = "memory-limiter" -> [s EXCEPT !.out = memory_limiter(s.out.record)]
    [] kind = "redact" -> [s EXCEPT !.out = redact(s.out.record)]
    [] kind = "tenant-rate-limit" ->
         [out |-> IF rate_limited(s.out.record, s.windows) THEN Drop(s.out.record)
                                                           ELSE s.out,
          windows |-> rate_windows(s.out.record, s.windows)]
    [] kind = "batch" -> s

\* ProcessorChain::process stops at the first drop.
ChainStep(s, kind) == IF s.out.emit THEN Process(kind, s) ELSE s

chain_process(r) == FoldLeft(ChainStep, [out |-> Emit(r), windows |-> windows], Chain)

-----------------------------------------------------------------------------
Tick ==
  /\ now < MaxTime
  /\ now' = now + 1
  /\ UNCHANGED <<queue, committed, at, next, last, records, windows, log, exported,
                 failures, fresh>>

\* TelemetryRecord::validate looks at the body alone.
Ingest(r) ==
  /\ at # "process"
  /\ Len(queue) < MaxRecords
  /\ r.body <= max_record_bytes
  /\ queue' = Append(queue, r)
  /\ UNCHANGED <<committed, at, next, last, records, windows, now, log, exported,
                 failures, fresh>>

\* read_batch starts at the committed cursor.
BatchStart == committed + 1

BatchEnd == Min({committed + max_items, Len(queue)})

PrepareFlush ==
  /\ at = "idle"
  /\ committed < Len(queue)
  /\ at' = "process"
  /\ next' = BatchStart
  /\ last' = BatchEnd
  /\ records' = NoRecords
  /\ UNCHANGED <<queue, committed, windows, now, log, exported, failures, fresh>>

ProcessRecord ==
  LET s == chain_process(queue[next]) IN
  /\ at = "process"
  /\ next <= last
  /\ next' = next + 1
  /\ windows' = s.windows
  /\ records' = IF s.out.emit THEN Append(records, [n |-> next, record |-> s.out.record])
                              ELSE records
  /\ log' = Append(log, [n |-> next, at |-> now, emit |-> s.out.emit,
                         tenant |-> s.out.record.tenant,
                         bytes |-> estimate_record_bytes(s.out.record)])
  /\ UNCHANGED <<queue, committed, at, last, now, exported, failures, fresh>>

Prepared ==
  /\ at = "process"
  /\ next > last
  /\ at' = "export"
  /\ UNCHANGED <<queue, committed, next, last, records, windows, now, log, exported,
                 failures, fresh>>

\* The batch stays on the queue.
ExportFails ==
  /\ at = "export"
  /\ failures < MaxFailures
  /\ failures' = failures + 1
  /\ at' = "idle"
  /\ UNCHANGED <<queue, committed, next, last, records, windows, now, log, exported,
                 fresh>>

ExportCommits ==
  /\ at = "export"
  /\ at' = "idle"
  /\ exported' = exported \cup {records[i] : i \in DOMAIN records}
  /\ committed' = last
  /\ UNCHANGED <<queue, next, last, records, windows, now, log, failures, fresh>>

\* reload_config between two flushes or during an export, or a new process.
FreshChain ==
  /\ at # "process"
  /\ fresh < MaxFresh
  /\ fresh' = fresh + 1
  /\ windows' = NoWindows
  /\ UNCHANGED <<queue, committed, at, next, last, records, now, log, exported, failures>>

Next ==
  \/ Tick \/ PrepareFlush \/ ProcessRecord \/ Prepared \/ ExportFails \/ ExportCommits
  \/ FreshChain
  \/ \E r \in Records : Ingest(r)

Spec == Init /\ [][Next]_vars
-----------------------------------------------------------------------------
Tenants == {r.tenant : r \in Records}

Emitted(t, from, to) ==
  MapThenSumSet(LAMBDA i : log[i].bytes,
    {i \in DOMAIN log : /\ log[i].emit /\ log[i].tenant = t
                        /\ log[i].at >= from /\ log[i].at <= to})

TypeOK ==
  /\ queue \in Seq(Records)
  /\ committed \in 0..Len(queue)
  /\ at \in {"idle", "process", "export"}
  /\ last \in 0..Len(queue) /\ next \in 1..(Len(queue) + 1)
  /\ DOMAIN windows \subseteq Tenants
  /\ \A t \in DOMAIN windows :
       /\ windows[t].started_at \in 0..now
       /\ windows[t].used_bytes \in 0..max_bytes_per_second

\* The limiter's windows start at records, so two of them meet any one second:
\* a tenant gets at most twice its budget in it, and one budget more for every
\* fresh chain.
SlidingBudget ==
  \A t \in Tenants, s \in 0..MaxTime :
    Emitted(t, s, s + Second - 1) <= (2 + fresh) * max_bytes_per_second

\* A tenant is dropped by what it sent itself: when the limiter drops a record
\* the tenant's records of the last second and this one exceed the budget.
DropsJustified ==
  \A i \in DOMAIN log :
    (~log[i].emit /\ log[i].bytes <= max_record_bytes) =>
      LET d == log[i] IN
      Emitted(d.tenant, d.at - Second + 1, d.at) + d.bytes > max_bytes_per_second

\* Nothing sensitive leaves the agent, whatever the order of the processors and
\* however often a batch is processed.
NothingSensitiveLeaves ==
  \A x \in exported : \A i \in DOMAIN x.record.attributes :
    x.record.attributes[i].key \in SensitiveKeys => x.record.attributes[i].value = Redacted

\* A failing exporter costs no record: one the chain let through is not dropped
\* when its batch is processed again.
SurvivesRetry ==
  \A i \in DOMAIN log :
    (log[i].emit /\ log[i].n <= committed) => \E x \in exported : x.n = log[i].n
=============================================================================
