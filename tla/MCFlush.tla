------------------------------ MODULE MCFlush ------------------------------
(***************************************************************************)
(* The two halves of a flush, each from a start of its own: the processor  *)
(* chain with the batches it is given, and the export of a batch.          *)
(***************************************************************************)
EXTENDS Export

CONSTANTS
  SensitiveKeys, Overhead, RedactedLen, Second,
  max_record_bytes, max_bytes_per_second, max_items,
  MaxRecords, MaxTime, MaxFailures, MaxFresh

VARIABLES
  half,   \* "export" or "process"
  queue, committed, at, next, last, records, windows, now, log, exported, failures, fresh

chain_vars == <<queue, committed, at, next, last, records, windows, now, log, exported,
                failures, fresh>>

-----------------------------------------------------------------------------
Rec(s, c) == [signal |-> s, carried |-> c]
All(d) == [s \in Signals |-> d]

\* One record per signal, and a metric that cannot be expressed.
MCBatch == <<Rec("log", TRUE), Rec("metric", FALSE), Rec("trace", TRUE), Rec("metric", TRUE)>>
MCProtocol == <<"otlp_grpc", "file">>
\* Routings a reload moves between; one has no route for logs.
MCConfigs == {All(<<2>>), [s \in {"trace", "metric"} |-> <<1, 2>>], All(<<1, 2>>)}

Attribute(k, v) == [key |-> k, value |-> v]

\* Two sizes for tenant a, with and without something to redact, and tenant b.
ProcessedRecords == {
  [tenant |-> "a", body |-> 1, attributes |-> <<>>],
  [tenant |-> "a", body |-> 0, attributes |-> <<Attribute("token", 1), Attribute("k", 1)>>],
  [tenant |-> "b", body |-> 2, attributes |-> <<>>] }

\* The order of the names, as a configuration file gives it.
Chain == <<"batch", "memory-limiter", "redact", "tenant-rate-limit">>

Process == INSTANCE Processors WITH Records <- ProcessedRecords

-----------------------------------------------------------------------------
MCInit ==
  /\ half \in {"export", "process"}
  /\ Init /\ Process!Init
  /\ half = "process" => routes = All(<<1, 2>>)

MCNext ==
  \/ half = "export" /\ Next /\ UNCHANGED <<half, chain_vars>>
  \/ half = "process" /\ Process!Next /\ UNCHANGED <<half, vars>>

all == <<half, vars, chain_vars>>

Exporting(A) == half = "export" /\ A /\ UNCHANGED <<half, chain_vars>>

\* The fairness of Export.
MCSpec ==
  /\ MCInit /\ [][MCNext]_all
  /\ WF_all(Exporting(StartFlush)) /\ WF_all(Exporting(Retry))
  /\ WF_all(Exporting(CallSucceeds)) /\ WF_all(Exporting(\E k \in Due : TimesOut(k)))
  /\ WF_all(Exporting(Written)) /\ WF_all(Exporting(Answered))

\* Once the destinations are healthy and the routing stays complete the batch is
\* committed: see EventuallyCommitted in Export.
BatchCommitted == half = "export" => EventuallyCommitted

\* However often the chain meets a batch, and whatever fresh chains it is given:
\* a tenant gets at most its budget (SlidingBudget of Processors), is dropped
\* only for what it sent itself (DropsJustified), and nothing sensitive leaves
\* the agent (NothingSensitiveLeaves).
ChainSound ==
  Process!SlidingBudget /\ Process!DropsJustified /\ Process!NothingSensitiveLeaves
=============================================================================
