------------------------------- MODULE Export -------------------------------
(***************************************************************************)
(* The export of one batch: export_records and export_with_retry of        *)
(* crates/telemetry-agent/src/runtime.rs over the exporters of             *)
(* crates/telemetry-exporters/src/lib.rs.  The batch is routed, the        *)
(* exporters are called one after the other in the order of their names,   *)
(* and each call is a series of steps: one write per record (stdout,       *)
(* file), one request per signal (OTLP), or one request (Prometheus).      *)
(* A flush that fails leaves the batch queued, and the worker flushes it   *)
(* again, perhaps with another configuration.                              *)
(*                                                                         *)
(* What a step carries is a bag of records: how many copies of each.  A    *)
(* request that timed out is dropped by the agent and may still arrive.    *)
(***************************************************************************)
EXTENDS Integers, Sequences, FiniteSets, Bags

CONSTANTS
  Batch,          \* the records: signal, and whether a metric has name and value
  Protocol,       \* Protocol[e] of exporters 1..N, numbered in name order
  Configs,        \* the routings a reload may install: signal -> exporters
  max_attempts,
  MaxFlushes      \* bound: flushes during which calls may fail

Exporters == DOMAIN Protocol
Records == DOMAIN Batch
Signals == {"trace", "metric", "log"}

ASSUME ExportAssumption ==
  /\ Batch \in Seq([signal : Signals, carried : BOOLEAN])
  /\ Protocol \in Seq({"file", "otlp_http", "otlp_grpc", "prometheus_remote_write"})
  /\ \A c \in Configs :
       DOMAIN c \subseteq Signals /\ \A s \in DOMAIN c : c[s] \in Seq(Exporters)
  /\ max_attempts \in Nat \ {0} /\ MaxFlushes \in Nat

VARIABLES
  routes,     \* the configuration's routes; a signal without one is not in the domain
  pc,         \* "queued", "calling", "sleeping", "committed"
  exporter,   \* the exporter that is being called
  done,       \* the steps of the call that are done
  attempt,
  client,     \* <<e, k>>: gRPC clients that are connected
  received,   \* received[e][i]: copies of record i at e
  late,       \* bag of <<e, copies>>: requests given up that may arrive yet
  flushes,    \* flushes started while calls might fail
  healthy     \* destinations answer, and go on doing so

vars == <<routes, pc, exporter, done, attempt, client, received, late, flushes, healthy>>

Init ==
  /\ routes \in Configs
  /\ pc = "queued"
  /\ exporter = 0 /\ done = {} /\ attempt = 0
  /\ client = {}
  /\ received = [e \in Exporters |-> [i \in Records |-> 0]]
  /\ late = EmptyBag
  /\ flushes = 0
  /\ healthy = FALSE

-----------------------------------------------------------------------------
\* Where the routes of c name exporter e for record i.
Named(c, e, i) == {k \in DOMAIN c[Batch[i].signal] : c[Batch[i].signal][k] = e}

\* Records grouped by exporter: once for every time the route names it.
Group(c, e) ==
  [i \in Records |->
    IF Batch[i].signal \in DOMAIN c THEN Cardinality(Named(c, e, i)) ELSE 0]

\* Records a destination can be told of: a file every one, Prometheus only
\* metrics, and no request a metric without a name or a value.
Expressible(e, i) ==
  \/ Protocol[e] = "file"
  \/ Batch[i].signal = "metric" /\ Batch[i].carried
  \/ Batch[i].signal # "metric" /\ Protocol[e] # "prometheus_remote_write"

Carried(c, e, signal) ==
  [i \in Records |->
    IF Batch[i].signal = signal /\ Expressible(e, i) THEN Group(c, e)[i] ELSE 0]

Some(copies) == \E i \in Records : copies[i] > 0

SignalOrder == <<"trace", "metric", "log">>

\* What a call of the exporter has to do, by the order it does it in: a write
\* <<i, n>> of the n-th copy of record i, or the request <<k, 1>> of the k-th
\* signal.  Without steps the call succeeds at once.
Steps(c, e) ==
  IF Protocol[e] = "file"
  THEN [k \in UNION {{i} \X (1..Group(c, e)[i]) : i \in Records} |->
         [i \in Records |-> IF i = k[1] THEN 1 ELSE 0]]
  ELSE [k \in {j \in DOMAIN SignalOrder : Some(Carried(c, e, SignalOrder[j]))} \X {1} |->
         Carried(c, e, SignalOrder[k[1]])]

Receive(e, copies) ==
  received' = [received EXCEPT ![e] = [i \in Records |-> @[i] + copies[i]]]

Routable == \A i \in Records : Batch[i].signal \in DOMAIN routes

\* The exporters of the batch's groups.
Called == {e \in Exporters : Some(Group(routes, e))}

\* Mutant: the batch is given up after a failure.
FlushOnce == pc = "queued" /\ flushes = 0

MayFlush == pc = "queued" /\ (healthy \/ flushes < MaxFlushes)

\* The next call in name order, or the commit when no exporter is left.
Advance(from) ==
  LET rest == {e \in Called : e > from} IN
  /\ done' = {}
  /\ \/ /\ rest = {}
        /\ pc' = "committed" /\ exporter' = 0 /\ attempt' = 0
     \/ /\ pc' = "calling" /\ attempt' = 1
        /\ exporter' \in {e \in rest : \A f \in rest : e <= f}

\* The flush worker takes up the batch.  Without a route for one of its
\* records it fails before any exporter is called.
StartFlush ==
  /\ MayFlush
  /\ Routable
  /\ Advance(0)
  /\ flushes' = IF healthy THEN flushes ELSE flushes + 1
  /\ UNCHANGED <<routes, client, received, late, healthy>>

\* The destinations and the network recover.
Heal ==
  /\ ~healthy
  /\ healthy' = TRUE
  /\ UNCHANGED <<routes, pc, exporter, done, attempt, client, received, late, flushes>>

\* New routes and new exporters.  A flush works on its own copy: a reload while
\* it exports counts from the next flush on.
Reload ==
  /\ pc = "queued"
  /\ routes' \in Configs \ {routes}
  /\ client' = {}
  /\ UNCHANGED <<pc, exporter, done, attempt, received, late, flushes, healthy>>

-----------------------------------------------------------------------------
\* The steps of the call under way that are left.
Rest == IF pc = "calling" THEN DOMAIN Steps(routes, exporter) \ done ELSE {}

\* The next of them.
Due == {k \in Rest : \A l \in Rest : k[1] < l[1] \/ (k[1] = l[1] /\ k[2] <= l[2])}

Remote == Protocol[exporter] # "file"
Grpc == Protocol[exporter] = "otlp_grpc"

AttemptLeft(n) == n < max_attempts

\* The call failed or timed out: a retry from its first step, or the end of the
\* flush.
CallFails ==
  /\ ~healthy
  /\ IF AttemptLeft(attempt)
     THEN pc' = "sleeping" /\ UNCHANGED <<exporter, done, attempt>>
     ELSE pc' = "queued" /\ exporter' = 0 /\ done' = {} /\ attempt' = 0
  /\ UNCHANGED <<routes, flushes, healthy>>

Connect(k) ==
  /\ Grpc /\ <<exporter, k>> \notin client
  /\ client' = client \cup {<<exporter, k>>}
  /\ UNCHANGED <<routes, pc, exporter, done, attempt, received, late, flushes, healthy>>

ConnectFails(k) ==
  /\ Remote /\ <<exporter, k>> \notin client
  /\ CallFails
  /\ UNCHANGED <<client, received, late>>

Ready(k) == Grpc => <<exporter, k>> \in client

StepSucceeds(k) ==
  /\ Ready(k)
  /\ Receive(exporter, Steps(routes, exporter)[k])
  /\ done' = done \cup {k}
  /\ UNCHANGED <<routes, pc, exporter, attempt, client, late, flushes, healthy>>

\* An error, before or after the destination took the records; a gRPC client is
\* dropped.
StepFails(k) ==
  /\ Ready(k)
  /\ \/ UNCHANGED received
     \/ Receive(exporter, Steps(routes, exporter)[k])
  /\ client' = client \ {<<exporter, k>>}
  /\ CallFails
  /\ UNCHANGED late

\* The timeout covers the whole call.  A file is written without a suspension
\* point, which no timeout can interrupt.  The gRPC client stays.
TimesOut(k) ==
  /\ Remote
  /\ \/ UNCHANGED late
     \/ Ready(k) /\ late' = late (+) SetToBag({<<exporter, Steps(routes, exporter)[k]>>})
  /\ CallFails
  /\ UNCHANGED <<client, received>>

LateArrives ==
  \E l \in BagToSet(late) :
    /\ Receive(l[1], l[2])
    /\ late' = late (-) SetToBag({l})
    /\ UNCHANGED <<routes, pc, exporter, done, attempt, client, flushes, healthy>>

Retry ==
  /\ pc = "sleeping"
  /\ pc' = "calling"
  /\ done' = {}
  /\ attempt' = attempt + 1
  /\ UNCHANGED <<routes, exporter, client, received, late, flushes, healthy>>

\* Mutant: the batch is committed after the first exporter.
CommitsEarly ==
  /\ pc = "calling" /\ Rest = {}
  /\ pc' = "committed" /\ exporter' = 0 /\ done' = {} /\ attempt' = 0
  /\ UNCHANGED <<routes, client, received, late, flushes, healthy>>

CallSucceeds ==
  /\ pc = "calling" /\ Rest = {}
  /\ Advance(exporter)
  /\ UNCHANGED <<routes, client, received, late, flushes, healthy>>

CallStep(k) == Connect(k) \/ ConnectFails(k) \/ StepSucceeds(k) \/ StepFails(k) \/ TimesOut(k)

Call == CallSucceeds \/ Retry \/ \E k \in Due : CallStep(k)

Next == StartFlush \/ Reload \/ Heal \/ Call \/ LateArrives

\* The worker flushes again and again, timers fire, and file writes return.
\* Nothing makes a remote destination answer, unless it is healthy.
Written == \E k \in Due : ~Remote /\ (StepSucceeds(k) \/ StepFails(k))
Answered == \E k \in Due : healthy /\ (Connect(k) \/ StepSucceeds(k))

Fairness ==
  /\ WF_vars(StartFlush) /\ WF_vars(Retry) /\ WF_vars(CallSucceeds)
  /\ WF_vars(\E k \in Due : TimesOut(k))
  /\ WF_vars(Written) /\ WF_vars(Answered)

Spec == Init /\ [][Next]_vars /\ Fairness
-----------------------------------------------------------------------------
\* The batch is committed only once every record has a route, and every
\* exporter that its route names has every record it can express: a failure in
\* the middle of a call, of a signal or of the list of exporters loses nothing.
CommittedDelivered ==
  pc = "committed" =>
    \A i \in Records :
      /\ Batch[i].signal \in DOMAIN routes
      /\ \A e \in Exporters :
           Named(routes, e, i) # {} /\ Expressible(e, i) => received[e][i] > 0

\* Once the destinations are healthy and the routing stays complete the batch is
\* committed: failed flushes and reloads without a route only hold it up.
EventuallyCommitted == (<>[](healthy /\ Routable)) => <>(pc = "committed")
=============================================================================
