---------------------------- MODULE PipelineConfig ----------------------------
(***************************************************************************)
(* The agent's configuration: the file (config_file.rs), the command line  *)
(* that overrides it (main.rs), its validation (telemetry-core config.rs), *)
(* the updates of the control plane (control_client.rs) and the router     *)
(* that relies on it (routing.rs).                                         *)
(*                                                                         *)
(* Names of receivers and exporters are numbers in the order of the names; *)
(* 0 is a blank one.  Routes and processors are named by words.  An        *)
(* optional value is a set of at most one element, a map with optional     *)
(* fields a function on the fields that are given.                         *)
(***************************************************************************)
EXTENDS Integers, Sequences, FiniteSets, Functions

CONSTANTS
  Starts,       \* command lines: the file ({} or {file}) and the overrides
  Updates,      \* updates the control plane may send
  SigningKey    \* whether the agent was given one

VARIABLES
  start,     \* the command line
  status,    \* "starting", "opened" (receiver not yet chosen), "running", "exited"
  running,   \* {} or {the configuration in use}
  mode       \* {} or {the receiver that is served}

vars == <<start, status, running, mode>>

Init ==
  /\ start \in Starts
  /\ status = "starting"
  /\ running = {}
  /\ mode = {}

-----------------------------------------------------------------------------
Signals == {"trace", "metric", "log"}

\* Words in the order of their bytes.
WordOrder ==
  <<"Traces", "batch", "filter", "log", "logs", "memory-limiter", "memory_limiter",
    "metric", "metrics", "redact", "spans", "tenant-rate-limit", "trace", "traces">>

Spellings ==
  [Traces |-> "traces", memory_limiter |-> "memory-limiter",
   otlp_grpc |-> "otlp-grpc", otlp_http |-> "otlp-http"]

normalize_token(word) == IF word \in DOMAIN Spellings THEN Spellings[word] ELSE word

\* Each parser gives {} for a word it does not know.
parse_signal(word) ==
  LET token == normalize_token(word) IN
  CASE token \in {"trace", "traces"} -> {"trace"}
    [] token \in {"metric", "metrics"} -> {"metric"}
    [] token \in {"log", "logs"} -> {"log"}
    [] OTHER -> {}

parse_processor_kind(word) ==
  {normalize_token(word)} \cap {"memory-limiter", "batch", "redact", "tenant-rate-limit"}

parse_receiver_protocol(word) == {normalize_token(word)} \cap {"otlp-grpc", "otlp-http"}

parse_exporter_protocol(word) ==
  {normalize_token(word)} \cap
    {"otlp-grpc", "otlp-http", "otlp-http-json", "prometheus-remote-write", "stdout", "file"}

The(set) == CHOOSE v \in set : TRUE

OrDefault(optional, default) == IF optional = {} THEN default ELSE The(optional)

\* The names of a map in their order, as the set of the one sequence that has it.
InOrder(map, place) ==
  {names \in Bijection(1..Cardinality(DOMAIN map), DOMAIN map) :
     \A i, j \in DOMAIN names : i < j => place[names[i]] < place[names[j]]}

Sorted(map) == InOrder(map, [n \in DOMAIN map |-> n])
SortedWords(map) ==
  InOrder(map, [w \in DOMAIN map |-> CHOOSE i \in DOMAIN WordOrder : WordOrder[i] = w])

\* The fields that are given, and the default of the others.
WithDefaults(given, default) ==
  [f \in DOMAIN given \cup DOMAIN default |-> IF f \in DOMAIN given THEN given[f] ELSE default[f]]

\* The sizes are the smallest that keep the defaults apart from zero.
DefaultRetry == [max_attempts |-> 3, timeout_ms |-> 30, initial_backoff_ms |-> 1]
DefaultLimits ==
  [max_ingest_bytes_per_second |-> 64, max_queue_bytes |-> 100, max_record_bytes |-> 4]

\* One word that does not parse fails the whole file.
parses(file) ==
  /\ \A r \in DOMAIN file.receivers : parse_receiver_protocol(file.receivers[r]) # {}
  /\ \A p \in DOMAIN file.processors : parse_processor_kind(p) # {}
  /\ \A e \in DOMAIN file.exporters : parse_exporter_protocol(file.exporters[e].protocol) # {}
  /\ \A w \in DOMAIN file.routes : parse_signal(w) # {}

into_receiver_configs(file, names) ==
  [i \in DOMAIN names |->
    [name |-> names[i], protocol |-> The(parse_receiver_protocol(file.receivers[names[i]]))]]

DefaultProcessors ==
  <<[name |-> "memory-limiter", kind |-> "memory-limiter", enabled |-> TRUE],
    [name |-> "batch", kind |-> "batch", enabled |-> TRUE]>>

\* Without processors the file gets those of the default configuration.
into_processor_configs(file, names) ==
  IF names = <<>> THEN DefaultProcessors
  ELSE [i \in DOMAIN names |->
         [name |-> names[i], kind |-> The(parse_processor_kind(names[i])),
          enabled |-> OrDefault(file.processors[names[i]], TRUE)]]

into_exporter_configs(file, names) ==
  [i \in DOMAIN names |->
    LET e == file.exporters[names[i]] IN
    [name |-> names[i], protocol |-> The(parse_exporter_protocol(e.protocol)),
     endpoint |-> e.endpoint, retry |-> WithDefaults(e.retry, DefaultRetry)]]

\* Two words for a signal make two routes.
into_route_configs(file, words) ==
  [i \in DOMAIN words |->
    [signal |-> The(parse_signal(words[i])), exporters |-> file.routes[words[i]]]]

\* {} when a word of the file does not parse.
into_pipeline_config(file) ==
  {[tenant_id |-> file.tenant, name |-> OrDefault(file.pipeline, "default"),
    receivers |-> into_receiver_configs(file, r), processors |-> into_processor_configs(file, p),
    exporters |-> into_exporter_configs(file, e), routes |-> into_route_configs(file, w),
    limits |-> WithDefaults(file.limits, DefaultLimits)]
     : r \in {n \in Sorted(file.receivers) : parses(file)}, p \in SortedWords(file.processors),
       e \in Sorted(file.exporters), w \in SortedWords(file.routes)}

\* The routes of the three signals to one exporter.
RoutesTo(exporter) ==
  [i \in 1..3 |-> [signal |-> <<"trace", "metric", "log">>[i], exporters |-> <<exporter>>]]

Upstream == 8
StdoutExporter == [name |-> 9, protocol |-> "stdout", endpoint |-> "good", retry |-> DefaultRetry]

DefaultConfig ==
  [tenant_id |-> "default", name |-> "default",
   receivers |-> <<[name |-> 1, protocol |-> "otlp-grpc"], [name |-> 2, protocol |-> "otlp-http"]>>,
   processors |-> DefaultProcessors,
   exporters |-> <<StdoutExporter>>,
   routes |-> RoutesTo(StdoutExporter.name),
   limits |-> DefaultLimits]

-----------------------------------------------------------------------------
Names(items) == {items[i].name : i \in DOMAIN items}

validate_unique_names(items, blank) ==
  /\ Names(items) \cap blank = {}
  /\ Cardinality(Names(items)) = Len(items)

\* Mutant: the names in the routes are not looked up.
validate_routes_empty(c) == \A i \in DOMAIN c.routes : c.routes[i].exporters # <<>>

validate_routes(c) ==
  \A i \in DOMAIN c.routes :
    /\ c.routes[i].exporters # <<>>
    /\ Range(c.routes[i].exporters) \subseteq Names(c.exporters)

requires_parts(c) == c.receivers # <<>> /\ c.exporters # <<>> /\ c.routes # <<>>

validate(c) ==
  /\ c.tenant_id # "" /\ c.name # ""
  /\ requires_parts(c)
  /\ \A f \in DOMAIN c.limits : c.limits[f] > 0
  /\ \A i \in DOMAIN c.exporters :
       \A f \in DOMAIN c.exporters[i].retry : c.exporters[i].retry[f] > 0
  /\ validate_unique_names(c.receivers, {0})
  /\ validate_unique_names(c.exporters, {0})
  /\ validate_unique_names(c.processors, {""})
  /\ validate_routes(c)

\* What the file gives: {} when it is refused.
parse_pipeline_config(file) == {c \in into_pipeline_config(file) : validate(c)}

\* --otlp-export-endpoint
with_upstream(c, address) ==
  [c EXCEPT
     !.exporters = <<[name |-> Upstream, protocol |-> "otlp-grpc", endpoint |-> address,
                      retry |-> DefaultRetry], StdoutExporter>>,
     !.routes = RoutesTo(Upstream)]

build_pipeline_config ==
  LET loaded == IF start.file = {} THEN {DefaultConfig}
                ELSE UNION {parse_pipeline_config(f) : f \in start.file}
      named == {[c EXCEPT !.tenant_id = OrDefault(start.tenant, c.tenant_id)] : c \in loaded}
      routed == {IF start.upstream = {} THEN c ELSE with_upstream(c, The(start.upstream)) : c \in named}
  IN {c \in routed : validate(c)}

\* build_exporters parses the endpoints and opens the files.
build_exporters(c) == \A i \in DOMAIN c.exporters : c.exporters[i].endpoint = "good"

Protocols(c) == {r.protocol : r \in Range(c.receivers)}

\* {} is the error that no receiver is supported.
receiver_mode(c) ==
  CASE start.receiver # {} -> start.receiver
    [] start.file = {} -> {"none"}
    [] "otlp-grpc" \in Protocols(c) -> {"otlp-grpc"}
    [] "otlp-http" \in Protocols(c) -> {"otlp-http"}
    [] OTHER -> {}

\* run: the configuration is built and the runtime opened.
Open ==
  /\ status = "starting"
  /\ ~start.check_config
  /\ \E c \in build_pipeline_config :
       /\ build_exporters(c)
       /\ running' = {c}
  /\ status' = "opened"
  /\ UNCHANGED <<start, mode>>

\* --check-config, or an error of the configuration or of an exporter.
Leave ==
  /\ status = "starting"
  /\ start.check_config \/ \A c \in build_pipeline_config : ~build_exporters(c)
  /\ status' = "exited"
  /\ UNCHANGED <<start, running, mode>>

\* The receiver is chosen from the configuration of this moment: the control
\* worker is already running.  Without one, the agent flushes and ends.
ChooseReceiver ==
  /\ status = "opened"
  /\ \E c \in running : mode' = receiver_mode(c)
  /\ status' = IF mode' \subseteq {"none"} THEN "exited" ELSE "running"
  /\ UNCHANGED <<start, running>>

\* Mutant: a missing signature counts as a good one.
signed_or_unsigned(u) == SigningKey => u.signature # "bad"

validate_config_signature(u) == SigningKey => u.signature = "good"

validate_config_update(u) ==
  IF u.checksum /\ validate_config_signature(u) THEN parse_pipeline_config(u.file) ELSE {}

\* fetch_and_apply_config, when the update is good for a reload.  The command
\* line is not looked at again, and the receiver stays.
ApplyUpdate(u) ==
  /\ start.control /\ status \in {"opened", "running"}
  /\ \E c \in validate_config_update(u) :
       /\ build_exporters(c)
       /\ running' = {c}
  /\ UNCHANGED <<start, status, mode>>

RejectUpdate(u) ==
  /\ start.control /\ status \in {"opened", "running"}
  /\ \A c \in validate_config_update(u) : ~build_exporters(c)
  /\ UNCHANGED vars

Next == Open \/ Leave \/ ChooseReceiver \/ \E u \in Updates : ApplyUpdate(u) \/ RejectUpdate(u)

Spec == Init /\ [][Next]_vars
-----------------------------------------------------------------------------
\* Router::exporters_for: the exporters of the first route of the signal, {}
\* for MissingRoute or UnknownExporter.
exporters_for(c, signal) ==
  LET found == {i \in DOMAIN c.routes : c.routes[i].signal = signal}
      first == {i \in found : \A j \in found : i <= j}
  IN {names \in {c.routes[i].exporters : i \in first} : Range(names) \subseteq Names(c.exporters)}

TypeOK ==
  /\ start \in Starts
  /\ status \in {"starting", "opened", "running", "exited"}
  /\ Cardinality(running) <= 1
  /\ mode \subseteq {"none", "otlp-grpc", "otlp-http"}

\* Whatever the file, the command line and the updates said, the router finds
\* at least one exporter for every signal that has a route, and each exporter
\* makes at least one attempt: no record of a routed signal is stuck in the
\* queue behind UnknownExporter, or committed without having been sent.
RunningRoutable ==
  \A c \in running :
    /\ \A r \in Range(c.routes) : exporters_for(c, r.signal) \notin {{}, {<<>>}}
    /\ \A e \in Range(c.exporters) : e.retry.max_attempts > 0

\* An agent started on a configuration file finds a receiver to serve, also
\* when an update replaced the configuration before the receiver was chosen:
\* the error "config has no supported receiver" cannot happen.
ReceiverFound == status = "exited" /\ start.file # {} /\ running # {} => mode # {}

\* "agents reject it and continue on the previous version": the configuration
\* in use is replaced only by an update whose checksum and signature are good
\* and whose contents are valid and can be built.
OnlyGoodUpdates ==
  [][running # {} /\ running' # running =>
       \E u \in Updates :
         /\ u.checksum /\ (SigningKey => u.signature = "good")
         /\ \E c \in into_pipeline_config(u.file) :
              running' = {c} /\ validate(c) /\ build_exporters(c)]_vars

\* "When --otlp-export-endpoint is set, trace, metric, and log records are
\* routed to an upstream OTLP/gRPC endpoint."
UpstreamRouted ==
  start.upstream # {} =>
    \A c \in running : \A s \in Signals : exporters_for(c, s) = {<<Upstream>>}
=============================================================================
