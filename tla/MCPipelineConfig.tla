--------------------------- MODULE MCPipelineConfig ---------------------------
(***************************************************************************)
(* Inputs of PipelineConfig: configuration files, command lines, updates.  *)
(***************************************************************************)
EXTENDS Integers, Sequences

Given(field, value) == [f \in {field} |-> value]
Nothing == [f \in {} |-> 0]

Exporters(protocol, retry, address) ==
  [n \in {1, 2} |->
    IF n = 1 THEN [protocol |-> "stdout", endpoint |-> "good", retry |-> Nothing]
    ELSE [protocol |-> protocol, endpoint |-> address, retry |-> retry]]

Good ==
  [tenant |-> "a", pipeline |-> {},
   receivers |-> [n \in {1} |-> "otlp_http"],
   processors |-> [w \in {} |-> {}],
   exporters |-> Exporters("file", Nothing, "good"),
   routes |-> [w \in {"trace", "log"} |-> <<1, 2>>],
   limits |-> Nothing]

\* A blank, unknown or repeated name, a zero, or an unusual spelling, each in
\* one part of the file, and every pair of parts.
Receivers ==
  {[n \in {} |-> ""], [n \in {0} |-> "otlp_grpc"], [n \in {1} |-> "zipkin"],
   [n \in {2, 3} |-> IF n = 2 THEN "otlp_http" ELSE "otlp_grpc"], Good.receivers}
Processors ==
  {Good.processors, [w \in {"filter"} |-> {}],
   [w \in {"memory-limiter", "memory_limiter"} |-> {FALSE}], [w \in {"redact", "batch"} |-> {}]}
ExporterMaps ==
  {Good.exporters, Exporters("kafka", Nothing, "good"), Exporters("otlp_http", Nothing, "bad")}
  \cup {Exporters("otlp_grpc", Given(f, 0), "good") : f \in {"max_attempts", "timeout_ms", "initial_backoff_ms"}}
Routes ==
  {Good.routes, [w \in {} |-> <<>>], [w \in {"Traces", "trace"} |-> IF w = "trace" THEN <<2>> ELSE <<1>>],
   [w \in {"metrics"} |-> <<1, 4>>], [w \in {"logs"} |-> <<>>], [w \in {"spans"} |-> <<1>>]}
Limits ==
  {Good.limits} \cup
  {Given(f, 0) : f \in {"max_ingest_bytes_per_second", "max_queue_bytes", "max_record_bytes"}}

MCFiles ==
  {[Good EXCEPT !.receivers = r, !.exporters = x] : r \in Receivers, x \in ExporterMaps}
  \cup {[Good EXCEPT !.receivers = r, !.routes = w] : r \in Receivers, w \in Routes}
  \cup {[Good EXCEPT !.exporters = x, !.routes = w] : x \in ExporterMaps, w \in Routes}
  \cup {[Good EXCEPT !.processors = p, !.limits = l] : p \in Processors, l \in Limits}
  \cup {[Good EXCEPT !.tenant = t, !.pipeline = n] : t \in {"", "a"}, n \in {{}, {""}, {"edge"}}}

MCStarts ==
  {[file |-> f, tenant |-> t, upstream |-> u, receiver |-> r, check_config |-> k, control |-> c]
     : f \in {{}} \cup {{g} : g \in MCFiles}, t \in {{}, {""}, {"b"}},
       u \in {{}, {"good"}, {"bad"}}, r \in {{}, {"otlp-grpc"}}, k \in {FALSE}, c \in BOOLEAN}
  \cup {[file |-> {Good}, tenant |-> {}, upstream |-> {}, receiver |-> {},
         check_config |-> TRUE, control |-> TRUE]}

\* Signed updates, some of which the agent must refuse for their contents, and
\* updates with a wrong checksum or signature, whose contents no signed one has.
Published ==
  {Good,
   [Good EXCEPT !.receivers = [n \in {2, 3} |-> IF n = 2 THEN "otlp_http" ELSE "otlp_grpc"]],
   [Good EXCEPT !.receivers = [n \in {} |-> ""]],
   [Good EXCEPT !.routes = [w \in {"metrics"} |-> <<1, 4>>]],
   [Good EXCEPT !.limits = Given("max_queue_bytes", 0)],
   [Good EXCEPT !.exporters = Exporters("otlp_http", Nothing, "bad")],
   [Good EXCEPT !.routes = [w \in {"Traces", "trace"} |-> IF w = "trace" THEN <<2>> ELSE <<1>>]]}

MCUpdates ==
  {[file |-> f, checksum |-> TRUE, signature |-> "good"] : f \in Published}
  \cup {[file |-> [Good EXCEPT !.pipeline = {"damaged"}], checksum |-> FALSE, signature |-> s]
          : s \in {"none", "bad", "good"}}
  \cup {[file |-> [Good EXCEPT !.pipeline = {s}], checksum |-> TRUE, signature |-> s]
          : s \in {"none", "bad"}}
=============================================================================
