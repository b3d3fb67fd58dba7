----------------------------- MODULE MCFormats -----------------------------
(***************************************************************************)
(* The conversions of the agent, each from all of its inputs: the record   *)
(* format of the queue, OTLP through a row of agents, and the time series  *)
(* of the Prometheus exporter.                                             *)
(***************************************************************************)
EXTENDS MCRecordCodec

CONSTANTS
  Items, Hops,                        \* OtlpConversion
  Metrics, MaxCount, Zero, LastPlace  \* PrometheusWrite

VARIABLES
  format,   \* the conversion that runs
  sent, otlp_record, dropped,
  metric, series, cumulative, at

otlp_vars == <<sent, otlp_record, dropped>>
prometheus_vars == <<metric, series, cumulative, at>>

Otlp == INSTANCE MCOtlpConversion WITH record <- otlp_record
Prometheus == INSTANCE MCPrometheusWrite

\* The inputs, which do not depend on the constants they are given to.
OtlpInputs == INSTANCE MCOtlpConversion WITH record <- otlp_record, Items <- {}
PrometheusInputs == INSTANCE MCPrometheusWrite WITH Metrics <- {}

MCItems == OtlpInputs!MCItems
MCMetrics == PrometheusInputs!MCMetrics

CodecIdle ==
  /\ record = <<>> /\ input = <<>> /\ damage = "none" /\ field = "idle"
  /\ offset = 0 /\ count = 0 /\ out = <<>>
OtlpIdle == sent = <<>> /\ otlp_record = {} /\ dropped = {}
PrometheusIdle == metric = <<>> /\ series = <<>> /\ cumulative = 0 /\ at = 0

MCInit ==
  \/ format = "codec" /\ Init /\ OtlpIdle /\ PrometheusIdle
  \/ format = "otlp" /\ Otlp!Init /\ CodecIdle /\ PrometheusIdle
  \/ format = "prometheus" /\ Prometheus!Init /\ CodecIdle /\ OtlpIdle

MCNext ==
  /\ UNCHANGED format
  /\ \/ format = "codec" /\ Next /\ UNCHANGED <<otlp_vars, prometheus_vars>>
     \/ format = "otlp" /\ Otlp!Next /\ UNCHANGED <<vars, prometheus_vars>>
     \/ format = "prometheus" /\ Prometheus!Next /\ UNCHANGED <<vars, otlp_vars>>

MCSpec == MCInit /\ [][MCNext]_<<format, vars, otlp_vars, prometheus_vars>>

-----------------------------------------------------------------------------
\* The record format: what encode accepts decode gives back, no other length is
\* a record, and decode accepts only what encode writes.
RecordsExact == format = "codec" => RoundTrip /\ LengthExact /\ Canonical

\* OTLP through a row of agents: everything well-formed comes out as it came
\* in, a client cannot take the place of what identifies an item, and what is
\* left out had no value to pass on.  See FieldsSurvive and its neighbours in
\* OtlpConversion.
PassedOnWhole ==
  format = "otlp" =>
    /\ Otlp!FieldsSurvive /\ Otlp!AttributesSurvive
    /\ Otlp!ResourceSurvives /\ Otlp!ExemplarsSurvive
    /\ Otlp!IdentityProtected /\ Otlp!Chained /\ Otlp!DropsExplained

\* Prometheus: the buckets of a histogram are cumulative and count what lies
\* below their bound, and no two series of a record have the same labels.  See
\* BucketsCumulative and its neighbours in PrometheusWrite.
SeriesTrue ==
  format = "prometheus" =>
    /\ Prometheus!BucketsCumulative /\ Prometheus!CountsBelowBound
    /\ Prometheus!SeriesDistinct /\ Prometheus!LabelsProtected /\ Prometheus!NamesSanitized
=============================================================================
