-------------------------- MODULE MCOtlpConversion --------------------------
EXTENDS OtlpConversion

Str(k, t) == [key |-> k, value |-> [type |-> "string", text |-> t]]
Num(k, n) == [key |-> k, value |-> [type |-> "int", text |-> <<n>>]]
Unset(k) == [key |-> k, value |-> [type |-> "none", text |-> <<>>]]

\* Plain, blank, repeated and clashing names.
Attributes ==
  {<<>>, <<Str(<<"a">>, <<Word>>), Num(<<"b">>, 1), Str(<<"a">>, <<>>)>>,
   <<Str(<<"">>, <<1>>), Unset(<<"a">>)>>,
   <<Str(<<"otel", "count">>, <<Word>>), Str(<<"otel", "name">>, <<Word>>)>>,
   <<Num(<<"otel", "value">>, 9), Num(<<"otel", "trace_id">>, 9), Num(<<"otel", "exemplar.count">>, 1)>>,
   <<Num(<<"resource", "a">>, 9), Str(<<"a">>, <<1>>)>>}

Resources == {<<>>, <<Str(<<"a">>, <<3>>), Num(<<"">>, 1)>>, <<Str(<<"otel", "name">>, <<4>>)>>}
Scopes == {<<>>, <<5>>}

Item(type, body, fields, e) ==
  {[type |-> type, body |-> body, fields |-> fields, scope |-> s, resource |-> r,
    attributes |-> a, exemplars |-> e] : s \in Scopes, r \in Resources, a \in Attributes}

Id == {<<6>>, <<0>>, <<Word>>, <<>>}

Spans == UNION {Item("span", <<>>,
  ("span.name" :> <<2>> @@ "trace_id" :> i @@ "span_id" :> <<7>> @@ "parent_span_id" :> j
   @@ "span.kind" :> <<1>> @@ "start_unix_nano" :> <<0>> @@ "end_unix_nano" :> <<3>>), <<>>)
  : i \in Id, j \in Id}

Logs == UNION {Item("log", b,
  ("log.time_unix_nano" :> <<1>> @@ "log.observed_time_unix_nano" :> <<0>>
   @@ "log.severity_number" :> <<9>> @@ "log.severity_text" :> <<>> @@ "trace_id" :> i
   @@ "span_id" :> <<7>> @@ "log.flags" :> <<1>> @@ "log.event_name" :> e), <<>>)
  : b \in {<<>>, <<1, 2>>}, e \in {<<>>, <<3>>}, i \in Id}

MetricBase(k, u) ==
  "name" :> <<2>> @@ "data_type" :> <<k>> @@ "time_unix_nano" :> <<3>>
   @@ "start_time_unix_nano" :> <<0>> @@ "flags" :> <<0>> @@ "description" :> <<>> @@ "unit" :> u

Exemplar(v) ==
  [fields |-> "exemplar.time_unix_nano" :> <<1>> @@ "exemplar.trace_id" :> <<6>>
     @@ "exemplar.span_id" :> <<>> @@ "exemplar.value" :> v @@ "exemplar.value_type" :> <<1>>,
   filtered |-> <<Str(<<"a">>, <<1>>)>>]

Exemplars == {<<>>, <<Exemplar(<<NotFinite>>), Exemplar(<<4>>)>>}

Numbers == UNION {Item(DataTypes[k], <<>>,
  (MetricBase(k, u) @@ "value" :> v @@ "value_type" :> <<1>>
   @@ (IF k = 2 THEN "aggregation_temporality" :> <<1>> @@ "is_monotonic" :> <<1>> ELSE <<>>)), e)
  : k \in {1, 2}, u \in {<<>>, <<8>>}, v \in {<<4>>, <<NotFinite>>}, e \in Exemplars}

Histograms == UNION {Item("histogram", <<>>,
  (MetricBase(3, <<>>) @@ "aggregation_temporality" :> <<2>> @@ "count" :> <<3>>
   @@ "bucket_counts" :> b @@ "explicit_bounds" :> x @@ "sum" :> s), e)
  : b \in {<<>>, <<1, 2>>}, x \in {<<>>, <<5>>, <<NotFinite, 5>>}, s \in {<<4>>, <<NotFinite>>},
    e \in Exemplars}

Exponentials == UNION {Item("exponential_histogram", <<>>,
  (MetricBase(4, <<>>) @@ "aggregation_temporality" :> <<2>> @@ "count" :> <<3>> @@ "scale" :> <<0>>
   @@ "zero_count" :> <<1>> @@ "zero_threshold" :> z
   @@ "positive_offset" :> <<1>> @@ "positive_bucket_counts" :> p), <<>>)
  : z \in {<<0>>, <<NotFinite>>}, p \in {<<>>, <<1>>, <<1, 0, 2>>}}

Summaries == UNION {Item("summary", <<>>,
  (MetricBase(5, <<>>) @@ "count" :> <<3>> @@ "sum" :> s @@ "quantile_values" :> q), <<>>)
  : s \in {<<4>>, <<NotFinite>>}, q \in {<<>>, <<1, 2>>}}

MCItems == Spans \cup Logs \cup Numbers \cup Histograms \cup Exponentials \cup Summaries
=============================================================================
