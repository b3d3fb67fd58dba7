--------------------------- MODULE OtlpConversion ---------------------------
(***************************************************************************)
(* OTLP on its way through agents: the receivers flatten every span, data  *)
(* point and log into a record with a list of text attributes              *)
(* (crates/telemetry-otlp/src/lib.rs), and the OTLP exporters build a      *)
(* request from the list again (crates/telemetry-exporters/src/lib.rs),    *)
(* which may go to another agent.                                          *)
(*                                                                         *)
(* A text is the sequence of its comma separated tokens.  A token is a     *)
(* number; NotFinite and Word stand for texts that are not one.  An        *)
(* optional value is a set of at most one element.  A key is the sequence  *)
(* of its parts: "otel." and "resource." are first parts.                  *)
(***************************************************************************)
EXTENDS Integers, Sequences, SequencesExt

CONSTANTS
  Items,   \* the requests considered, one item each
  Hops     \* bound: agents in a row

NotFinite == -1
Word == -2
FallbackId == 77   \* the id fallback_id computes from the name

VARIABLES
  sent,     \* the item as every agent received it, the original first
  record,   \* {} or {the record in the agent's queue}
  dropped   \* {} or where the item was left out: "receiver", "exporter"

vars == <<sent, record, dropped>>

Init ==
  /\ sent \in {<<i>> : i \in Items}
  /\ record = {}
  /\ dropped = {}

-----------------------------------------------------------------------------
\* The fields of an item in the order in which they are written: before the
\* scope, the resource and the attributes of the item, and after them.

DataTypes == <<"gauge", "sum", "histogram", "exponential_histogram", "summary">>

SpanFields ==
  <<"span.name", "trace_id", "span_id", "parent_span_id", "span.kind",
    "start_unix_nano", "end_unix_nano">>

LogFields ==
  <<"log.time_unix_nano", "log.observed_time_unix_nano", "log.severity_number",
    "log.severity_text", "trace_id", "span_id", "log.flags", "log.event_name">>

MetricFields ==
  <<"name", "data_type", "time_unix_nano", "start_time_unix_nano", "flags",
    "description", "unit", "aggregation_temporality", "is_monotonic">>

NumberFields == <<"value", "value_type">>

HistogramFields == <<"count", "bucket_counts", "explicit_bounds", "sum", "min", "max">>

ExponentialFields ==
  <<"count", "scale", "zero_count", "zero_threshold", "sum", "min", "max",
    "positive_offset", "positive_bucket_counts", "negative_offset", "negative_bucket_counts">>

SummaryFields == <<"count", "sum", "quantile_values">>

FieldsBefore(type) ==
  CASE type = "span" -> SpanFields
    [] type = "log" -> LogFields
    [] OTHER -> MetricFields

FieldsAfter(type) ==
  CASE type \in {"span", "log"} -> <<>>
    [] type \in {"gauge", "sum"} -> NumberFields
    [] type = "histogram" -> HistogramFields
    [] type = "exponential_histogram" -> ExponentialFields
    [] type = "summary" -> SummaryFields

\* Written only when there is something to write.
OmittedWhenEmpty == {"description", "unit", "log.event_name"}

Key(field) == <<"otel", field>>

\* Attributes of the fields an item has.
fields_to_attributes(item, fields) ==
  FoldLeft(LAMBDA list, f :
      IF f \notin DOMAIN item.fields \/ (f \in OmittedWhenEmpty /\ item.fields[f] = <<>>)
      THEN list
      ELSE Append(list, [key |-> Key(f), text |-> item.fields[f]]),
    <<>>, fields)

Blank(key) == key = <<"">>

\* Types are not kept: a number, an array or a list of pairs becomes its text.
any_value_to_string(value) == IF value.type = "none" THEN <<>> ELSE value.text

attributes_from_key_values(prefix, values) ==
  LET named == SelectSeq(values, LAMBDA v : ~Blank(v.key)) IN
  [i \in DOMAIN named |->
     [key |-> prefix \o named[i].key, text |-> any_value_to_string(named[i].value)]]

ExemplarFields == <<"exemplar.time_unix_nano", "exemplar.trace_id", "exemplar.span_id",
                    "exemplar.value", "exemplar.value_type">>

ExemplarKey(field, n) == <<"otel", field, n>>

\* An exemplar whose value is not finite is written without it.
exemplar_fields(e) ==
  IF "exemplar.value" \in DOMAIN e.fields /\ e.fields["exemplar.value"] = <<NotFinite>>
  THEN SelectSeq(ExemplarFields, LAMBDA f : f \notin {"exemplar.value", "exemplar.value_type"})
  ELSE SelectSeq(ExemplarFields, LAMBDA f : f \in DOMAIN e.fields)

append_exemplar_attributes(exemplars) ==
  IF exemplars = <<>> THEN <<>>
  ELSE <<[key |-> Key("exemplar.count"), text |-> <<Len(exemplars)>>]>> \o
       FlattenSeq([n \in DOMAIN exemplars |->
         LET e == exemplars[n]
             fields == exemplar_fields(e)
         IN [k \in DOMAIN fields |->
               [key |-> ExemplarKey(fields[k], n), text |-> e.fields[fields[k]]]]
            \o attributes_from_key_values(<<"otel", "exemplar.filtered", n>>, e.filtered)])

scope_attribute(item) ==
  IF item.scope = <<>> THEN <<>> ELSE <<[key |-> Key("scope.name"), text |-> item.scope]>>

\* span_to_record, metric_record_base with its five users, log_record_to_record
item_to_attributes(item) ==
  fields_to_attributes(item, FieldsBefore(item.type))
    \o scope_attribute(item)
    \o attributes_from_key_values(<<"resource">>, item.resource)
    \o attributes_from_key_values(<<>>, item.attributes)
    \o fields_to_attributes(item, FieldsAfter(item.type))
    \o append_exemplar_attributes(item.exemplars)

\* The body is the name of a span or a metric; of a log it is the body, or the
\* name of the event when that is blank.
item_body(item) ==
  CASE item.type = "span" -> item.fields["span.name"]
    [] item.type = "log" ->
         IF item.body = <<>> THEN item.fields["log.event_name"] ELSE item.body
    [] OTHER -> item.fields["name"]

\* A number without a value, or with one that is not finite, makes no record.
recorded(item) ==
  item.type \in {"gauge", "sum"} =>
    "value" \in DOMAIN item.fields /\ item.fields["value"] # <<NotFinite>>

signal_of(type) == IF type \in {"span", "log"} THEN type ELSE "metric"

Arrived == Last(sent)

ReceiveItem ==
  /\ record = {} /\ dropped = {} /\ Len(sent) <= Hops
  /\ recorded(Arrived)
  /\ record' = {[signal |-> signal_of(Arrived.type), body |-> item_body(Arrived),
                 attributes |-> item_to_attributes(Arrived)]}
  /\ UNCHANGED <<sent, dropped>>

SkipItem ==
  /\ record = {} /\ dropped = {} /\ Len(sent) <= Hops
  /\ ~recorded(Arrived)
  /\ dropped' = {"receiver"}
  /\ UNCHANGED <<sent, record>>

-----------------------------------------------------------------------------
find_attribute(r, key) ==
  LET same == SelectSeq(r.attributes, LAMBDA a : a.key = key) IN
  IF same = <<>> THEN {} ELSE {Head(same).text}

IsNumber(text) == Len(text) = 1 /\ text[1] >= 0

TextFields == {"span.name", "log.severity_text", "log.event_name", "name", "data_type",
               "description", "unit", "value_type", "exemplar.value_type"}
ListFields == {"bucket_counts", "explicit_bounds", "quantile_values",
               "positive_bucket_counts", "negative_bucket_counts"}
IdFields == {"trace_id", "span_id", "parent_span_id", "exemplar.trace_id", "exemplar.span_id"}

\* Ids that are all zero, of the wrong length or not hexadecimal count as none.
hex_decode_fixed(text) == IF IsNumber(text) /\ text # <<0>> THEN {text} ELSE {}

\* Mutant: a list of several numbers is not split.
read_text_whole(field, text) ==
  CASE field \in TextFields -> {text}
    [] field \in IdFields -> hex_decode_fixed(text)
    [] OTHER -> IF IsNumber(text) THEN {text} ELSE {}

\* What an exporter reads in a field's text; items of a list that do not parse
\* are left out.
read_text(field, text) ==
  CASE field \in TextFields -> {text}
    [] field \in ListFields -> {SelectSeq(text, LAMBDA t : t >= 0)}
    [] field \in IdFields -> hex_decode_fixed(text)
    [] OTHER -> IF IsNumber(text) THEN {text} ELSE {}

read_field(r, field) == UNION {read_text(field, t) : t \in find_attribute(r, Key(field))}

\* Fields that are there whatever was read; ids of a span fall back to a hash.
default_text(type, field) ==
  CASE type = "span" /\ field \in {"trace_id", "span_id"} -> {<<FallbackId>>}
    [] field \in IdFields -> {<<>>}
    [] field \in TextFields \cup ListFields -> {<<>>}
    [] field \in {"scale", "zero_count", "zero_threshold", "span.kind", "log.flags", "flags",
                  "start_time_unix_nano", "log.severity_number"} -> {<<0>>}
    [] OTHER -> {}

\* record_to_exponential_buckets: without counts there are no buckets.
bucket_side(field) ==
  IF field \in {"positive_offset", "positive_bucket_counts"} THEN "positive_bucket_counts"
  ELSE "negative_bucket_counts"

no_buckets(r, field) ==
  /\ field \in {"positive_offset", "positive_bucket_counts",
                "negative_offset", "negative_bucket_counts"}
  /\ read_field(r, bucket_side(field)) \subseteq {<<>>}

field_value(r, type, field) ==
  CASE no_buckets(r, field) -> {}
    [] read_field(r, field) # {} -> read_field(r, field)
    [] OTHER -> default_text(type, field)

\* Without these there is no data point, and the record is left out.
Required(type) ==
  CASE type \in {"gauge", "sum"} -> {"value"}
    [] type \in {"histogram", "exponential_histogram"} -> {"count"}
    [] type = "summary" -> {"count", "sum"}
    [] OTHER -> {}

record_type(r) ==
  IF r.signal # "metric" THEN r.signal
  ELSE LET read == UNION {ToSet(t) : t \in find_attribute(r, Key("data_type"))}
           known == {DataTypes[n] : n \in read \cap DOMAIN DataTypes}
       IN IF known = {} THEN "gauge" ELSE CHOOSE t \in known : TRUE

key_values(attributes, skip) ==
  [i \in DOMAIN attributes |->
    [key |-> SubSeq(attributes[i].key, skip + 1, Len(attributes[i].key)),
     value |-> [type |-> "string", text |-> attributes[i].text]]]

Under(prefix, attributes) ==
  SelectSeq(attributes, LAMBDA a : Len(a.key) > Len(prefix) /\ IsPrefix(prefix, a.key))

resource_attributes(r) ==
  SelectSeq(key_values(Under(<<"resource">>, r.attributes), 1), LAMBDA a : ~Blank(a.key))

\* A span keeps the attributes of its resource among its own.
own_attributes(r, type) ==
  LET hidden == IF type = "span" THEN {"otel"} ELSE {"otel", "resource"} IN
  key_values(SelectSeq(r.attributes, LAMBDA a : Len(a.key) = 1 \/ a.key[1] \notin hidden), 0)

exemplar_field(r, field, n) ==
  LET read == UNION {read_text(field, t) : t \in find_attribute(r, ExemplarKey(field, n))} IN
  IF read # {} THEN read
  ELSE CASE field \in IdFields -> {<<>>}
         [] field = "exemplar.time_unix_nano" -> {<<0>>}
         [] OTHER -> {}

record_to_exemplar(r, n) ==
  [fields |-> [f \in {g \in ToSet(ExemplarFields) : exemplar_field(r, g, n) # {}} |->
                 CHOOSE t \in exemplar_field(r, f, n) : TRUE],
   filtered |-> key_values(Under(<<"otel", "exemplar.filtered", n>>, r.attributes), 3)]

record_to_exemplars(r) ==
  LET count == UNION {ToSet(t) : t \in {u \in find_attribute(r, Key("exemplar.count")) : IsNumber(u)}}
  IN IF count = {} THEN <<>>
     ELSE [n \in 1..(CHOOSE c \in count : TRUE) |-> record_to_exemplar(r, n)]

record_to_item(r) ==
  LET type == record_type(r)
      fields == ToSet(FieldsBefore(type) \o FieldsAfter(type))
  IN [type |-> type,
      body |-> IF type = "log" THEN r.body ELSE <<>>,
      fields |-> [f \in {g \in fields : field_value(r, type, g) # {}} |->
                    CHOOSE t \in field_value(r, type, f) : TRUE],
      scope |-> IF type = "span" THEN <<>>
                ELSE FoldSet(LAMBDA t, acc : t, <<>>, find_attribute(r, Key("scope.name"))),
      resource |-> IF type = "span" THEN <<>> ELSE resource_attributes(r),
      attributes |-> own_attributes(r, type),
      exemplars |-> IF type \in {"span", "log", "summary"} THEN <<>> ELSE record_to_exemplars(r)]

exportable(r) == \A f \in Required(record_type(r)) : read_field(r, f) # {}

ExportItem ==
  \E r \in record :
    /\ exportable(r)
    /\ sent' = Append(sent, record_to_item(r))
    /\ record' = {}
    /\ UNCHANGED dropped

\* filter_map leaves out what makes no data point.
LeaveOut ==
  \E r \in record :
    /\ ~exportable(r)
    /\ record' = {}
    /\ dropped' = {"exporter"}
    /\ UNCHANGED sent

Next == ReceiveItem \/ SkipItem \/ ExportItem \/ LeaveOut

Spec == Init /\ [][Next]_vars
-----------------------------------------------------------------------------
Origin == sent[1]

\* Attributes a client gave a name under "otel.".
Clashes(item) == {v \in ToSet(item.attributes) : Len(v.key) > 1 /\ v.key[1] = "otel"}

WellFormed(field, text) ==
  CASE field \in TextFields -> TRUE
    [] field \in IdFields -> hex_decode_fixed(text) # {}
    [] OTHER -> \A i \in DOMAIN text : text[i] >= 0

\* Texts are sequences of tokens and an item is dropped at most once.
TypeOK ==
  /\ Len(sent) \in 1..(Hops + 1)
  /\ \A n \in DOMAIN sent :
       /\ sent[n].type = Origin.type
       /\ DOMAIN sent[n].fields \subseteq
            ToSet(FieldsBefore(Origin.type) \o FieldsAfter(Origin.type))
       /\ \A f \in DOMAIN sent[n].fields : sent[n].fields[f] \in Seq(Int)
  /\ dropped = {} \/ record = {}

\* A forwarded item has every well-formed field it came with, whatever was
\* rendered, joined, split and parsed on the way, if no attribute of the client
\* has a name under "otel.".
FieldsSurvive ==
  \A n \in DOMAIN sent : Clashes(Origin) = {} =>
    \A f \in DOMAIN Origin.fields : WellFormed(f, Origin.fields[f]) =>
      \/ f \in DOMAIN sent[n].fields /\ sent[n].fields[f] = Origin.fields[f]
      \/ f \in {"positive_offset", "positive_bucket_counts",
                "negative_offset", "negative_bucket_counts"}
         /\ Origin.fields[bucket_side(f)] = <<>>

\* No attribute of the client replaces what identifies an item: its name, type,
\* ids, times and flags are written before the client's attributes, and the
\* first attribute of a name counts.
IdentityProtected ==
  \A n \in DOMAIN sent : \A f \in DOMAIN Origin.fields \cap ToSet(FieldsBefore(Origin.type)) :
    WellFormed(f, Origin.fields[f]) /\ ~(f \in OmittedWhenEmpty /\ Origin.fields[f] = <<>>)
      => sent[n].fields[f] = Origin.fields[f]

\* The client's attributes come out in their order, under their names, and
\* nothing of the agent's own bookkeeping comes out with them.
AttributesSurvive ==
  \A n \in DOMAIN sent :
    n > 1 =>
      LET plain(v) == ~Blank(v.key) /\ (Len(v.key) = 1 \/ v.key[1] \notin {"otel", "resource"})
          texts(vs) == [i \in DOMAIN vs |-> <<vs[i].key, any_value_to_string(vs[i].value)>>]
      IN /\ texts(SelectSeq(sent[n].attributes, plain)) = texts(SelectSeq(Origin.attributes, plain))
         /\ Clashes(sent[n]) = {}

\* Nothing of the resource is lost: a metric or a log has it as its resource, a
\* span among its own attributes.
ResourceSurvives ==
  \A n \in DOMAIN sent : \A v \in ToSet(Origin.resource) : n > 1 /\ ~Blank(v.key) =>
    \E w \in ToSet(IF Origin.type = "span" THEN sent[n].attributes ELSE sent[n].resource) :
      /\ w.key = IF Origin.type = "span" THEN <<"resource">> \o v.key ELSE v.key
      /\ w.value.text = any_value_to_string(v.value)

\* Exemplars keep their number and their order.
ExemplarsSurvive ==
  \A n \in DOMAIN sent :
    Clashes(Origin) = {} /\ Origin.type \notin {"span", "log", "summary"} =>
      /\ Len(sent[n].exemplars) = Len(Origin.exemplars)
      /\ \A k \in DOMAIN Origin.exemplars :
           \A f \in DOMAIN Origin.exemplars[k].fields :
             WellFormed(f, Origin.exemplars[k].fields[f])
               /\ ~(f = "exemplar.value_type"
                    /\ Origin.exemplars[k].fields["exemplar.value"] = <<NotFinite>>)
               => sent[n].exemplars[k].fields[f] = Origin.exemplars[k].fields[f]

\* Agents can be chained: the second one changes nothing more.
Chained == \A n \in DOMAIN sent : n > 2 => sent[n] = sent[2]

\* What is left out after it was acknowledged had a value that is no number, or
\* an attribute of the client in the place of one.
DropsExplained ==
  dropped = {"exporter"} =>
    \/ Clashes(Origin) # {}
    \/ \E f \in Required(Origin.type) : ~WellFormed(f, Origin.fields[f])
=============================================================================
