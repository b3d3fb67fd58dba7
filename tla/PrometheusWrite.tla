--------------------------- MODULE PrometheusWrite ---------------------------
(***************************************************************************)
(* The Prometheus remote write exporter                                    *)
(* (crates/telemetry-exporters/src/lib.rs): a metric record becomes a list *)
(* of time series, cumulative buckets and quantiles among them, each with  *)
(* its own set of labels.  The list is built step by step.                 *)
(*                                                                         *)
(* A name is a sequence of characters.  The bounds of an exponential       *)
(* histogram are compared by their place on the number line: place n > 0   *)
(* stands for base^(n - Zero), place -n for its negative, 0 for zero and   *)
(* for the zero threshold, which is taken to lie below every bound.        *)
(***************************************************************************)
EXTENDS Integers, Sequences, SequencesExt, FiniteSets

CONSTANTS
  Metrics,     \* the records considered
  MaxCount,    \* u64::MAX
  Zero,        \* the place of exponent 0
  LastPlace    \* the largest place that is a finite number

VARIABLES metric, series, cumulative, at

vars == <<metric, series, cumulative, at>>

Init ==
  /\ metric \in Metrics
  /\ series = <<>>
  /\ cumulative = 0
  /\ at = 0

-----------------------------------------------------------------------------
Letters == {"a", "b", "e", "l"}
Digits == {"1"}

sanitize_prometheus_identifier(name, allow_colon) ==
  LET valid == Letters \cup Digits \cup {"_"} \cup (IF allow_colon THEN {":"} ELSE {})
      mapped == [i \in DOMAIN name |-> IF name[i] \in valid THEN name[i] ELSE "_"]
  IN CASE name = <<>> -> <<"_">>
       [] name # <<>> /\ name[1] \in Digits -> <<"_">> \o mapped
       [] OTHER -> mapped

\* Labels the exporter gives, beside the record's attributes.
NameLabel == <<"_", "_", "name", "_", "_">>
TenantLabel == <<"tenant", "_", "id">>
LeLabel == <<"l", "e">>
QuantileLabel == <<"quantile">>

\* entry().or_insert()
or_insert(labels, name, value) ==
  [n \in DOMAIN labels \cup {name} |-> IF n \in DOMAIN labels THEN labels[n] ELSE value]

\* The record's attributes without those under "otel."; a value is a text, and
\* extra is a function from names to texts.
prometheus_labels_with_extra(name, extra) ==
  LET own == [n \in {NameLabel, TenantLabel} |->
                IF n = NameLabel THEN name ELSE metric.tenant_id]
      shown == SelectSeq(metric.attributes, LAMBDA a : ~a.internal)
      all == FoldLeft(LAMBDA ls, a :
                 LET label == sanitize_prometheus_identifier(a.key, FALSE) IN
                 IF label = NameLabel THEN ls ELSE or_insert(ls, label, a.value),
               own, shown)
  IN [n \in DOMAIN all \cup DOMAIN extra |-> IF n \in DOMAIN extra THEN extra[n] ELSE all[n]]

Plain == [n \in {} |-> <<>>]

prometheus_timeseries(suffix, extra, value) ==
  [suffix |-> suffix, value |-> value, labels |-> prometheus_labels_with_extra(
     sanitize_prometheus_identifier(metric.name, TRUE) \o suffix, extra)]

-----------------------------------------------------------------------------
Histogram == metric.data_type = "histogram"
Exponential == metric.data_type = "exponential_histogram"
Summary == metric.data_type = "summary"
Scalar == ~Histogram /\ ~Exponential /\ ~Summary

PlusInf == <<LastPlace + 1>>   \* the text "+Inf", past every bound

\* The buckets with their upper bounds, in the order of the bounds; a bound that
\* is not finite has no bucket of its own.
exponential_histogram_prometheus_buckets ==
  LET negative == [i \in DOMAIN metric.negative |->
        [place |-> -(metric.negative_offset + i - 1 + Zero), count |-> metric.negative[i]]]
      zero == IF metric.zero_count > 0 THEN <<[place |-> 0, count |-> metric.zero_count]>> ELSE <<>>
      positive == [i \in DOMAIN metric.positive |->
        [place |-> metric.positive_offset + i + Zero, count |-> metric.positive[i]]]
  IN SortSeq(SelectSeq(negative \o zero \o positive,
               LAMBDA b : b.place \in (-LastPlace)..LastPlace),
             LAMBDA x, y : x.place < y.place)

\* The bounds of a record as texts.
explicit_bound(i) ==
  IF i \in DOMAIN metric.explicit_bounds THEN <<metric.explicit_bounds[i]>> ELSE PlusInf

Buckets ==
  IF Histogram
  THEN [i \in DOMAIN metric.bucket_counts |->
          [le |-> explicit_bound(i), count |-> metric.bucket_counts[i]]]
  ELSE LET sorted == exponential_histogram_prometheus_buckets IN
       [i \in DOMAIN sorted |-> [le |-> <<sorted[i].place>>, count |-> sorted[i].count]]

Push(s) == series' = Append(series, s)

\* Values that are not there, or not finite, are sets without an element.
PushScalar ==
  /\ at = 0 /\ Scalar
  /\ IF metric.value = {} THEN UNCHANGED series
     ELSE \E v \in metric.value : Push(prometheus_timeseries(<<>>, Plain, v))
  /\ at' = 4
  /\ UNCHANGED <<metric, cumulative>>

PushCount ==
  /\ at = 0 /\ ~Scalar
  /\ IF metric.count = {} THEN UNCHANGED series
     ELSE \E c \in metric.count : Push(prometheus_timeseries(<<"_", "count">>, Plain, c))
  /\ at' = 1
  /\ UNCHANGED <<metric, cumulative>>

PushSum ==
  /\ at = 1
  /\ IF metric.sum = {} THEN UNCHANGED series
     ELSE \E s \in metric.sum : Push(prometheus_timeseries(<<"_", "sum">>, Plain, s))
  /\ at' = 2
  /\ UNCHANGED <<metric, cumulative>>

IsBucket(s) == s.suffix = <<"_", "bucket">>
Pushed == Len(SelectSeq(series, IsBucket))

\* Mutant: the count wraps.
wrapping_add(a, b) == (a + b) % (MaxCount + 1)

saturating_add(a, b) == IF a + b > MaxCount THEN MaxCount ELSE a + b

PushBucket ==
  /\ at = 2 /\ ~Summary
  /\ Pushed < Len(Buckets)
  /\ LET b == Buckets[Pushed + 1] IN
       /\ cumulative' = saturating_add(cumulative, b.count)
       /\ Push(prometheus_timeseries(<<"_", "bucket">>, [n \in {LeLabel} |-> b.le],
                                     cumulative'))
  /\ UNCHANGED <<metric, at>>

max_with_cumulative(count) == IF count > cumulative THEN count ELSE cumulative

\* An exponential histogram has a bucket for everything at its end.
PushInf ==
  /\ at = 2 /\ ~Summary
  /\ Pushed = Len(Buckets)
  /\ IF Exponential /\ metric.count # {}
     THEN \E c \in metric.count :
            Push(prometheus_timeseries(<<"_", "bucket">>, [n \in {LeLabel} |-> PlusInf],
                                       max_with_cumulative(c)))
     ELSE UNCHANGED series
  /\ at' = 4
  /\ UNCHANGED <<metric, cumulative>>

PushQuantiles ==
  /\ at = 2 /\ Summary
  /\ series' = series \o [i \in DOMAIN metric.quantile_values |->
       prometheus_timeseries(<<>>, [n \in {QuantileLabel} |-> <<metric.quantile_values[i][1]>>],
                             metric.quantile_values[i][2])]
  /\ at' = 4
  /\ UNCHANGED <<metric, cumulative>>

Next == PushScalar \/ PushCount \/ PushSum \/ PushBucket \/ PushInf \/ PushQuantiles

Spec == Init /\ [][Next]_vars
-----------------------------------------------------------------------------
Done == at = 4
BucketSeries == SelectSeq(series, IsBucket)
Le(s) == s.labels[LeLabel]
Total(s) == FoldLeft(LAMBDA a, b : a + b, 0, s)
Capped(n) == IF n > MaxCount THEN MaxCount ELSE n

\* Every series has a name, the tenant's label and a value that fits.
TypeOK ==
  \A i \in DOMAIN series :
    /\ {NameLabel, TenantLabel} \subseteq DOMAIN series[i].labels
    /\ IsBucket(series[i]) => series[i].value \in 0..MaxCount

\* Buckets are cumulative: a bucket never counts less than the one before it,
\* and the last counts everything, up to the largest count there is.
BucketsCumulative ==
  /\ \A i \in 2..Len(BucketSeries) : BucketSeries[i - 1].value <= BucketSeries[i].value
  /\ Done /\ Histogram /\ metric.bucket_counts # <<>> =>
       Last(BucketSeries).value = Capped(Total(metric.bucket_counts))

\* What an exponential histogram says of a bound is the number of observations
\* in the buckets that end there or below, the negative ones and the zero bucket
\* included, and no observation is missing at the end.
CountsBelowBound ==
  Done /\ Exponential =>
    LET below(p) ==
          Total([i \in DOMAIN metric.negative |->
                   IF -(metric.negative_offset + i - 1 + Zero) <= p THEN metric.negative[i] ELSE 0])
          + (IF p >= 0 THEN metric.zero_count ELSE 0)
          + Total([i \in DOMAIN metric.positive |->
                     IF metric.positive_offset + i + Zero <= p THEN metric.positive[i] ELSE 0])
    IN /\ \A i \in DOMAIN BucketSeries : Le(BucketSeries[i]) # PlusInf =>
            BucketSeries[i].value = Capped(below(Le(BucketSeries[i])[1]))
       /\ \A c \in metric.count :
            /\ Le(Last(BucketSeries)) = PlusInf
            /\ Last(BucketSeries).value >= c

\* No two series of a record have the same labels, when its histogram has one
\* bound less than counts and its quantiles differ.
SeriesDistinct ==
  (Histogram => Len(metric.explicit_bounds) + 1 >= Len(metric.bucket_counts)) =>
    \A i, j \in DOMAIN series : i # j => series[i].labels # series[j].labels

\* The name, the tenant and the bound of a series are the exporter's, and of
\* attributes that come out under one label the first one counts.
LabelsProtected ==
  \A k \in DOMAIN series :
    LET ls == series[k].labels
        shown == SelectSeq(metric.attributes, LAMBDA a : ~a.internal)
        label(a) == sanitize_prometheus_identifier(a.key, FALSE)
    IN /\ ls[TenantLabel] = metric.tenant_id
       /\ \A i \in DOMAIN shown :
            \/ label(shown[i]) \in {NameLabel, TenantLabel, LeLabel, QuantileLabel}
            \/ \E j \in 1..(i - 1) : label(shown[j]) = label(shown[i])
            \/ ls[label(shown[i])] = shown[i].value

\* Names come out as Prometheus identifiers: no digit first, no other character
\* than letters, digits and underscores, the colon only in metric names.
NamesSanitized ==
  \A k \in DOMAIN series : \A n \in DOMAIN series[k].labels :
    n \notin {TenantLabel, NameLabel, QuantileLabel} =>
      /\ n # <<>> /\ n[1] \notin Digits
      /\ ToSet(n) \subseteq Letters \cup Digits \cup {"_"}
=============================================================================
