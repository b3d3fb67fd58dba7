-------------------------- MODULE MCPrometheusWrite --------------------------
EXTENDS PrometheusWrite

Att(k, v, i) == [key |-> k, value |-> <<v>>, internal |-> i]

\* Names that collide once sanitized, that the exporter uses, and that are empty.
AttributeLists ==
  {<<>>,
   <<Att(<<"a", ".", "b">>, 1, FALSE), Att(<<"a", "_", "b">>, 2, FALSE), Att(<<"b">>, 3, TRUE)>>,
   <<Att(<<"l", "e">>, 1, FALSE), Att(<<"1", ":">>, 2, FALSE), Att(<<"_", "1", "_">>, 3, FALSE)>>,
   <<Att(TenantLabel, 1, FALSE), Att(NameLabel, 2, FALSE), Att(<<>>, 3, FALSE)>>}

Blank == [tenant_id |-> <<50>>, name |-> <<"1", ":", "a">>, attributes |-> <<>>,
          data_type |-> "gauge", value |-> {}, count |-> {}, sum |-> {},
          bucket_counts |-> <<>>, explicit_bounds |-> <<>>, quantile_values |-> <<>>,
          zero_count |-> 0, positive |-> <<>>, positive_offset |-> 0,
          negative |-> <<>>, negative_offset |-> 0]

Optional == {{}, {3}}
Counts == UNION {[1..n -> {0, 2, 4}] : n \in 0..3}

Scalars == {[Blank EXCEPT !.attributes = a, !.value = v] : a \in AttributeLists, v \in Optional}
Histograms == {[Blank EXCEPT !.data_type = "histogram", !.attributes = a, !.count = c, !.sum = s,
                !.bucket_counts = b, !.explicit_bounds = x]
  : a \in AttributeLists, c \in Optional, s \in Optional, b \in Counts,
    x \in {<<>>, <<1>>, <<1, 2>>}}
Sides == {<<>>, <<2>>, <<0, 4>>}
Exponentials == {[Blank EXCEPT !.data_type = "exponential_histogram", !.count = c, !.attributes = a,
                  !.zero_count = z, !.positive = p, !.positive_offset = po,
                  !.negative = n, !.negative_offset = no]
  : a \in AttributeLists, c \in {{}, {2}, {7}}, z \in {0, 1}, p \in Sides, n \in Sides,
    po \in {-2, 0, 2}, no \in {-2, 1}}
Summaries == {[Blank EXCEPT !.data_type = "summary", !.count = c, !.attributes = a,
               !.quantile_values = q]
  : a \in AttributeLists, c \in Optional, q \in {<<>>, <<<<1, 5>>, <<2, 6>>>>}}

MCMetrics == Scalars \cup Histograms \cup Exponentials \cup Summaries
=============================================================================
