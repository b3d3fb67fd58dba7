--------------------------- MODULE MCRecordCodec ---------------------------
EXTENDS RecordCodec

MCMagic == <<2, 1>>
Text(n) == [i \in 1..n |-> 1]
Attr(k, v) == [key |-> k, value |-> v]

Tenants == {Text(1), <<1, 0>>, Text(MAX16), Text(MAX16 + 1), <<0>>}
Attributes == {
  <<>>,
  <<Attr(Text(1), <<>>)>>,
  <<Attr(Text(1), Text(2)), Attr(Text(2), Text(1))>>,
  <<Attr(Text(MAX16), Text(MAX16 + 1))>>,
  <<Attr(Text(MAX16 + 1), Text(MAX16))>>,
  <<Attr(Text(MAX16), Text(MAX16))>>,
  <<Attr(<<0, 0>>, Text(1))>>,
  [i \in 1..MAX16 |-> Attr(Text(1), <<>>)],
  [i \in 1..(MAX16 + 1) |-> Attr(Text(1), <<>>)] }
Bodies == {<<>>, <<3, 2>>, [i \in 1..MAX32 |-> 3], [i \in 1..(MAX32 + 1) |-> 3]}

MCRecords ==
  [tenant_id : Tenants, signal : {"trace", "log"}, timestamp_unix_nanos : {0, 6},
   attributes : Attributes, body : Bodies]
=============================================================================
