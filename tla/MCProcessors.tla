---------------------------- MODULE MCProcessors ----------------------------
EXTENDS Processors

Attribute(k, v) == [key |-> k, value |-> v]

\* Two sizes for tenant a, with and without something to redact, and tenant b.
MCRecords == {
  [tenant |-> "a", body |-> 1, attributes |-> <<>>],
  [tenant |-> "a", body |-> 0, attributes |-> <<Attribute("token", 1), Attribute("k", 1)>>],
  [tenant |-> "b", body |-> 2, attributes |-> <<>>] }

\* The order of the names, as a configuration file gives it.
MCChain == <<"batch", "memory-limiter", "redact", "tenant-rate-limit">>
=============================================================================
