--------------------------- MODULE MCAgentRuntime ---------------------------
EXTENDS AgentRuntime
CONSTANTS f, s, a, b, c, trace, otlp, file

MCKind == [w \in Workers |-> CASE w = f -> "flush" [] w = s -> "shutdown"]

\* Configuration a sends traces to both exporters, b only to one of them, and c
\* has no route for them, which validate() accepts.
MCBuilt == [x \in Configs |-> IF x = a THEN {otlp, file} ELSE {otlp}]
MCRoute == [x \in Configs |-> [t \in Signals |-> IF x = c THEN {} ELSE MCBuilt[x]]]
=============================================================================
