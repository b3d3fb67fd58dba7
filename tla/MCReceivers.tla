---------------------------- MODULE MCReceivers ----------------------------
(***************************************************************************)
(* The receivers, and the configuration that says which one is served,     *)
(* each from a start of its own.                                           *)
(***************************************************************************)
EXTENDS Receivers

CONSTANTS Starts, Updates, SigningKey   \* PipelineConfig

\* A configuration file has finitely many receivers and routes.
FinitelyMany(file) == IsFiniteSet(DOMAIN file.receivers) /\ IsFiniteSet(DOMAIN file.routes)

ASSUME ConfigAssumption ==
  /\ \A s \in Starts : \A file \in s.file : FinitelyMany(file)
  /\ \A u \in Updates : FinitelyMany(u.file)

VARIABLES
  part,   \* "receivers" or "config"
  start, status, running, mode

config_vars == <<start, status, running, mode>>

Config == INSTANCE PipelineConfig
ConfigInputs == INSTANCE MCPipelineConfig

MCStarts == ConfigInputs!MCStarts
MCUpdates == ConfigInputs!MCUpdates

Req(t, k, h, l, rs) == [transport |-> t, kind |-> k, head |-> h, length |-> l, records |-> rs]

\* Requests that do not fit into the queue together, one of them just within the
\* size limit and with a record that is too large; one over the limit; and one
\* without a length.
MCRequest == [c \in Clients |->
  CASE c = "g" -> Req("grpc", "ok", 1, 0, <<1, 1, 1>>)
    [] c = "max" -> Req("http", "ok", 1, 3, <<1, 4>>)
    [] c = "over" -> Req("http", "ok", 2, 4, <<1>>)
    [] c = "h" -> Req("http", "ok", 1, 1, <<1, 2>>)
    [] c = "nolen" -> Req("http", "no_length", 1, 1, <<1>>)]

-----------------------------------------------------------------------------
ConfigIdle == start = <<>> /\ status = "idle" /\ running = {} /\ mode = {}

MCInit ==
  /\ Init
  /\ \/ part = "receivers" /\ ConfigIdle
     \/ part = "config" /\ Config!Init

MCNext ==
  /\ UNCHANGED part
  /\ \/ part = "receivers" /\ Next /\ UNCHANGED config_vars
     \/ part = "config" /\ Config!Next /\ UNCHANGED vars

all == <<part, vars, config_vars>>

Serving(A) == part = "receivers" /\ A /\ UNCHANGED <<part, config_vars>>

\* The fairness of Receivers.
MCSpec ==
  /\ MCInit /\ [][MCNext]_all
  /\ \A c \in Clients :
       /\ WF_all(Serving(IngestRecord(c) \/ IngestFails(c) \/ Respond(c)))
       /\ SF_all(Serving(Lock(c)))

-----------------------------------------------------------------------------
\* Configuration: whatever the file, the command line and the updates said, the
\* router finds an exporter for every routed signal (RunningRoutable) and the
\* agent a receiver to serve (ReceiverFound).
RunningUsable == Config!RunningRoutable /\ Config!ReceiverFound

\* "agents reject it and continue on the previous version": see PipelineConfig.
OnlyGoodUpdates == Config!OnlyGoodUpdates

\* "When --otlp-export-endpoint is set": see PipelineConfig.
UpstreamRouted == part = "config" => Config!UpstreamRouted
=============================================================================
