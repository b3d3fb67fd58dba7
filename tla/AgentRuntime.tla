---------------------------- MODULE AgentRuntime ----------------------------
(***************************************************************************)
(* The shared runtime of the agent (crates/telemetry-agent/src/runtime.rs) *)
(* and the tasks of main.rs that use it: receivers ingest, the flush       *)
(* worker, the drain_and_restart command and the shutdown drain flush, the *)
(* control worker pauses, resumes and reloads.                             *)
(*                                                                         *)
(* Every step that holds the runtime's mutex is one action.  A flush holds *)
(* it twice, to prepare and to finish, and exports in between without it:  *)
(* in that time the exporters are moved out of the runtime, records come   *)
(* in, the configuration may be replaced, and other flushes must wait.     *)
(*                                                                         *)
(* The disk queue is its contract, DurableQueue: the accepted records in   *)
(* order, and how many of them are committed.  Sizes and quota are in      *)
(* DiskQueue; what a processor drops is any set of records.                *)
(***************************************************************************)
EXTENDS Integers, Sequences, FiniteSets

CONSTANTS
  Workers,      \* tasks that flush
  Kind,         \* Kind[w]: "flush", "drain" or "shutdown"
  Configs,      \* valid pipeline configurations
  StartConfig,  \* the one the process starts with
  Signals,      \* traces, metrics, logs
  Exporters,    \* exporter names
  Built,        \* Built[c]: the exporters configuration c declares
  Route,        \* Route[c][s]: where c sends signal s, {} if it has no route
  max_items,    \* flush batch size
  MaxRecords,   \* bound: records ingested
  MaxReloads,   \* bound: configurations installed by one process
  MaxRestarts   \* bound: process starts

ASSUME RuntimeAssumption ==
  /\ Kind \in [Workers -> {"flush", "drain", "shutdown"}]
  /\ StartConfig \in Configs
  /\ Built \in [Configs -> SUBSET Exporters]
  /\ Route \in [Configs -> [Signals -> SUBSET Exporters]]
  /\ max_items \in Nat \ {0}
  /\ MaxRecords \in Nat
  /\ MaxReloads \in Nat
  /\ MaxRestarts \in Nat

\* PipelineConfig::validate: routes name declared exporters only.
validate(c) == \A s \in Signals : Route[c][s] \subseteq Built[c]

ASSUME ValidConfigs == \A c \in Configs : validate(c)

VARIABLES
  queue,              \* signals of the accepted records, by record number
  committed,          \* the cursor: records 1..committed are done with
  persisted,          \* where the cursor would be after a restart
  config, config_generation,
  exporters,          \* the ExporterMap: what it was built for, or Taken
  exports_paused,
  flush_in_progress,
  at,                 \* at[w]: where the task is
  work,               \* work[w]: its PreparedFlush
  exiting,            \* the process is about to end
  delivered,          \* <<e, r>>: exporter e has taken record r
  dropped,            \* records a committed flush dropped in its processors
  restarts

vars == <<queue, committed, persisted, config, config_generation, exporters,
          exports_paused, flush_in_progress, at, work, exiting, delivered,
          dropped, restarts>>

-----------------------------------------------------------------------------
ExporterMap == [config : Configs, generation : Nat]
Taken == [config |-> StartConfig, generation |-> -1]

build_exporters(c, g) == [config |-> c, generation |-> g]

NoWork == [first |-> 1, last |-> 0, config |-> StartConfig,
           exporters |-> Taken, config_generation |-> 0,
           records |-> {}, grouped |-> {}, ok |-> FALSE]

PreparedFlush ==
  [first : Nat, last : Nat, config : Configs,
   exporters : ExporterMap \cup {Taken}, config_generation : Nat,
   records : SUBSET Nat, grouped : SUBSET Exporters, ok : BOOLEAN]

exporters_for(c, r) == Route[c][queue[r]]

\* read_batch(max_items) reads records committed + 1 .. BatchEnd.
BatchEnd ==
  IF committed + max_items < Len(queue) THEN committed + max_items ELSE Len(queue)

-----------------------------------------------------------------------------
Init ==
  /\ queue = <<>>
  /\ committed = 0
  /\ persisted = 0
  /\ config = StartConfig
  /\ config_generation = 0
  /\ exporters = build_exporters(StartConfig, 0)
  /\ exports_paused = FALSE
  /\ flush_in_progress = FALSE
  /\ at = [w \in Workers |-> "idle"]
  /\ work = [w \in Workers |-> NoWork]
  /\ exiting = FALSE
  /\ delivered = {}
  /\ dropped = {}
  /\ restarts = 0

Ingest(s) ==
  /\ Len(queue) < MaxRecords
  /\ queue' = Append(queue, s)
  /\ UNCHANGED <<committed, persisted, config, config_generation, exporters,
                 exports_paused, flush_in_progress, at, work, exiting, delivered,
                 dropped, restarts>>

SetPaused(b) ==
  /\ exports_paused' = b
  /\ UNCHANGED <<queue, committed, persisted, config, config_generation, exporters,
                 flush_in_progress, at, work, exiting, delivered, dropped, restarts>>

pause_exports == ~exports_paused /\ SetPaused(TRUE)

resume_exports == exports_paused /\ SetPaused(FALSE)

next_generation == config_generation + 1

\* A configuration that validates and whose exporters can be built; any other
\* leaves the runtime as it is.
reload_config(c) ==
  /\ config_generation < MaxReloads
  /\ config' = c
  /\ config_generation' = next_generation
  /\ exporters' = build_exporters(c, next_generation)
  /\ UNCHANGED <<queue, committed, persisted, exports_paused, flush_in_progress,
                 at, work, exiting, delivered, dropped, restarts>>

-----------------------------------------------------------------------------
\* The flush worker's tick, the next round of a drain.
CallFlush(w) ==
  /\ at[w] = "idle"
  /\ at' = [at EXCEPT ![w] = "prepare"]
  /\ UNCHANGED <<queue, committed, persisted, config, config_generation, exporters,
                 exports_paused, flush_in_progress, work, exiting, delivered,
                 dropped, restarts>>

force_unpaused(w) == Kind[w] # "flush"

MayFlush(w) == ~exports_paused \/ force_unpaused(w)

PreparePaused(w) ==
  /\ at[w] = "prepare"
  /\ ~MayFlush(w)
  /\ at' = [at EXCEPT ![w] = "idle"]
  /\ UNCHANGED <<queue, committed, persisted, config, config_generation, exporters,
                 exports_paused, flush_in_progress, work, exiting, delivered,
                 dropped, restarts>>

\* Mutant: a flush begins beside the one in progress.
MayStartBeside(w) == MayFlush(w)

\* A task that may flush waits, and looks again at both conditions every 10 ms,
\* while another flush is in progress.
MayStart(w) == MayFlush(w) /\ ~flush_in_progress

\* A flush returns to its caller; a shutdown drain stops at an error.
Return(w, ok) ==
  LET leaves == Kind[w] = "shutdown" /\ ~ok
  IN  /\ at' = [at EXCEPT ![w] = IF leaves THEN "gone" ELSE "idle"]
      /\ exiting' = (exiting \/ leaves)

\* Reading, decoding or processing the batch fails.
PrepareFails(w) ==
  /\ at[w] = "prepare"
  /\ MayStart(w)
  /\ Return(w, FALSE)
  /\ UNCHANGED <<queue, committed, persisted, config, config_generation, exporters,
                 exports_paused, flush_in_progress, work, delivered, dropped,
                 restarts>>

\* The queue is empty: a drain has reached its end and the process exits.  The
\* empty batch is committed when reading it has moved the cursor.
PrepareEmpty(w) ==
  /\ at[w] = "prepare"
  /\ MayStart(w)
  /\ committed = Len(queue)
  /\ persisted' \in {persisted, committed}
  /\ at' = [at EXCEPT ![w] = IF Kind[w] = "flush" THEN "idle" ELSE "gone"]
  /\ exiting' = (exiting \/ Kind[w] # "flush")
  /\ UNCHANGED <<queue, committed, config, config_generation, exporters,
                 exports_paused, flush_in_progress, work, delivered, dropped,
                 restarts>>

\* prepare_flush_work: the batch is read and processed, the exporters are moved
\* out of the runtime.
PrepareReady(w) ==
  /\ at[w] = "prepare"
  /\ MayStart(w)
  /\ committed < Len(queue)
  /\ flush_in_progress' = TRUE
  /\ \E records \in SUBSET (committed + 1 .. BatchEnd) :
       work' = [work EXCEPT ![w] =
         [first |-> committed + 1, last |-> BatchEnd, config |-> config,
          exporters |-> exporters, config_generation |-> config_generation,
          records |-> records,
          grouped |-> UNION {exporters_for(config, r) : r \in records},
          ok |-> FALSE]]
  /\ exporters' = Taken
  /\ at' = [at EXCEPT ![w] = "export"]
  /\ UNCHANGED <<queue, committed, persisted, config, config_generation, exports_paused,
                 exiting, delivered, dropped, restarts>>

-----------------------------------------------------------------------------
\* Mutant: records without a route are passed over.
AssumeRouted(w) == TRUE

\* Every record of the batch has a route.
Routed(w) == \A r \in work[w].records : exporters_for(work[w].config, r) # {}

Initialized(w, e) ==
  work[w].exporters # Taken /\ e \in Built[work[w].exporters.config]

Share(w, e) ==
  {<<e, r>> : r \in {r \in work[w].records : e \in exporters_for(work[w].config, r)}}

\* One exporter takes its share of the batch.
Export(w, e) ==
  /\ at[w] = "export"
  /\ Routed(w)
  /\ e \in work[w].grouped
  /\ Initialized(w, e)
  /\ delivered' = delivered \cup Share(w, e)
  /\ work' = [work EXCEPT ![w].grouped = @ \ {e}]
  /\ UNCHANGED <<queue, committed, persisted, config, config_generation, exporters,
                 exports_paused, flush_in_progress, at, exiting, dropped, restarts>>

ExportError(w, next) ==
  /\ at[w] = "export"
  /\ \/ ~Routed(w) /\ UNCHANGED delivered
     \/ /\ Routed(w)
        /\ \E e \in work[w].grouped :
             IF Initialized(w, e)
             THEN delivered' \in {delivered, delivered \cup Share(w, e)}
             ELSE UNCHANGED delivered
  /\ at' = [at EXCEPT ![w] = next]
  /\ UNCHANGED <<queue, committed, persisted, config, config_generation, exporters,
                 exports_paused, flush_in_progress, work, exiting, dropped, restarts>>

\* Mutant: the error is returned before the mutex is taken again.
ExportFailsEarly(w) == ExportError(w, "idle")

\* An exporter fails its last attempt, perhaps after taking the records (its
\* answer timed out); or a record has no route.
ExportFails(w) == ExportError(w, "finish")

ExportDone(w) ==
  /\ at[w] = "export"
  /\ Routed(w)
  /\ work[w].grouped = {}
  /\ work' = [work EXCEPT ![w].ok = TRUE]
  /\ at' = [at EXCEPT ![w] = "finish"]
  /\ UNCHANGED <<queue, committed, persisted, config, config_generation, exporters,
                 exports_paused, flush_in_progress, exiting, delivered, dropped,
                 restarts>>

\* Mutant: the exporters are put back whatever happened meanwhile.
PutBack(w) == work[w].exporters

ExportersAfter(w) ==
  IF config_generation = work[w].config_generation
  THEN work[w].exporters ELSE exporters

\* The second half of flush_shared_inner, under the mutex again.  A commit that
\* fails has moved the cursor in memory; which of the consumed segments it had
\* already removed decides where a restart begins.
Finish(w) ==
  /\ at[w] = "finish"
  /\ exporters' = ExportersAfter(w)
  /\ flush_in_progress' = FALSE
  /\ \/ /\ ~work[w].ok
        /\ UNCHANGED <<committed, persisted, dropped>>
        /\ Return(w, FALSE)
     \/ /\ work[w].ok
        /\ committed' = work[w].last
        /\ dropped' = dropped \cup ((work[w].first .. work[w].last) \ work[w].records)
        /\ \/ persisted' = work[w].last /\ Return(w, TRUE)
           \/ persisted' \in persisted .. work[w].last /\ Return(w, FALSE)
  /\ work' = [work EXCEPT ![w] = NoWork]
  /\ UNCHANGED <<queue, config, config_generation, exports_paused, delivered, restarts>>

\* The deadline of drain_for_shutdown drops the flush at an await: the exporters
\* it took are gone and flush_in_progress stays set.  The process ends next.
DrainTimeout(w) ==
  /\ Kind[w] = "shutdown"
  /\ at[w] # "gone"
  /\ at' = [at EXCEPT ![w] = "gone"]
  /\ work' = [work EXCEPT ![w] = NoWork]
  /\ exiting' = TRUE
  /\ UNCHANGED <<queue, committed, persisted, config, config_generation, exporters,
                 exports_paused, flush_in_progress, delivered, dropped, restarts>>

\* The process ends, by itself or by a crash, and is started again: only the
\* queue and its cursor file survive.
Restart ==
  /\ restarts < MaxRestarts
  /\ restarts' = restarts + 1
  /\ config' = StartConfig
  /\ config_generation' = 0
  /\ exporters' = build_exporters(StartConfig, 0)
  /\ exports_paused' = FALSE
  /\ flush_in_progress' = FALSE
  /\ at' = [w \in Workers |-> "idle"]
  /\ work' = [w \in Workers |-> NoWork]
  /\ exiting' = FALSE
  /\ committed' = persisted
  /\ UNCHANGED <<queue, persisted, delivered, dropped>>

-----------------------------------------------------------------------------
FlushStep(w) ==
  \/ CallFlush(w) \/ PreparePaused(w) \/ PrepareFails(w) \/ PrepareEmpty(w)
  \/ PrepareReady(w)
  \/ (\E e \in Exporters : Export(w, e))
  \/ ExportFails(w) \/ ExportDone(w) \/ Finish(w) \/ DrainTimeout(w)

Next ==
  \/ \E s \in Signals : Ingest(s)
  \/ pause_exports
  \/ resume_exports
  \/ \E c \in Configs : reload_config(c)
  \/ \E w \in Workers : FlushStep(w)
  \/ Restart

Spec == Init /\ [][Next]_vars

\* Tasks run: the interval of the flush worker ticks, tokio polls every task
\* that is ready, and a process that exits is started again.
Fairness ==
  /\ \A w \in Workers :
       WF_vars(\/ (Kind[w] = "flush" /\ CallFlush(w))
               \/ PreparePaused(w) \/ PrepareEmpty(w) \/ PrepareReady(w)
               \/ (\E e \in Exporters : Export(w, e))
               \/ ExportFails(w) \/ ExportDone(w) \/ Finish(w))
  /\ WF_vars(exiting /\ Restart)

FairSpec == Spec /\ Fairness

-----------------------------------------------------------------------------
Places == {"idle", "prepare", "export", "finish", "gone"}

RuntimeType ==
  /\ queue \in Seq(Signals)
  /\ committed \in Nat
  /\ persisted \in Nat
  /\ config \in Configs
  /\ config_generation \in Nat
  /\ exporters \in ExporterMap \cup {Taken}
  /\ exports_paused \in BOOLEAN
  /\ flush_in_progress \in BOOLEAN

TaskType ==
  /\ at \in [Workers -> Places]
  /\ work \in [Workers -> PreparedFlush]
  /\ exiting \in BOOLEAN

HistoryType ==
  /\ delivered \subseteq Exporters \X Nat
  /\ dropped \subseteq Nat
  /\ restarts \in Nat

TypeOK == RuntimeType /\ TaskType /\ HistoryType

Busy(w) == at[w] \in {"export", "finish"}

\* The batch of a flush that has left the mutex is still the next one of the
\* queue when the flush comes back, and nobody else works on it: no two flushes
\* overlap, so none commits past records another one failed to export.
BatchStaysNext ==
  \A w \in Workers : Busy(w) =>
    /\ work[w].first = committed + 1
    /\ work[w].last \in work[w].first .. Len(queue)
    /\ \A v \in Workers : Busy(v) => v = w

\* Between flushes the exporters of the runtime are those built for the
\* configuration in force: a flush that took the old ones does not put them back
\* over the ones reload_config installed meanwhile.
ExportersCurrent ==
  ~flush_in_progress => exporters = build_exporters(config, config_generation)

\* export_records finds every exporter its routes name: the map a flush took
\* belongs to the configuration it cloned.
NeverUninitialized ==
  \A w \in Workers : at[w] = "export" =>
    \A e \in work[w].grouped : Initialized(w, e)

\* Every committed record was dropped by the processors or taken by all the
\* exporters one configuration routes it to, whatever failed, was reloaded or
\* restarted on the way.
AtLeastOnce ==
  \A r \in 1..committed :
    \/ r \in dropped
    \/ \E c \in Configs :
         /\ exporters_for(c, r) # {}
         /\ \A e \in exporters_for(c, r) : <<e, r>> \in delivered

\* flush_in_progress is released on every path but the deadline of the shutdown
\* drain, which ends the process: no flush waits for one that is gone.
FlagHeld == flush_in_progress => exiting \/ \E w \in Workers : Busy(w)

\* Under a pause only the drains commit: the flush worker finishes at most the
\* flush it had begun.
PauseHolds ==
  [][\A w \in Workers :
       exports_paused /\ Kind[w] = "flush" /\ ~Busy(w) => ~Busy(w)']_vars

Recovered ==
  /\ <>[]~exports_paused
  /\ []<>~exiting
  /\ <>[][\A w \in Workers : ~ExportFails(w) /\ ~PrepareFails(w)]_vars

\* Once exporters and disk have recovered, exports are no longer paused and a
\* process that ends is started again, every accepted record is committed: neither
\* the 10 ms wait for another flush nor a reload, drain, deadline or restart at
\* the wrong moment leaves the queue unflushed.
AcceptedCommitted ==
  Recovered => \A r \in 1..MaxRecords : Len(queue) >= r ~> committed >= r
=============================================================================
