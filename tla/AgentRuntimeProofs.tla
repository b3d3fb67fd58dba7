------------------------- MODULE AgentRuntimeProofs -------------------------
(***************************************************************************)
(* Safety of the flush protocol for any number of tasks, configurations,   *)
(* exporters and records, and any batch size.                              *)
(*                                                                         *)
(* AtLeastOnce alone is not inductive: that a commit is right depends on   *)
(* what the flush did while it was outside the mutex.  IInv adds what a    *)
(* flush under way (Busy) may rely on: it is alone, its batch is still the *)
(* next one, the exporters it holds belong to the configuration it cloned, *)
(* and what it has ticked off in `grouped' was delivered.                  *)
(***************************************************************************)
EXTENDS AgentRuntime, TLAPS

Bounds == persisted <= committed /\ committed <= Len(queue)

Alone ==
  \A w \in Workers : Busy(w) =>
    /\ flush_in_progress
    /\ \A v \in Workers : Busy(v) => v = w

InBatch ==
  \A w \in Workers : Busy(w) =>
    /\ work[w].first = committed + 1
    /\ work[w].last \in work[w].first .. Len(queue)
    /\ work[w].records \subseteq work[w].first .. work[w].last

OwnExporters ==
  \A w \in Workers : Busy(w) =>
    /\ work[w].exporters = build_exporters(work[w].config, work[w].config_generation)
    /\ work[w].config_generation <= config_generation
    /\ IF work[w].config_generation = config_generation
       THEN work[w].config = config
       ELSE exporters = build_exporters(config, config_generation)

Accounted ==
  \A w \in Workers : Busy(w) =>
    /\ \A e \in work[w].grouped : \E r \in work[w].records :
         e \in exporters_for(work[w].config, r)
    /\ \A r \in work[w].records : \A e \in exporters_for(work[w].config, r) :
         e \in work[w].grouped \/ <<e, r>> \in delivered
    /\ work[w].ok => at[w] = "finish" /\ work[w].grouped = {} /\ Routed(w)

IInv ==
  /\ TypeOK
  /\ Bounds
  /\ Alone
  /\ FlagHeld
  /\ InBatch
  /\ ExportersCurrent
  /\ OwnExporters
  /\ Accounted
  /\ AtLeastOnce

-----------------------------------------------------------------------------
(***************************************************************************)
(* Type correctness.                                                       *)
(***************************************************************************)
USE RuntimeAssumption
\* The provers, and the seconds each may take, for a step that names none.
USE SMTT(30), Z3T(30), ZenonT(30)

\* Appending a record leaves the records already queued, and their routes, alone.
LEMMA AppendKeeps ==
  ASSUME NEW q \in Seq(Signals), NEW t \in Signals
  PROVE  /\ Append(q, t) \in Seq(Signals)
         /\ Len(Append(q, t)) = Len(q) + 1
         /\ \A r \in 1..Len(q) : Append(q, t)[r] = q[r]
  OBVIOUS

\* A task without a flush has well-typed work.
LEMMA NoWorkType == NoWork \in PreparedFlush
  BY DEF NoWork, PreparedFlush, Taken

\* Init establishes the type invariant.
LEMMA InitType == Init => TypeOK
<1> SUFFICES ASSUME Init PROVE TypeOK
  OBVIOUS
<1>1. RuntimeType
  <2>1. exporters \in ExporterMap
    BY DEF Init, build_exporters, ExporterMap
  <2>2. queue \in Seq(Signals) /\ config \in Configs
    BY DEF Init
  <2> QED
    BY <2>1, <2>2, ZenonT(30) DEF Init, RuntimeType
<1>2. TaskType
  BY NoWorkType, ZenonT(30) DEF Init, TaskType, Places
<1>3. HistoryType
  BY DEF Init, HistoryType
<1> QED
  BY <1>1, <1>2, <1>3 DEF TypeOK

\* Every step of every task preserves the type invariant.
LEMMA NextType == TypeOK /\ [Next]_vars => TypeOK'
<1> SUFFICES ASSUME TypeOK, [Next]_vars PROVE TypeOK'
  OBVIOUS
<1> USE DEF TypeOK
<1>1. ASSUME NEW t \in Signals, Ingest(t) PROVE TypeOK'
  BY <1>1, AppendKeeps DEF RuntimeType, TaskType, HistoryType, Ingest
<1>2. ASSUME NEW b \in BOOLEAN, SetPaused(b) PROVE TypeOK'
  BY <1>2 DEF RuntimeType, TaskType, HistoryType, SetPaused
<1>4. ASSUME NEW c \in Configs, reload_config(c) PROVE TypeOK'
  BY <1>4 DEF RuntimeType, TaskType, HistoryType, reload_config,
              next_generation, build_exporters, ExporterMap
<1>5. ASSUME NEW w \in Workers, FlushStep(w) PROVE TypeOK'
  <2>0. work[w] \in PreparedFlush
    BY DEF TaskType
  <2>1. CASE CallFlush(w)
    BY <2>1 DEF RuntimeType, TaskType, HistoryType, CallFlush, Places
  <2>2. CASE PreparePaused(w)
    BY <2>2 DEF RuntimeType, TaskType, HistoryType, PreparePaused, Places
  <2>3. CASE PrepareFails(w)
    BY <2>3 DEF RuntimeType, TaskType, HistoryType, PrepareFails, Return, Places
  <2>4. CASE PrepareEmpty(w)
    BY <2>4 DEF RuntimeType, TaskType, HistoryType, PrepareEmpty, Places
  <2>5. CASE PrepareReady(w)
    <3>1. RuntimeType' /\ HistoryType'
      BY <2>5 DEF RuntimeType, HistoryType, PrepareReady
    <3>2. TaskType'
      BY <2>5 DEF TaskType, RuntimeType, PrepareReady, Places, PreparedFlush,
                  BatchEnd, exporters_for
    <3> QED
      BY <3>1, <3>2
  <2>6. ASSUME NEW e \in Exporters, Export(w, e) PROVE TypeOK'
    <3>1. RuntimeType'
      BY <2>6 DEF RuntimeType, Export
    <3>2. TaskType'
      BY <2>6, <2>0, ZenonT(30) DEF TaskType, Export, PreparedFlush
    <3>3. HistoryType'
      BY <2>6, <2>0 DEF HistoryType, Export, Share, PreparedFlush
    <3> QED
      BY <3>1, <3>2, <3>3
  <2>7. CASE ExportFails(w)
    <3>1. RuntimeType'
      BY <2>7 DEF RuntimeType, ExportFails, ExportError
    <3>2. TaskType'
      BY <2>7 DEF TaskType, ExportFails, ExportError, Places
    <3>3. HistoryType'
      BY <2>7, <2>0 DEF HistoryType, ExportFails, ExportError, Share, PreparedFlush
    <3> QED
      BY <3>1, <3>2, <3>3
  <2>8. CASE ExportDone(w)
    <3>1. RuntimeType' /\ HistoryType'
      BY <2>8 DEF RuntimeType, HistoryType, ExportDone
    <3>2. TaskType'
      BY <2>8, <2>0, ZenonT(30) DEF TaskType, ExportDone, Places, PreparedFlush
    <3> QED
      BY <3>1, <3>2
  <2>9. CASE Finish(w)
    <3>1. RuntimeType'
      <4>1. /\ work[w].last \in Nat
            /\ work[w].exporters \in ExporterMap \cup {Taken}
            /\ persisted \in Nat
        BY <2>0 DEF PreparedFlush, RuntimeType
      <4>2. persisted' \in Nat
        <5>1. \/ persisted' = persisted
              \/ persisted' = work[w].last
              \/ persisted' \in persisted .. work[w].last
          BY <2>9, ZenonT(30) DEF Finish
        <5> QED
          BY <4>1, <5>1
      <4>3. committed' \in Nat /\ exporters' \in ExporterMap \cup {Taken}
        BY <2>9, <4>1, ZenonT(30) DEF RuntimeType, Finish, ExportersAfter
      <4> QED
        BY <2>9, <4>2, <4>3, ZenonT(30) DEF RuntimeType, Finish
    <3>2. TaskType'
      <4>1. (\E ok \in BOOLEAN : Return(w, ok)) /\ work' = [work EXCEPT ![w] = NoWork]
        BY <2>9, ZenonT(30) DEF Finish
      <4> QED
        BY <4>1, NoWorkType DEF TaskType, Return, Places
    <3>3. HistoryType'
      <4>1. work[w].first \in Nat /\ work[w].last \in Nat
        BY <2>0 DEF PreparedFlush
      <4>2. (work[w].first .. work[w].last) \subseteq Nat
        BY <4>1
      <4> QED
        BY <2>9, <4>2, ZenonT(30) DEF HistoryType, Finish
    <3> QED
      BY <3>1, <3>2, <3>3
  <2>10. CASE DrainTimeout(w)
    BY <2>10, NoWorkType DEF RuntimeType, TaskType, HistoryType, DrainTimeout, Places
  <2> QED
    BY <1>5, <2>1, <2>2, <2>3, <2>4, <2>5, <2>6, <2>7, <2>8, <2>9, <2>10 DEF FlushStep
<1>6. CASE Restart
  <2>1. RuntimeType'
    BY <1>6, ZenonT(30) DEF RuntimeType, Restart, build_exporters, ExporterMap
  <2>2. TaskType'
    BY <1>6, NoWorkType, ZenonT(30) DEF TaskType, Restart, Places
  <2>3. HistoryType'
    BY <1>6 DEF HistoryType, Restart
  <2> QED
    BY <2>1, <2>2, <2>3
<1>7. CASE UNCHANGED vars
  BY <1>7 DEF RuntimeType, TaskType, HistoryType, vars
<1> QED
  BY <1>1, <1>2, <1>4, <1>5, <1>6, <1>7, ZenonT(30) DEF Next, pause_exports, resume_exports

-----------------------------------------------------------------------------
(***************************************************************************)
(* The inductive invariant, one lemma per kind of step.                    *)
(***************************************************************************)

\* A new record changes no batch under way and no record already committed.
LEMMA IngestIInv ==
  ASSUME IInv, NEW t \in Signals, Ingest(t), TypeOK'
  PROVE  IInv'
<1>1. /\ Len(queue') = Len(queue) + 1
      /\ \A r \in 1..Len(queue) : queue'[r] = queue[r]
  BY AppendKeeps DEF IInv, TypeOK, RuntimeType, Ingest
<1>2. /\ Len(queue) \in Nat /\ committed \in Nat /\ persisted \in Nat
      /\ persisted <= committed /\ committed <= Len(queue)
  BY DEF IInv, Bounds, TypeOK, RuntimeType
<1>3. \A w \in Workers : Busy(w)' <=> Busy(w)
  BY DEF Ingest, Busy
<1>4. /\ Bounds'
      /\ Alone' /\ FlagHeld' /\ ExportersCurrent' /\ OwnExporters'
  BY <1>1, <1>2, <1>3 DEF IInv, Bounds, Ingest, Alone, FlagHeld, ExportersCurrent,
                          OwnExporters, build_exporters
<1>5. InBatch'
  BY <1>1, <1>2, <1>3 DEF IInv, Ingest, InBatch
<1>6. \A c \in Configs : \A r \in 1..Len(queue) :
        exporters_for(c, r)' = exporters_for(c, r)
  BY <1>1 DEF exporters_for
<1>7. ASSUME NEW w \in Workers, Busy(w)
      PROVE  /\ work[w].records \subseteq 1..Len(queue)
             /\ work[w].config \in Configs
  <2>1. work[w] \in PreparedFlush
    BY DEF IInv, TypeOK, TaskType
  <2> QED
    BY <1>2, <1>7, <2>1 DEF IInv, InBatch, PreparedFlush
<1>8. Accounted'
  <2> SUFFICES ASSUME NEW w \in Workers, Busy(w)
               PROVE  /\ \A e \in work[w].grouped : \E r \in work[w].records :
                           e \in exporters_for(work[w].config, r)'
                      /\ \A r \in work[w].records :
                           \A e \in exporters_for(work[w].config, r)' :
                             e \in work[w].grouped \/ <<e, r>> \in delivered
                      /\ work[w].ok => /\ at[w] = "finish" /\ work[w].grouped = {}
                                       /\ \A r \in work[w].records :
                                            exporters_for(work[w].config, r)' # {}
    BY <1>3, ZenonT(30) DEF Ingest, Accounted, Routed, exporters_for
  <2>1. \A r \in work[w].records :
          exporters_for(work[w].config, r)' = exporters_for(work[w].config, r)
    BY <1>1, <1>7 DEF Ingest, exporters_for
  <2> QED
    BY <2>1 DEF IInv, Accounted, Routed
<1>9. AtLeastOnce'
  BY <1>2, <1>6 DEF IInv, Ingest, AtLeastOnce
<1> QED
  BY <1>4, <1>5, <1>8, <1>9 DEF IInv

\* A reload during a flush leaves the flush its own exporters and installs new
\* ones under a higher generation.
LEMMA ReloadIInv ==
  ASSUME IInv, NEW c \in Configs, reload_config(c), TypeOK'
  PROVE  IInv'
<1>1. config_generation \in Nat
  BY DEF IInv, TypeOK, RuntimeType
<1>2. \A w \in Workers : Busy(w)' <=> Busy(w)
  BY DEF reload_config, next_generation, Busy
<1>3. \A w \in Workers : work[w].config_generation \in Nat
  BY DEF IInv, TypeOK, TaskType, PreparedFlush
<1>4. OwnExporters'
  BY <1>1, <1>2, <1>3 DEF IInv, reload_config, next_generation, OwnExporters,
                          build_exporters
<1>5. ExportersCurrent'
  BY DEF reload_config, next_generation, ExportersCurrent
<1>6. Bounds' /\ Alone' /\ FlagHeld' /\ InBatch'
  BY <1>2 DEF IInv, Bounds, reload_config, Alone, FlagHeld, InBatch
<1>7. Accounted'
  BY <1>2 DEF IInv, reload_config, next_generation, Accounted, Routed, exporters_for
<1>8. AtLeastOnce'
  BY DEF IInv, reload_config, next_generation, AtLeastOnce, exporters_for
<1> QED
  BY <1>4, <1>5, <1>6, <1>7, <1>8 DEF IInv

\* Steps that touch neither the queue, the exporters nor a flush under way: a
\* pause, and the moves of a task between idle and prepare.
LEMMA QuietIInv ==
  ASSUME IInv, TypeOK',
         UNCHANGED <<queue, committed, config, config_generation, exporters,
                     flush_in_progress, work, delivered, dropped>>,
         persisted' \in {persisted, committed},
         exiting => exiting',
         \A w \in Workers : Busy(w)' <=> Busy(w),
         \A w \in Workers : Busy(w) => at'[w] = at[w]
  PROVE  IInv'
<1>1. /\ Bounds'
      /\ Alone' /\ FlagHeld' /\ InBatch' /\ ExportersCurrent' /\ OwnExporters'
  BY DEF IInv, Bounds, TypeOK, RuntimeType, Alone, FlagHeld, InBatch,
         ExportersCurrent, OwnExporters, build_exporters
<1>2. Accounted'
  BY DEF IInv, Accounted, Routed, exporters_for
<1>3. AtLeastOnce'
  BY DEF IInv, AtLeastOnce, exporters_for
<1> QED
  BY <1>1, <1>2, <1>3 DEF IInv

\* A flush that begins is alone, since flush_in_progress was clear, and takes
\* exporters that are current.
LEMMA PrepareReadyIInv ==
  ASSUME IInv, NEW w \in Workers, PrepareReady(w), TypeOK'
  PROVE  IInv'
<1>1. PICK records \in SUBSET (committed + 1 .. BatchEnd) :
        work' = [work EXCEPT ![w] =
          [first |-> committed + 1, last |-> BatchEnd, config |-> config,
           exporters |-> exporters, config_generation |-> config_generation,
           records |-> records,
           grouped |-> UNION {exporters_for(config, r) : r \in records},
           ok |-> FALSE]]
  BY ZenonT(30) DEF PrepareReady
<1>2. /\ at' = [at EXCEPT ![w] = "export"]
      /\ work \in [Workers -> PreparedFlush] /\ at \in [Workers -> Places]
      /\ committed \in Nat /\ Len(queue) \in Nat /\ config_generation \in Nat
      /\ committed < Len(queue)
  BY DEF PrepareReady, IInv, TypeOK, RuntimeType, TaskType
<1>3. /\ work'[w].first = committed + 1 /\ work'[w].last = BatchEnd
      /\ work'[w].config = config /\ work'[w].exporters = exporters
      /\ work'[w].config_generation = config_generation
      /\ work'[w].records = records /\ work'[w].ok = FALSE
      /\ work'[w].grouped = UNION {exporters_for(config, r) : r \in records}
  BY <1>1, <1>2
<1>4. \A v \in Workers : Busy(v)' <=> v = w
  BY <1>2 DEF PrepareReady, MayStart, IInv, Alone, Busy
<1>5. exporters = build_exporters(config, config_generation)
  BY DEF PrepareReady, MayStart, IInv, ExportersCurrent
<1>6. BatchEnd \in committed + 1 .. Len(queue)
  BY <1>2 DEF BatchEnd
<1>7. Alone' /\ FlagHeld' /\ ExportersCurrent' /\ Bounds'
  BY <1>2, <1>4 DEF PrepareReady, IInv, Bounds, Alone, FlagHeld, ExportersCurrent
<1>8. InBatch'
  BY <1>3, <1>4, <1>6, ZenonT(30) DEF PrepareReady, InBatch
<1>9. OwnExporters'
  BY <1>2, <1>3, <1>4, <1>5 DEF PrepareReady, OwnExporters, build_exporters
<1>10. Accounted'
  <2>1. \A e : e \in work'[w].grouped
               <=> \E r \in records : e \in exporters_for(config, r)
    BY <1>3
  <2>2. \A r : exporters_for(config, r)' = exporters_for(config, r)
    BY DEF PrepareReady, exporters_for
  <2> QED
    BY <1>3, <1>4, <2>1, <2>2, ZenonT(30) DEF PrepareReady, Accounted, exporters_for
<1>11. AtLeastOnce'
  BY DEF PrepareReady, IInv, AtLeastOnce, exporters_for
<1> QED
  BY <1>7, <1>8, <1>9, <1>10, <1>11 DEF IInv

\* What an exporter takes is delivered before its name leaves `grouped'.
LEMMA ExportIInv ==
  ASSUME IInv, NEW w \in Workers, NEW e \in Exporters, Export(w, e), TypeOK'
  PROVE  IInv'
<1>1. /\ work \in [Workers -> PreparedFlush]
      /\ work' = [work EXCEPT ![w].grouped = @ \ {e}]
  BY DEF Export, IInv, TypeOK, TaskType
<1>2. /\ work[w] \in PreparedFlush
      /\ work'[w] = [work[w] EXCEPT !.grouped = @ \ {e}]
      /\ \A v \in Workers : v # w => work'[v] = work[v]
  BY <1>1
<1>3. /\ work'[w].first = work[w].first /\ work'[w].last = work[w].last
      /\ work'[w].config = work[w].config /\ work'[w].exporters = work[w].exporters
      /\ work'[w].config_generation = work[w].config_generation
      /\ work'[w].records = work[w].records /\ work'[w].ok = work[w].ok
      /\ work'[w].grouped = work[w].grouped \ {e}
  BY <1>2 DEF PreparedFlush
<1>4. /\ \A v \in Workers : Busy(v)' <=> Busy(v)
      /\ \A v \in Workers : Busy(v) => v = w
  <2>1. Busy(w)
    BY DEF Export, Busy
  <2> QED
    BY <2>1 DEF Export, Busy, IInv, Alone
<1>5. /\ Bounds' /\ Alone' /\ FlagHeld' /\ ExportersCurrent'
  BY <1>4 DEF Export, IInv, Bounds, Alone, FlagHeld, ExportersCurrent
<1>6. InBatch'
  BY <1>3, <1>4 DEF Export, IInv, InBatch
<1>7. OwnExporters'
  BY <1>3, <1>4 DEF Export, IInv, OwnExporters, build_exporters
<1>8. Accounted'
  <2>1. \A r \in work[w].records :
          e \in exporters_for(work[w].config, r) => <<e, r>> \in delivered'
    BY DEF Export, Share
  <2>2. Busy(w) /\ ~work[w].ok /\ delivered \subseteq delivered'
    BY DEF Export, Busy, IInv, Accounted
  <2> QED
    BY <1>3, <1>4, <2>1, <2>2 DEF Export, IInv, Accounted, exporters_for
<1>9. AtLeastOnce'
  BY DEF Export, IInv, AtLeastOnce, exporters_for
<1> QED
  BY <1>5, <1>6, <1>7, <1>8, <1>9 DEF IInv

\* A failed export may have delivered something, and commits nothing.
LEMMA ExportFailsIInv ==
  ASSUME IInv, NEW w \in Workers, ExportFails(w), TypeOK'
  PROVE  IInv'
<1>1. delivered \subseteq delivered'
  BY DEF ExportFails, ExportError
<1>2. /\ at \in [Workers -> Places] /\ at' = [at EXCEPT ![w] = "finish"]
      /\ at[w] = "export"
  BY DEF ExportFails, ExportError, IInv, TypeOK, TaskType
<1>3. \A v \in Workers : Busy(v)' <=> Busy(v)
  BY <1>2 DEF Busy
<1>4. /\ Bounds' /\ Alone' /\ FlagHeld' /\ ExportersCurrent'
      /\ InBatch' /\ OwnExporters'
  BY <1>3 DEF ExportFails, ExportError, IInv, Bounds, Alone, FlagHeld,
              ExportersCurrent, InBatch, OwnExporters, build_exporters
<1>5. Accounted'
  <2>1. UNCHANGED <<queue, work>> /\ Accounted
    BY DEF ExportFails, ExportError, IInv
  <2>2. \A v \in Workers : Busy(v) /\ at[v] = "finish" => at'[v] = "finish"
    BY <1>2
  <2> QED
    BY <1>1, <1>3, <2>1, <2>2 DEF Accounted, Routed, exporters_for
<1>6. AtLeastOnce'
  BY <1>1 DEF ExportFails, ExportError, IInv, AtLeastOnce, exporters_for
<1> QED
  BY <1>4, <1>5, <1>6 DEF IInv

\* A flush whose `grouped' is empty has delivered its whole batch.
LEMMA ExportDoneIInv ==
  ASSUME IInv, NEW w \in Workers, ExportDone(w), TypeOK'
  PROVE  IInv'
<1>1. /\ at \in [Workers -> Places] /\ at' = [at EXCEPT ![w] = "finish"]
      /\ at[w] = "export"
      /\ work \in [Workers -> PreparedFlush]
      /\ work' = [work EXCEPT ![w].ok = TRUE]
  BY DEF ExportDone, IInv, TypeOK, TaskType
<1>2. work[w] \in PreparedFlush /\ work'[w] = [work[w] EXCEPT !.ok = TRUE]
  BY <1>1
<1>3. /\ work'[w].first = work[w].first /\ work'[w].last = work[w].last
      /\ work'[w].config = work[w].config /\ work'[w].exporters = work[w].exporters
      /\ work'[w].config_generation = work[w].config_generation
      /\ work'[w].records = work[w].records
      /\ work'[w].grouped = work[w].grouped
  BY <1>2 DEF PreparedFlush
<1>4. /\ \A v \in Workers : Busy(v)' <=> Busy(v)
      /\ \A v \in Workers : Busy(v) => v = w
  <2>1. Busy(w)
    BY <1>1 DEF Busy
  <2> QED
    BY <1>1, <2>1 DEF Busy, IInv, Alone
<1>5. /\ Bounds' /\ Alone' /\ FlagHeld' /\ ExportersCurrent'
  BY <1>4 DEF ExportDone, IInv, Bounds, Alone, FlagHeld, ExportersCurrent
<1>6. InBatch'
  BY <1>3, <1>4 DEF ExportDone, IInv, InBatch
<1>7. OwnExporters'
  BY <1>3, <1>4 DEF ExportDone, IInv, OwnExporters, build_exporters
<1>8. Accounted'
  BY <1>1, <1>3, <1>4 DEF ExportDone, IInv, Accounted, Routed, exporters_for
<1>9. AtLeastOnce'
  BY DEF ExportDone, IInv, AtLeastOnce, exporters_for
<1> QED
  BY <1>5, <1>6, <1>7, <1>8, <1>9 DEF IInv

\* The commit: everything in the batch was dropped or delivered, and the
\* exporters that come back are current or stay away.
LEMMA FinishIInv ==
  ASSUME IInv, NEW w \in Workers, Finish(w), TypeOK'
  PROVE  IInv'
<1>1. /\ at \in [Workers -> Places] /\ at[w] = "finish"
      /\ at'[w] \in {"idle", "gone"}
      /\ \A v \in Workers : v # w => at'[v] = at[v]
      /\ committed \in Nat /\ persisted \in Nat /\ Len(queue) \in Nat
  BY DEF Finish, Return, IInv, TypeOK, TaskType, RuntimeType
<1>2. Busy(w) /\ \A v \in Workers : ~Busy(v)'
  <2>1. Busy(w)
    BY <1>1 DEF Busy
  <2>2. \A v \in Workers : v # w => ~Busy(v)
    BY <2>1 DEF IInv, Alone
  <2> QED
    BY <1>1, <2>1, <2>2 DEF Busy
<1>3. Alone' /\ FlagHeld' /\ InBatch' /\ OwnExporters' /\ Accounted'
  BY <1>2, ZenonT(30) DEF Finish, Alone, FlagHeld, InBatch, OwnExporters, Accounted
<1>4. /\ work[w].first = committed + 1
      /\ work[w].last \in work[w].first .. Len(queue)
      /\ work[w].config \in Configs
  BY <1>2 DEF IInv, InBatch, TypeOK, TaskType, PreparedFlush
<1>5. Bounds'
  <2>1. persisted <= committed /\ committed <= Len(queue)
    BY DEF IInv, Bounds
  <2>2. CASE ~work[w].ok
    BY <2>1, <2>2, ZenonT(30) DEF Finish, Bounds
  <2>3. CASE work[w].ok
    <3>1. /\ committed' = work[w].last /\ queue' = queue
          /\ \/ persisted' = work[w].last
             \/ persisted' \in persisted .. work[w].last
      BY <2>3, ZenonT(30) DEF Finish
    <3> QED
      BY <1>1, <1>4, <3>1 DEF Bounds
  <2> QED
    BY <2>2, <2>3
<1>6. ExportersCurrent'
  BY <1>2, ZenonT(30) DEF Finish, ExportersAfter, IInv, OwnExporters, ExportersCurrent, build_exporters
<1>7. AtLeastOnce'
  <2>1. CASE ~work[w].ok
    BY <2>1, ZenonT(30) DEF Finish, IInv, AtLeastOnce, exporters_for
  <2>2. CASE work[w].ok
    <3>1. \A r \in work[w].records :
            /\ exporters_for(work[w].config, r) # {}
            /\ \A e \in exporters_for(work[w].config, r) : <<e, r>> \in delivered
      BY <1>2, <2>2 DEF IInv, Accounted, Routed
    <3>2. /\ committed' = work[w].last
          /\ dropped' = dropped \cup ((work[w].first .. work[w].last) \ work[w].records)
          /\ UNCHANGED <<queue, delivered>>
      BY <2>2 DEF Finish
    <3> SUFFICES ASSUME NEW r \in 1 .. work[w].last, r \notin dropped'
                 PROVE  \E c \in Configs :
                          /\ exporters_for(c, r) # {}
                          /\ \A e \in exporters_for(c, r) : <<e, r>> \in delivered
      BY <3>2 DEF AtLeastOnce, exporters_for
    <3>3. CASE r <= committed
      BY <1>1, <3>2, <3>3 DEF IInv, AtLeastOnce
    <3>4. CASE r > committed
      <4>1. r \in work[w].records
        BY <1>1, <1>4, <3>2, <3>4
      <4> QED
        BY <1>4, <3>1, <4>1
    <3>5. r <= committed \/ r > committed
      BY <1>1, <1>4
    <3> QED
      BY <3>3, <3>4, <3>5
  <2> QED
    BY <2>1, <2>2
<1> QED
  BY <1>3, <1>5, <1>6, <1>7 DEF IInv

\* The deadline of the shutdown drain leaves the flag set, but announces the
\* end of the process.
LEMMA DrainTimeoutIInv ==
  ASSUME IInv, NEW w \in Workers, DrainTimeout(w), TypeOK'
  PROVE  IInv'
<1>1. \A v \in Workers :
        /\ Busy(v)' => Busy(v)
        /\ Busy(v)' => at'[v] = at[v] /\ work'[v] = work[v]
  BY DEF DrainTimeout, Busy, IInv, TypeOK, TaskType
<1>2. /\ Bounds' /\ Alone' /\ FlagHeld' /\ ExportersCurrent'
  BY <1>1 DEF DrainTimeout, IInv, Bounds, Alone, FlagHeld, ExportersCurrent
<1>3. InBatch' /\ OwnExporters'
  BY <1>1 DEF DrainTimeout, IInv, InBatch, OwnExporters, build_exporters
<1>4. Accounted'
  <2>1. UNCHANGED <<queue, delivered>> /\ Accounted
    BY DEF DrainTimeout, IInv
  <2>2. \A v \in Workers : Busy(v)' => (Routed(v)' <=> Routed(v))
    BY <1>1, <2>1, ZenonT(30) DEF Routed, exporters_for
  <2> QED
    BY <1>1, <2>1, <2>2 DEF Accounted, exporters_for
<1>5. AtLeastOnce'
  BY DEF DrainTimeout, IInv, AtLeastOnce, exporters_for
<1> QED
  BY <1>2, <1>3, <1>4, <1>5 DEF IInv

\* A restart forgets every flush, and goes back to the cursor on disk, which is
\* never ahead of the one in memory.
LEMMA RestartIInv ==
  ASSUME IInv, Restart, TypeOK'
  PROVE  IInv'
<1>1. \A v \in Workers : ~Busy(v)'
  BY DEF Restart, Busy
<1>2. /\ Alone' /\ FlagHeld' /\ InBatch' /\ OwnExporters' /\ Accounted'
  BY <1>1, ZenonT(30) DEF Restart, Alone, FlagHeld, InBatch, OwnExporters, Accounted
<1>3. /\ committed' = persisted /\ persisted' = persisted /\ persisted <= committed
      /\ committed <= Len(queue) /\ queue' = queue
      /\ persisted \in Nat /\ committed \in Nat /\ Len(queue) \in Nat
  BY DEF Restart, IInv, Bounds, TypeOK, RuntimeType
<1>4. ExportersCurrent' /\ Bounds'
  BY <1>3 DEF Restart, ExportersCurrent, Bounds
<1>5. AtLeastOnce'
  BY <1>3 DEF Restart, IInv, AtLeastOnce, exporters_for
<1> QED
  BY <1>2, <1>4, <1>5 DEF IInv

\* The state AgentRuntime::open leaves satisfies the invariant.
LEMMA InitIInv == Init => IInv
<1> SUFFICES ASSUME Init PROVE IInv
  OBVIOUS
<1>1. TypeOK
  BY InitType
<1>2. \A w \in Workers : ~Busy(w)
  BY DEF Init, Busy
<1>3. Alone /\ FlagHeld /\ InBatch /\ OwnExporters /\ Accounted
  BY <1>2 DEF Init, Alone, FlagHeld, InBatch, OwnExporters, Accounted
<1>4. Bounds /\ ExportersCurrent /\ AtLeastOnce
  BY DEF Init, Bounds, ExportersCurrent, AtLeastOnce
<1> QED
  BY <1>1, <1>3, <1>4 DEF IInv

\* Every step of the runtime and of its tasks preserves the invariant.
LEMMA NextIInv == IInv /\ [Next]_vars => IInv'
<1> SUFFICES ASSUME IInv, [Next]_vars PROVE IInv'
  OBVIOUS
<1>0. TypeOK /\ TypeOK'
  BY NextType DEF IInv
<1>1. ASSUME NEW t \in Signals, Ingest(t) PROVE IInv'
  BY <1>0, <1>1, IngestIInv
<1>2. ASSUME NEW b \in BOOLEAN, SetPaused(b) PROVE IInv'
  BY <1>0, <1>2, QuietIInv DEF SetPaused, Busy
<1>3. ASSUME NEW c \in Configs, reload_config(c) PROVE IInv'
  BY <1>0, <1>3, ReloadIInv
<1>4. ASSUME NEW w \in Workers, FlushStep(w) PROVE IInv'
  <2>1. CASE CallFlush(w) \/ PreparePaused(w) \/ PrepareFails(w) \/ PrepareEmpty(w)
    <3>0. exiting => exiting'
      BY <2>1, ZenonT(30) DEF CallFlush, PreparePaused, PrepareFails, Return, PrepareEmpty
    <3>1. /\ UNCHANGED <<queue, committed, config, config_generation, exporters,
                         flush_in_progress, work, delivered, dropped>>
          /\ persisted' \in {persisted, committed}
      BY <2>1, ZenonT(30) DEF CallFlush, PreparePaused, PrepareFails, PrepareEmpty
    <3>2. /\ at[w] \in {"idle", "prepare"}
          /\ at'[w] \in {"idle", "prepare", "gone"}
          /\ \A v \in Workers : v # w => at'[v] = at[v]
      BY <1>0, <2>1 DEF TypeOK, TaskType, CallFlush, PreparePaused, PrepareFails,
                        Return, PrepareEmpty
    <3>3. \A v \in Workers :
            /\ Busy(v)' <=> Busy(v)
            /\ Busy(v) => at'[v] = at[v]
      BY <3>2 DEF Busy
    <3> QED
      BY <1>0, <3>0, <3>1, <3>3, QuietIInv
  <2>2. CASE PrepareReady(w)
    BY <1>0, <2>2, PrepareReadyIInv
  <2>3. ASSUME NEW e \in Exporters, Export(w, e) PROVE IInv'
    BY <1>0, <2>3, ExportIInv
  <2>4. CASE ExportFails(w)
    BY <1>0, <2>4, ExportFailsIInv
  <2>5. CASE ExportDone(w)
    BY <1>0, <2>5, ExportDoneIInv
  <2>6. CASE Finish(w)
    BY <1>0, <2>6, FinishIInv
  <2>7. CASE DrainTimeout(w)
    BY <1>0, <2>7, DrainTimeoutIInv
  <2> QED
    BY <1>4, <2>1, <2>2, <2>3, <2>4, <2>5, <2>6, <2>7 DEF FlushStep
<1>5. CASE Restart
  BY <1>0, <1>5, RestartIInv
<1>6. CASE UNCHANGED vars
  BY <1>0, <1>6, QuietIInv DEF vars, Busy
<1> QED
  BY <1>1, <1>2, <1>3, <1>4, <1>5, <1>6, ZenonT(30) DEF Next, pause_exports, resume_exports

-----------------------------------------------------------------------------
\* The invariant holds throughout.
LEMMA Inductive == Spec => []IInv
  BY InitIInv, NextIInv, PTL DEF Spec

\* The runtime's fields and the tasks' work keep their types.
THEOREM TypeCorrect == Spec => []TypeOK
<1>1. IInv => TypeOK
  BY DEF IInv
<1> QED
  BY Inductive, <1>1, PTL

\* No record is committed that was neither dropped by the processors nor taken
\* by all the exporters one configuration routes it to.
THEOREM AtLeastOnceHolds == Spec => []AtLeastOnce
<1>1. IInv => AtLeastOnce
  BY DEF IInv
<1> QED
  BY Inductive, <1>1, PTL

\* Flushes do not overlap, and a batch is still the next one when it is committed.
THEOREM BatchStaysNextHolds == Spec => []BatchStaysNext
<1>1. IInv => BatchStaysNext
  BY DEF IInv, Alone, InBatch, BatchStaysNext
<1> QED
  BY Inductive, <1>1, PTL

\* Between flushes the runtime holds the exporters of the configuration in force.
THEOREM ExportersCurrentHolds == Spec => []ExportersCurrent
<1>1. IInv => ExportersCurrent
  BY DEF IInv
<1> QED
  BY Inductive, <1>1, PTL

\* A flush finds every exporter its routes name, because validate() lets no route
\* name an undeclared one and the map it took fits the configuration it cloned.
THEOREM NeverUninitializedHolds == Spec => []NeverUninitialized
<1>1. IInv => NeverUninitialized
  <2> SUFFICES ASSUME IInv, NEW w \in Workers, at[w] = "export",
                      NEW e \in work[w].grouped
               PROVE  Initialized(w, e)
    BY DEF NeverUninitialized
  <2>1. Busy(w) /\ work[w] \in PreparedFlush /\ queue \in Seq(Signals)
    BY DEF Busy, IInv, TypeOK, TaskType, RuntimeType
  <2>2. PICK r \in work[w].records : e \in exporters_for(work[w].config, r)
    BY <2>1 DEF IInv, Accounted
  <2>3. r \in 1..Len(queue)
    BY <2>1 DEF IInv, InBatch, TypeOK, RuntimeType
  <2>4. work[w].config \in Configs /\ queue[r] \in Signals
    BY <2>1, <2>3 DEF PreparedFlush
  <2>5. e \in Built[work[w].config]
    BY <2>2, <2>4, ValidConfigs DEF exporters_for, validate
  <2>6. /\ work[w].exporters = build_exporters(work[w].config, work[w].config_generation)
        /\ work[w].config_generation \in Nat
    BY <2>1 DEF IInv, OwnExporters, PreparedFlush
  <2> QED
    BY <2>5, <2>6 DEF Initialized, build_exporters, Taken
<1> QED
  BY Inductive, <1>1, PTL

\* flush_in_progress is only left set by the deadline that ends the process.
THEOREM FlagHeldHolds == Spec => []FlagHeld
<1>1. IInv => FlagHeld
  BY DEF IInv
<1> QED
  BY Inductive, <1>1, PTL

\* While exports are paused the flush worker begins no flush, at whatever point
\* of its waiting loop the pause found it.
THEOREM PauseHoldsHolds == Spec => PauseHolds
<1>1. ASSUME TypeOK, [Next]_vars,
             NEW w \in Workers, exports_paused, Kind[w] = "flush", ~Busy(w)
      PROVE  ~Busy(w)'
  <2>0. at \in [Workers -> Places]
    BY <1>1 DEF TypeOK, TaskType
  <2>1. CASE \/ \E t \in Signals : Ingest(t)
             \/ pause_exports \/ resume_exports
             \/ \E c \in Configs : reload_config(c)
             \/ Restart \/ UNCHANGED vars
    BY <1>1, <2>1, ZenonT(30) DEF Busy, Ingest, pause_exports, resume_exports, SetPaused,
                      reload_config, next_generation, Restart, vars
  <2>2. ASSUME NEW v \in Workers, FlushStep(v) PROVE ~Busy(w)'
    <3>1. CASE v # w
      <4>1. at'[w] = at[w]
        BY <2>0, <2>2, <3>1 DEF FlushStep, CallFlush, PreparePaused, PrepareFails,
             PrepareEmpty, PrepareReady, Return, Export, ExportFails, ExportError,
             ExportDone, Finish, DrainTimeout
      <4> QED
        BY <1>1, <4>1 DEF Busy
    <3>2. CASE v = w
      <4>1. ~PrepareReady(w)
        BY <1>1 DEF PrepareReady, MayStart, MayFlush, force_unpaused
      <4>2. at'[w] \in {"idle", "prepare", "gone"}
        BY <1>1, <2>0, <2>2, <3>2, <4>1, ZenonT(30) DEF FlushStep, CallFlush, PreparePaused,
             PrepareFails, PrepareEmpty, Return, Export, ExportFails, ExportError,
             ExportDone, Finish, DrainTimeout, Busy
      <4> QED
        BY <4>2 DEF Busy
    <3> QED
      BY <3>1, <3>2
  <2> QED
    BY <1>1, <2>1, <2>2 DEF Next
<1>2. TypeOK /\ [Next]_vars =>
        [\A w \in Workers :
           exports_paused /\ Kind[w] = "flush" /\ ~Busy(w) => ~Busy(w)']_vars
  BY <1>1
<1> QED
  BY TypeCorrect, <1>2, PTL DEF Spec, PauseHolds
=============================================================================
