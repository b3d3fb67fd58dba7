------------------------ MODULE AcknowledgedProofs -------------------------
(***************************************************************************)
(* What was acknowledged is where it should be.  What a file-backed store  *)
(* of the control plane has answered is on file (FileStores); and a batch  *)
(* is committed only when every exporter its routes name has it (Export).  *)
(***************************************************************************)
EXTENDS FileStores, Export, FiniteSetTheorems, TLAPS

-----------------------------------------------------------------------------
(***************************************************************************)
(* The file-backed stores for any contents and any number of calls and     *)
(* faults, as long as no process ends between the removal of the old file  *)
(* and the rename (cut): what was answered is durable, a version number    *)
(* stands for one content, and no version is on file without its audit     *)
(* event.                                                                  *)
(*                                                                         *)
(* None of the three is inductive.  IInv adds what a call under way has    *)
(* done and still has to do (PipelineCall, CommandCall, AuditCall), and    *)
(* that outside a replacement the file says what the process has in memory *)
(* (FilesOK): a restart then changes nothing.                              *)
(***************************************************************************)

Types ==
  /\ memory = [s \in Stores |-> memory[s]]
  /\ file = [s \in Stores |-> file[s]]
  /\ writing = [s \in Stores |-> writing[s]]
  /\ step \in [Stores -> {"idle", "write", "remove", "rename"}]
  /\ todo = [p \in Clients |-> todo[p]]
  /\ event = [p \in Clients |-> event[p]]
  /\ memory["pipelines"] \in Seq(Contents)
  /\ memory["commands"] \in Seq({"pending", "delivered"})

FilesOK ==
  \A s \in Stores :
    IF step[s] = "rename" THEN file[s] = {}
    ELSE file[s] = {memory[s]} \/ (file[s] = {} /\ memory[s] = default(s))

\* A call that publishes version Len + 1.
Publishes ==
  \E c \in Contents :
    /\ writing["pipelines"] = Append(memory["pipelines"], c)
    /\ event["pipelines"] = <<"pipeline", Len(memory["pipelines"]) + 1, c>>

PipelineCall ==
  \/ /\ todo["pipelines"] = <<>>
     /\ step["pipelines"] = "idle" /\ caller # "pipelines"
  \/ /\ todo["pipelines"] = <<"audit", "persist">> /\ Publishes
     /\ step["pipelines"] = "idle"
  \/ /\ todo["pipelines"] = <<"persist">> /\ Publishes
     /\ event["pipelines"] \in memory["audit"] /\ caller # "pipelines"

\* A call that adds a command, or changes the status of one.
Changes ==
  /\ writing["commands"] \in Seq({"pending", "delivered"})
  /\ DOMAIN memory["commands"] \subseteq DOMAIN writing["commands"]
  /\ \A i : event["commands"] = <<"enqueued", i>> => i \in DOMAIN writing["commands"]
  /\ \A v, c : event["commands"] # <<"pipeline", v, c>>

CommandCall ==
  \/ /\ todo["commands"] = <<>>
     /\ step["commands"] = "idle" /\ caller # "commands"
  \/ /\ todo["commands"] = <<"persist", "audit">> /\ Changes
     /\ caller # "commands"
  \/ /\ todo["commands"] = <<"audit">> /\ Changes
     /\ step["commands"] = "idle" /\ writing["commands"] = memory["commands"]

AuditCall ==
  /\ caller \in Clients \cup {None}
  /\ caller = None <=> step["audit"] = "idle"
  /\ caller # None =>
       /\ writing["audit"] = memory["audit"] \cup {event[caller]}
       /\ todo[caller] # <<>>

Told ==
  /\ \A v, c : <<"pipeline", v, c>> \in replied =>
       v \in DOMAIN memory["pipelines"] /\ memory["pipelines"][v] = c
  /\ \A i : <<"enqueued", i>> \in replied => i \in DOMAIN memory["commands"]

Audited ==
  \A v \in DOMAIN memory["pipelines"] :
    <<"pipeline", v, memory["pipelines"][v]>> \in memory["audit"]

IInv ==
  /\ Types
  /\ FilesOK
  /\ PipelineCall
  /\ CommandCall
  /\ AuditCall
  /\ Told
  /\ Audited

-----------------------------------------------------------------------------
(* Sequences.                                                              *)

\* The provers, and the seconds each may take, for a step that names none.
USE SMTT(30), Z3T(30), ZenonT(30)

LEMMA SeqIs ==
  ASSUME NEW S, NEW x \in Seq(S)
  PROVE  Len(x) \in Nat /\ DOMAIN x = 1..Len(x) /\ x \in [1..Len(x) -> S]
OBVIOUS

LEMMA EmptyIs ==
  ASSUME NEW S
  PROVE  <<>> \in Seq(S) /\ Len(<<>>) = 0
OBVIOUS

LEMMA AppendIs ==
  ASSUME NEW S, NEW x \in Seq(S), NEW e \in S
  PROVE  /\ Append(x, e) \in Seq(S) /\ Append(x, e) # <<>> /\ Len(Append(x, e)) = Len(x) + 1
         /\ Append(x, e)[Len(x) + 1] = e /\ \A i \in 1..Len(x) : Append(x, e)[i] = x[i]
OBVIOUS

LEMMA ExceptIs ==
  ASSUME NEW S, NEW x \in Seq(S), NEW i \in 1..Len(x), NEW e \in S
  PROVE  /\ [x EXCEPT ![i] = e] \in Seq(S) /\ Len([x EXCEPT ![i] = e]) = Len(x)
         /\ \A j \in 1..Len(x) : [x EXCEPT ![i] = e][j] = IF j = i THEN e ELSE x[j]
OBVIOUS

-----------------------------------------------------------------------------
\* Outside a replacement, loading the file gives what is in memory.
LEMMA Loads ==
  ASSUME IInv, NEW s \in Stores, step[s] # "rename"
  PROVE  load(s) = memory[s]
BY DEF IInv, FilesOK, load

\* A restart that finds no file being replaced changes no store.
LEMMA RestartStep ==
  ASSUME IInv, NEW S \in SUBSET Stores, Restarted(S), UNCHANGED file,
         \A s \in S : step[s] # "rename",
         "audit" \in S => caller \in S \cup {None},
         caller \in S => "audit" \in S
  PROVE  IInv'
<1>1. /\ memory' = memory
      /\ UNCHANGED <<writing, event, replied>>
      /\ \A s \in Stores : step'[s] = IF s \in S THEN "idle" ELSE step[s]
      /\ \A p \in Clients : todo'[p] = IF p \in S THEN <<>> ELSE todo[p]
      /\ caller' = IF "audit" \in S THEN None ELSE caller
  <2>1. \A s \in Stores : (IF s \in S THEN load(s) ELSE memory[s]) = memory[s]
    BY Loads
  <2>2. memory' = memory
    BY <2>1 DEF Restarted, IInv, Types
  <2> QED
    BY <2>2 DEF Restarted, CallerAfter
<1>2. Types'
  BY <1>1 DEF IInv, Types, Restarted
<1>3. FilesOK'
  BY <1>1 DEF IInv, FilesOK, default
<1>4. PipelineCall'
  BY <1>1 DEF IInv, PipelineCall, Publishes, Clients, Stores, None
<1>5. CommandCall'
  BY <1>1 DEF IInv, CommandCall, Changes, Clients, Stores, None
<1>6. AuditCall'
  BY <1>1 DEF IInv, AuditCall, Clients, Stores, None
<1> QED
  BY <1>1, <1>2, <1>3, <1>4, <1>5, <1>6 DEF IInv, Told, Audited

-----------------------------------------------------------------------------
(* Calls.                                                                  *)

\* A call takes note of what it will do; the stores stay as they are.
LEMMA PublishStep ==
  ASSUME IInv, NEW c \in Contents,
         Handle("pipelines", Append(memory["pipelines"], c),
                <<"pipeline", Len(memory["pipelines"]) + 1, c>>)
  PROVE  IInv'
<1>1. /\ UNCHANGED <<memory, file, step, caller, replied>>
      /\ todo["pipelines"] = <<>>
      /\ todo' = [todo EXCEPT !["pipelines"] = <<"audit", "persist">>]
      /\ writing' = [writing EXCEPT !["pipelines"] = Append(memory["pipelines"], c)]
      /\ event' = [event EXCEPT !["pipelines"] = <<"pipeline", Len(memory["pipelines"]) + 1, c>>]
  BY DEF Handle, Effects
<1>2. Types'
  BY <1>1, ZenonT(30) DEF IInv, Types, Clients, Stores
<1>3. PipelineCall'
  <2>1. /\ todo'["pipelines"] = <<"audit", "persist">>
        /\ writing'["pipelines"] = Append(memory["pipelines"], c)
        /\ event'["pipelines"] = <<"pipeline", Len(memory["pipelines"]) + 1, c>>
    BY <1>1 DEF IInv, Types, Clients, Stores
  <2>2. Publishes'
    BY <1>1, <2>1 DEF Publishes
  <2>3. step["pipelines"] = "idle"
    BY <1>1 DEF IInv, PipelineCall
  <2> QED
    BY <1>1, <2>1, <2>2, <2>3 DEF PipelineCall
<1>4. /\ todo'["commands"] = todo["commands"] /\ writing'["commands"] = writing["commands"]
      /\ event'["commands"] = event["commands"] /\ writing'["audit"] = writing["audit"]
      /\ caller # "pipelines"
  BY <1>1, ZenonT(30) DEF IInv, Types, Clients, Stores, AuditCall, None, PipelineCall
<1>5. CommandCall'
  BY <1>1, <1>4 DEF IInv, CommandCall, Changes
<1>6. AuditCall'
  BY <1>1, <1>4 DEF IInv, AuditCall, Clients, None
<1> QED
  BY <1>1, <1>2, <1>3, <1>5, <1>6 DEF IInv, FilesOK, default, Told, Audited

LEMMA CommandStep ==
  ASSUME IInv, NEW new \in Seq({"pending", "delivered"}), NEW e, Handle("commands", new, e),
         DOMAIN memory["commands"] \subseteq DOMAIN new,
         \A i : e = <<"enqueued", i>> => i \in DOMAIN new,
         \A v, c : e # <<"pipeline", v, c>>
  PROVE  IInv'
<1>1. /\ UNCHANGED <<memory, file, step, caller, replied>>
      /\ todo["commands"] = <<>>
      /\ todo' = [todo EXCEPT !["commands"] = <<"persist", "audit">>]
      /\ writing' = [writing EXCEPT !["commands"] = new]
      /\ event' = [event EXCEPT !["commands"] = e]
  BY DEF Handle, Effects
<1>2. Types'
  BY <1>1, ZenonT(30) DEF IInv, Types, Clients, Stores
<1>3. CommandCall'
  <2>1. /\ todo'["commands"] = <<"persist", "audit">>
        /\ writing'["commands"] = new /\ event'["commands"] = e
    BY <1>1 DEF IInv, Types, Clients, Stores
  <2>2. Changes'
    BY <1>1, <2>1, ZenonT(30) DEF Changes
  <2>3. caller # "commands"
    BY <1>1 DEF IInv, CommandCall
  <2> QED
    BY <1>1, <2>1, <2>2, <2>3 DEF CommandCall
<1>4. /\ todo'["pipelines"] = todo["pipelines"] /\ writing'["pipelines"] = writing["pipelines"]
      /\ event'["pipelines"] = event["pipelines"] /\ writing'["audit"] = writing["audit"]
      /\ caller # "commands"
  <2>1. caller # "commands"
    BY <1>1 DEF IInv, CommandCall
  <2> QED
    BY <1>1, <2>1, ZenonT(30) DEF IInv, Types, Clients, Stores
<1>5. PipelineCall'
  BY <1>1, <1>4 DEF IInv, PipelineCall, Publishes
<1>6. AuditCall'
  BY <1>1, <1>4 DEF IInv, AuditCall, Clients, None
<1> QED
  BY <1>1, <1>2, <1>3, <1>5, <1>6 DEF IInv, FilesOK, default, Told, Audited

LEMMA CallSteps ==
  ASSUME IInv,
         \/ \E c \in Contents : PutPipeline(c)
         \/ \E v \in 1..MaxVersions : RollbackPipeline(v)
         \/ EnqueueCommand
         \/ \E i \in 1..MaxCommands : DrainCommand(i)
  PROVE  IInv'
<1>0. memory["pipelines"] \in Seq(Contents) /\ memory["commands"] \in Seq({"pending", "delivered"})
  BY DEF IInv, Types
<1>1. ASSUME NEW c \in Contents, PutPipeline(c)
      PROVE  IInv'
  BY <1>1, PublishStep DEF PutPipeline
<1>2. ASSUME NEW v \in 1..MaxVersions, RollbackPipeline(v)
      PROVE  IInv'
  <2> DEFINE c == memory["pipelines"][v]
  <2>1. c \in Contents
    BY <1>0, <1>2, SeqIs DEF RollbackPipeline
  <2>2. Len(RolledBack(v)) = Len(memory["pipelines"]) + 1
    BY <1>0, <2>1, AppendIs DEF RolledBack
  <2> QED
    BY <1>2, <2>1, <2>2, PublishStep DEF RollbackPipeline, RolledBack
<1>3. CASE EnqueueCommand
  <2> DEFINE new == Append(memory["commands"], "pending")
             e == <<"enqueued", Len(memory["commands"]) + 1>>
  <2>1. /\ new \in Seq({"pending", "delivered"})
        /\ DOMAIN memory["commands"] \subseteq DOMAIN new
        /\ Len(memory["commands"]) + 1 \in DOMAIN new
    BY <1>0, AppendIs, SeqIs
  <2>2. \A i : e = <<"enqueued", i>> => i = Len(memory["commands"]) + 1
    OBVIOUS
  <2>3. \A v, c : e # <<"pipeline", v, c>>
    OBVIOUS
  <2>4. Handle("commands", new, e)
    BY <1>3 DEF EnqueueCommand
  <2> HIDE DEF new, e
  <2> QED
    BY <2>1, <2>2, <2>3, <2>4, CommandStep
<1>4. ASSUME NEW i \in 1..MaxCommands, DrainCommand(i)
      PROVE  IInv'
  <2> DEFINE new == [memory["commands"] EXCEPT ![i] = "delivered"]
             e == <<"delivered", i>>
  <2>1. new \in Seq({"pending", "delivered"}) /\ DOMAIN new = DOMAIN memory["commands"]
    BY <1>0, <1>4, ExceptIs, SeqIs DEF DrainCommand
  <2>2. (\A j : e # <<"enqueued", j>>) /\ \A v, c : e # <<"pipeline", v, c>>
    OBVIOUS
  <2>3. Handle("commands", new, e)
    BY <1>4 DEF DrainCommand
  <2> HIDE DEF new, e
  <2> QED
    BY <2>1, <2>2, <2>3, CommandStep
<1> QED
  BY <1>1, <1>2, <1>3, <1>4

-----------------------------------------------------------------------------
(* The operations of a persist.                                            *)

LEMMA StartSteps ==
  ASSUME IInv, NEW p \in Clients, StartPersist(p) \/ StartAppend(p)
  PROVE  IInv'
<1>1. CASE StartPersist(p)
  <2>1. /\ UNCHANGED <<memory, file, writing, todo, event, caller, replied>>
        /\ step' = [step EXCEPT ![p] = "write"] /\ step[p] = "idle"
        /\ todo[p] # <<>> /\ Head(todo[p]) = "persist"
    BY <1>1 DEF StartPersist, Idle
  <2>2. Types' /\ FilesOK'
    BY <2>1 DEF IInv, Types, FilesOK, default, Clients, Stores
  <2>3. PipelineCall'
    <3>1. p = "pipelines" => todo["pipelines"] = <<"persist">>
      BY <2>1 DEF IInv, PipelineCall
    <3> QED
      BY <2>1, <3>1 DEF IInv, Types, PipelineCall, Publishes, Clients, Stores
  <2>4. CommandCall'
    <3>1. p = "commands" => todo["commands"] = <<"persist", "audit">>
      BY <2>1 DEF IInv, CommandCall
    <3> QED
      BY <2>1, <3>1 DEF IInv, Types, CommandCall, Changes, Clients, Stores
  <2>5. AuditCall'
    BY <2>1 DEF IInv, Types, AuditCall, Clients, Stores
  <2> QED
    BY <2>1, <2>2, <2>3, <2>4, <2>5 DEF IInv, Told, Audited
<1>2. CASE StartAppend(p)
  <2>1. /\ UNCHANGED <<memory, file, todo, event, replied>>
        /\ caller' = p
        /\ writing' = [writing EXCEPT !["audit"] = memory["audit"] \cup {event[p]}]
        /\ step' = [step EXCEPT !["audit"] = "write"] /\ step["audit"] = "idle"
        /\ todo[p] # <<>> /\ Head(todo[p]) = "audit"
    BY <1>2 DEF StartAppend, Idle
  <2>2. /\ writing'["pipelines"] = writing["pipelines"]
        /\ writing'["commands"] = writing["commands"]
        /\ writing'["audit"] = memory["audit"] \cup {event[p]}
        /\ \A s \in Stores : step'[s] = IF s = "audit" THEN "write" ELSE step[s]
    BY <2>1 DEF IInv, Types, Stores, Clients
  <2>3. Types' /\ FilesOK'
    BY <2>1, ZenonT(30) DEF IInv, Types, FilesOK, default, Stores
  <2>4. PipelineCall'
    <3>1. p = "pipelines" => todo["pipelines"] = <<"audit", "persist">>
      BY <2>1 DEF IInv, PipelineCall
    <3>2. p = "pipelines" \/ p = "commands"
      BY DEF Clients
    <3> QED
      BY <2>1, <2>2, <3>1, <3>2 DEF IInv, PipelineCall, Publishes, Clients, Stores
  <2>5. CommandCall'
    <3>1. p = "commands" => todo["commands"] = <<"audit">>
      BY <2>1 DEF IInv, CommandCall
    <3>2. p = "pipelines" \/ p = "commands"
      BY DEF Clients
    <3> QED
      BY <2>1, <2>2, <3>1, <3>2 DEF IInv, CommandCall, Changes, Clients, Stores
  <2>6. AuditCall'
    BY <2>1, <2>2 DEF IInv, AuditCall, Clients, Stores, None
  <2> QED
    BY <2>1, <2>3, <2>4, <2>5, <2>6 DEF IInv, Told, Audited
<1> QED
  BY <1>1, <1>2

LEMMA WriteSteps ==
  ASSUME IInv, NEW s \in Stores, WriteTemporary(s) \/ RemoveOld(s)
  PROVE  IInv'
<1>1. /\ UNCHANGED <<memory, writing, todo, event, caller, replied>>
      /\ step[s] \in {"write", "remove"}
      /\ \/ step' = [step EXCEPT ![s] = "remove"] /\ file' = file
         \/ step' = [step EXCEPT ![s] = "rename"] /\ file' = [file EXCEPT ![s] = {}]
  BY DEF WriteTemporary, RemoveOld
<1>2. Types' /\ FilesOK'
  BY <1>1, ZenonT(30) DEF IInv, Types, FilesOK, default
<1>3. \A u \in Stores : step'[u] = "idle" <=> step[u] = "idle"
  BY <1>1 DEF IInv, Types
<1>4. PipelineCall'
  BY <1>1, <1>3 DEF IInv, PipelineCall, Publishes, Stores, Clients
<1>5. CommandCall'
  BY <1>1, <1>3 DEF IInv, CommandCall, Changes, Stores, Clients
<1>6. AuditCall'
  BY <1>1, <1>3 DEF IInv, AuditCall, Stores
<1> QED
  BY <1>1, <1>2, <1>4, <1>5, <1>6 DEF IInv, Told, Audited

\* The file of a store that has just been replaced says what is in memory.
LEMMA FilesAfter ==
  ASSUME FilesOK, NEW u \in Stores,
         \A s \in Stores : step'[s] = IF s = u THEN "idle" ELSE step[s],
         \A s \in Stores : s # u => memory'[s] = memory[s] /\ file'[s] = file[s],
         file'[u] = {memory'[u]}
  PROVE  FilesOK'
<1> SUFFICES ASSUME NEW s \in Stores
             PROVE  IF step'[s] = "rename" THEN file'[s] = {}
                    ELSE file'[s] = {memory'[s]} \/ (file'[s] = {} /\ memory'[s] = default(s))
  BY DEF FilesOK
<1>1. CASE s = u
  BY <1>1
<1>2. CASE s # u
  BY <1>2 DEF FilesOK
<1> QED
  BY <1>1, <1>2

\* The end of a persist of the pipeline store, and with it of the call.
LEMMA RenamePipelines ==
  ASSUME IInv, Rename("pipelines")
  PROVE  IInv'
<1>1. todo["pipelines"] = <<"persist">> /\ Publishes /\ event["pipelines"] \in memory["audit"]
      /\ caller # "pipelines"
  BY DEF Rename, IInv, PipelineCall
<1>2. PICK c \in Contents :
        /\ writing["pipelines"] = Append(memory["pipelines"], c)
        /\ event["pipelines"] = <<"pipeline", Len(memory["pipelines"]) + 1, c>>
  BY <1>1 DEF Publishes
<1>3. /\ memory' = [memory EXCEPT !["pipelines"] = writing["pipelines"]]
      /\ step' = [step EXCEPT !["pipelines"] = "idle"]
      /\ file' = [file EXCEPT !["pipelines"] = {writing["pipelines"]}]
      /\ todo' = [todo EXCEPT !["pipelines"] = <<>>]
      /\ replied' = replied \cup {event["pipelines"]}
      /\ UNCHANGED <<writing, event, caller>>
  <2>1. Len(todo["pipelines"]) = 1 /\ Tail(todo["pipelines"]) = <<>>
    BY <1>1
  <2> QED
    BY <2>1, ZenonT(30) DEF Rename, Serving, IInv, Types, Stores, Clients
<1> DEFINE old == memory["pipelines"]
           new == memory'["pipelines"]
<1>4. /\ new = Append(old, c)
      /\ memory'["commands"] = memory["commands"] /\ memory'["audit"] = memory["audit"]
      /\ \A s \in Stores : step'[s] = IF s = "pipelines" THEN "idle" ELSE step[s]
      /\ todo'["pipelines"] = <<>> /\ todo'["commands"] = todo["commands"]
  BY <1>2, <1>3, ZenonT(30) DEF IInv, Types, Stores, Clients
<1>5. /\ new \in Seq(Contents)
      /\ Len(old) \in Nat /\ DOMAIN old = 1..Len(old) /\ DOMAIN new = 1..(Len(old) + 1)
      /\ \A v \in DOMAIN old : new[v] = old[v]
      /\ new[Len(old) + 1] = c
  <2>1. old \in Seq(Contents)
    BY DEF IInv, Types
  <2> HIDE DEF old, new
  <2> QED
    BY <1>4, <2>1, AppendIs, SeqIs
<1>6. Types' /\ FilesOK'
  <2>1. Types'
    BY <1>3, <1>4, <1>5, ZenonT(30) DEF IInv, Types, Stores, Clients
  <2>2. \A s \in Stores : s # "pipelines" => memory'[s] = memory[s] /\ file'[s] = file[s]
    BY <1>3, ZenonT(30) DEF IInv, Types
  <2>3. file'["pipelines"] = {new}
    BY <1>2, <1>3, <1>4 DEF IInv, Types, Stores, Clients
  <2> QED
    BY <1>4, <2>1, <2>2, <2>3, FilesAfter DEF IInv, Stores, Clients
<1>7. PipelineCall'
  BY <1>1, <1>3, <1>4 DEF PipelineCall, Stores, Clients
<1>8. CommandCall'
  BY <1>3, <1>4 DEF IInv, CommandCall, Changes, Stores, Clients
<1>9. AuditCall'
  BY <1>1, <1>3, <1>4 DEF IInv, AuditCall, Stores, Clients, None
<1>10. Audited'
  <2>1. \A v \in DOMAIN new : v \in DOMAIN old \/ v = Len(old) + 1
    BY <1>5
  <2> QED
    BY <1>1, <1>2, <1>4, <1>5, <2>1 DEF IInv, Audited
<1>11. Told'
  <2>1. ASSUME NEW v, NEW d, <<"pipeline", v, d>> \in replied'
        PROVE  v \in DOMAIN new /\ new[v] = d
    <3>1. CASE <<"pipeline", v, d>> \in replied
      BY <1>5, <3>1 DEF IInv, Told
    <3>2. CASE <<"pipeline", v, d>> = event["pipelines"]
      <4>1. v = Len(old) + 1 /\ d = c
        BY <1>2, <3>2
      <4> QED
        BY <1>5, <4>1
    <3> QED
      BY <1>3, <2>1, <3>1, <3>2
  <2>2. ASSUME NEW i, <<"enqueued", i>> \in replied'
        PROVE  i \in DOMAIN memory["commands"]
    <3>1. <<"enqueued", i>> # event["pipelines"]
      BY <1>2
    <3> QED
      BY <1>3, <2>2, <3>1 DEF IInv, Told
  <2> QED
    BY <1>4, <2>1, <2>2 DEF Told
<1> QED
  BY <1>6, <1>7, <1>8, <1>9, <1>10, <1>11 DEF IInv

\* The end of a persist of the command queue; the audit event is next.
LEMMA RenameCommands ==
  ASSUME IInv, Rename("commands")
  PROVE  IInv'
<1>1. todo["commands"] = <<"persist", "audit">> /\ Changes /\ caller # "commands"
  BY DEF Rename, IInv, CommandCall
<1>2. /\ memory' = [memory EXCEPT !["commands"] = writing["commands"], !["commands"] = @]
      /\ step' = [step EXCEPT !["commands"] = "idle"]
      /\ file' = [file EXCEPT !["commands"] = {writing["commands"]}]
      /\ todo' = [todo EXCEPT !["commands"] = <<"audit">>]
      /\ UNCHANGED <<replied, writing, event, caller>>
  <2>1. Len(todo["commands"]) # 1 /\ Tail(todo["commands"]) = <<"audit">>
    BY <1>1
  <2> QED
    BY <2>1, ZenonT(30) DEF Rename, Serving, IInv, Types, Stores, Clients
<1>3. /\ memory'["commands"] = writing["commands"]
      /\ memory'["pipelines"] = memory["pipelines"] /\ memory'["audit"] = memory["audit"]
      /\ \A s \in Stores : step'[s] = IF s = "commands" THEN "idle" ELSE step[s]
      /\ todo'["commands"] = <<"audit">> /\ todo'["pipelines"] = todo["pipelines"]
  BY <1>2 DEF IInv, Types, Stores, Clients
<1>4. Types' /\ FilesOK'
  <2>1. Types'
    BY <1>1, <1>2, <1>3, ZenonT(30) DEF IInv, Types, Stores, Clients, Changes
  <2>2. \A s \in Stores : s # "commands" => memory'[s] = memory[s] /\ file'[s] = file[s]
    BY <1>2 DEF IInv, Types
  <2>3. file'["commands"] = {memory'["commands"]}
    BY <1>2, <1>3 DEF IInv, Types, Stores, Clients
  <2> QED
    BY <1>3, <2>1, <2>2, <2>3, FilesAfter DEF IInv, Stores, Clients
<1>5. PipelineCall'
  BY <1>2, <1>3, ZenonT(30) DEF IInv, PipelineCall, Publishes, Stores, Clients
<1>6. CommandCall'
  <2>1. Changes'
    BY <1>1, <1>2, <1>3 DEF Changes
  <2> QED
    BY <1>2, <1>3, <2>1 DEF CommandCall, Stores, Clients
<1>7. AuditCall'
  BY <1>1, <1>2, <1>3 DEF IInv, AuditCall, Stores, Clients, None
<1>8. Told' /\ Audited'
  <2>1. Told'
    BY <1>1, <1>2, <1>3, ZenonT(30) DEF IInv, Told, Changes
  <2>2. Audited'
    BY <1>1, <1>2, <1>3, ZenonT(30) DEF IInv, Audited, Changes
  <2> QED
    BY <2>1, <2>2
<1> QED
  BY <1>4, <1>5, <1>6, <1>7, <1>8 DEF IInv

\* The end of an append to the audit log: the pipeline store persists next,
\* the command queue answers.
LEMMA RenameAudit ==
  ASSUME IInv, Rename("audit")
  PROVE  IInv'
<1>1. /\ caller \in Clients
      /\ writing["audit"] = memory["audit"] \cup {event[caller]}
  BY DEF Rename, IInv, AuditCall
<1>2. /\ step' = [step EXCEPT !["audit"] = "idle"]
      /\ file' = [file EXCEPT !["audit"] = {writing["audit"]}]
      /\ caller' = None
      /\ UNCHANGED <<writing, event>>
  BY DEF Rename
<1>3. \A s \in Stores : step'[s] = IF s = "audit" THEN "idle" ELSE step[s]
  BY <1>2 DEF IInv, Types
<1>4. CASE caller = "pipelines"
  <2>1. todo["pipelines"] = <<"audit", "persist">> /\ Publishes /\ step["pipelines"] = "idle"
    BY <1>4 DEF IInv, PipelineCall, AuditCall, None
  <2>2. /\ memory' = [memory EXCEPT !["audit"] = writing["audit"],
                                    !["pipelines"] = memory["pipelines"]]
        /\ todo' = [todo EXCEPT !["pipelines"] = <<"persist">>]
        /\ replied' = replied
    <3>1. Len(todo["pipelines"]) # 1 /\ Tail(todo["pipelines"]) = <<"persist">>
      BY <2>1
    <3> QED
      BY <1>4, <3>1, ZenonT(30) DEF Rename, Serving, IInv, Types, Stores, Clients
  <2>3. /\ memory'["pipelines"] = memory["pipelines"]
        /\ memory'["commands"] = memory["commands"]
        /\ memory'["audit"] = memory["audit"] \cup {event["pipelines"]}
        /\ todo'["pipelines"] = <<"persist">> /\ todo'["commands"] = todo["commands"]
    BY <1>1, <1>4, <2>2 DEF IInv, Types, Stores, Clients
  <2>4. Types'
    BY <1>2, <2>2, <2>3, ZenonT(30) DEF IInv, Types, Stores, Clients
  <2>5. PipelineCall'
    BY <1>2, <2>1, <2>3 DEF PipelineCall, Publishes, None
  <2>6. CommandCall'
    BY <1>2, <1>3, <1>4, <2>3 DEF IInv, CommandCall, Changes, Stores, Clients, None
  <2>7. Told' /\ Audited'
    BY <2>2, <2>3, ZenonT(30) DEF IInv, Told, Audited
  <2>8. FilesOK'
    <3>1. \A s \in Stores : s # "audit" => memory'[s] = memory[s] /\ file'[s] = file[s]
      BY <1>2, <2>2 DEF IInv, Types
    <3>2. file'["audit"] = {memory'["audit"]}
      BY <1>2, <2>2 DEF IInv, Types, Stores
    <3> QED
      BY <1>3, <3>1, <3>2, FilesAfter DEF IInv, Stores
  <2> QED
    BY <1>2, <1>3, <2>4, <2>5, <2>6, <2>7, <2>8 DEF IInv, AuditCall, None, Stores
<1>5. CASE caller = "commands"
  <2>1. /\ todo["commands"] = <<"audit">> /\ Changes /\ step["commands"] = "idle"
        /\ writing["commands"] = memory["commands"]
    BY <1>5 DEF IInv, CommandCall, AuditCall, None
  <2>2. /\ memory' = [memory EXCEPT !["audit"] = writing["audit"],
                                    !["commands"] = memory["commands"]]
        /\ todo' = [todo EXCEPT !["commands"] = <<>>]
        /\ replied' = replied \cup {event["commands"]}
    <3>1. Len(todo["commands"]) = 1 /\ Tail(todo["commands"]) = <<>>
      BY <2>1
    <3> QED
      BY <1>5, <2>1, <3>1, ZenonT(30) DEF Rename, Serving, IInv, Types, Stores, Clients
  <2>3. /\ memory'["pipelines"] = memory["pipelines"]
        /\ memory'["commands"] = memory["commands"]
        /\ memory'["audit"] = memory["audit"] \cup {event["commands"]}
        /\ todo'["commands"] = <<>> /\ todo'["pipelines"] = todo["pipelines"]
    BY <1>1, <1>5, <2>2 DEF IInv, Types, Stores, Clients
  <2>4. Types'
    BY <1>2, <2>2, <2>3, ZenonT(30) DEF IInv, Types, Stores, Clients
  <2>5. PipelineCall'
    BY <1>2, <1>3, <1>5, <2>3 DEF IInv, PipelineCall, Publishes, Stores, Clients, None
  <2>6. CommandCall'
    BY <1>2, <1>3, <2>1, <2>3 DEF CommandCall, Stores, Clients, None
  <2>7. Told'
    <3>1. \A v, c : <<"pipeline", v, c>> \in replied' => <<"pipeline", v, c>> \in replied
      BY <2>1, <2>2 DEF Changes
    <3>2. \A i : <<"enqueued", i>> \in replied' =>
            <<"enqueued", i>> \in replied \/ i \in DOMAIN memory["commands"]
      BY <2>1, <2>2 DEF Changes
    <3> QED
      BY <2>3, <3>1, <3>2 DEF IInv, Told
  <2>8. Audited'
    BY <2>3 DEF IInv, Audited
  <2>9. FilesOK'
    <3>1. \A s \in Stores : s # "audit" => memory'[s] = memory[s] /\ file'[s] = file[s]
      BY <1>2, <2>2 DEF IInv, Types
    <3>2. file'["audit"] = {memory'["audit"]}
      BY <1>2, <2>2 DEF IInv, Types, Stores
    <3> QED
      BY <1>3, <3>1, <3>2, FilesAfter DEF IInv, Stores
  <2> QED
    BY <1>2, <1>3, <2>4, <2>5, <2>6, <2>7, <2>8, <2>9 DEF IInv, AuditCall, None, Stores
<1> QED
  BY <1>1, <1>4, <1>5 DEF Clients

-----------------------------------------------------------------------------
(* The invariant, and what follows from it.                                *)

LEMMA InitIInv == StoresInit => IInv
<1> SUFFICES ASSUME StoresInit
             PROVE  IInv
  OBVIOUS
<1>1. /\ memory["pipelines"] = <<>> /\ memory["commands"] = <<>>
      /\ memory["audit"] = {}
  BY DEF StoresInit, default, Stores, Clients
<1>2. Types
  BY <1>1, EmptyIs, ZenonT(30) DEF StoresInit, Types
<1>3. FilesOK
  BY DEF StoresInit, FilesOK
<1>4. PipelineCall /\ CommandCall /\ AuditCall
  BY DEF StoresInit, PipelineCall, CommandCall, AuditCall, Stores, Clients, None
<1> QED
  BY <1>1, <1>2, <1>3, <1>4 DEF IInv, Told, Audited, StoresInit

LEMMA NextIInv ==
  ASSUME IInv, [StoresNext]_stores_vars, cut' = {}
  PROVE  IInv'
<1>1. CASE \/ \E c \in Contents : PutPipeline(c)
           \/ \E v \in 1..MaxVersions : RollbackPipeline(v)
           \/ EnqueueCommand
           \/ \E i \in 1..MaxCommands : DrainCommand(i)
  BY <1>1, CallSteps
<1>2. CASE \E p \in Clients : StartPersist(p) \/ StartAppend(p)
  BY <1>2, StartSteps
<1>3. CASE \E s \in Stores : WriteTemporary(s) \/ RemoveOld(s)
  BY <1>3, WriteSteps
<1>4. CASE \E s \in Stores : Rename(s)
  BY <1>4, RenamePipelines, RenameCommands, RenameAudit DEF Stores, Clients
<1>5. ASSUME NEW s \in Stores, PersistFails(s)
      PROVE  IInv'
  <2>1. step[s] = "write"
    BY <1>5 DEF PersistFails, Restarted
  <2>2. CASE s = "audit"
    <3>1. caller \in Clients /\ step[caller] = "idle"
      <4>1. caller \in Clients
        BY <2>1, <2>2 DEF IInv, AuditCall
      <4>2. caller = "pipelines" => step["pipelines"] = "idle"
        BY DEF IInv, PipelineCall
      <4>3. caller = "commands" => step["commands"] = "idle"
        BY DEF IInv, CommandCall
      <4> QED
        BY <4>1, <4>2, <4>3 DEF Clients
    <3> QED
      BY <1>5, <2>1, <2>2, <3>1, RestartStep DEF PersistFails, Serving, Stores
  <2>3. CASE s # "audit"
    <3>1. caller # s
      <4>1. s = "pipelines" => caller # "pipelines"
        BY <2>1 DEF IInv, PipelineCall
      <4>2. s = "commands" => caller # "commands"
        BY <2>1 DEF IInv, CommandCall
      <4> QED
        BY <2>3, <4>1, <4>2 DEF Stores, Clients
    <3> QED
      BY <1>5, <2>1, <2>3, <3>1, RestartStep DEF PersistFails, Serving, Stores
  <2> QED
    BY <2>2, <2>3
<1>6. CASE Crash
  <2>1. \A s \in Stores : step[s] # "rename"
    BY <1>6 DEF Crash, Restarted
  <2>2. "audit" \in Stores /\ caller \in Stores \cup {None}
    BY DEF IInv, AuditCall, Stores
  <2> QED
    BY <1>6, <2>1, <2>2, RestartStep DEF Crash
<1>7. CASE UNCHANGED stores_vars
  <2>1. UNCHANGED <<memory, file, step, writing, todo, event, caller, replied>>
    BY <1>7 DEF stores_vars
  <2>2. Types' /\ FilesOK'
    BY <2>1 DEF IInv, Types, FilesOK, default
  <2>3. PipelineCall' /\ CommandCall'
    BY <2>1 DEF IInv, PipelineCall, Publishes, CommandCall, Changes
  <2> QED
    BY <2>1, <2>2, <2>3 DEF IInv, AuditCall, Told, Audited
<1> QED
  BY <1>1, <1>2, <1>3, <1>4, <1>5, <1>6, <1>7 DEF StoresNext

\* A replacement that was cut off stays on record.
LEMMA CutStays ==
  ASSUME [StoresNext]_stores_vars, cut' = {}
  PROVE  cut = {}
<1>1. CASE \/ \E c \in Contents : PutPipeline(c)
           \/ \E v \in 1..MaxVersions : RollbackPipeline(v)
           \/ EnqueueCommand
           \/ \E i \in 1..MaxCommands : DrainCommand(i)
  BY <1>1 DEF PutPipeline, RollbackPipeline, EnqueueCommand, DrainCommand, Handle
<1>2. CASE \E p \in Clients : StartPersist(p) \/ StartAppend(p)
  BY <1>2 DEF StartPersist, StartAppend
<1>3. CASE \E s \in Stores : WriteTemporary(s) \/ RemoveOld(s) \/ Rename(s)
  BY <1>3 DEF WriteTemporary, RemoveOld, Rename
<1>4. CASE Crash \/ \E s \in Stores : PersistFails(s)
  BY <1>4, ZenonT(30) DEF Crash, PersistFails, Restarted
<1>5. CASE UNCHANGED stores_vars
  BY <1>5 DEF stores_vars
<1> QED
  BY <1>1, <1>2, <1>3, <1>4, <1>5 DEF StoresNext

LEMMA Invariance == StoresSpec => [](cut # {} \/ IInv)
<1>1. (cut # {} \/ IInv) /\ [StoresNext]_stores_vars => (cut # {} \/ IInv)'
  BY NextIInv, CutStays
<1> QED
  BY InitIInv, <1>1, PTL DEF StoresSpec

\* What the stores would load once their persists are over.
LEMMA OnFile ==
  ASSUME IInv
  PROVE  /\ \/ Persisted("pipelines") = memory["pipelines"]
            \/ Publishes /\ event["pipelines"] \in memory["audit"]
               /\ Persisted("pipelines") = writing["pipelines"]
         /\ DOMAIN memory["commands"] \subseteq DOMAIN Persisted("commands")
         /\ memory["audit"] \subseteq Persisted("audit")
<1>1. \A s \in Stores : Persisted(s) = IF step[s] = "rename" THEN writing[s] ELSE memory[s]
  BY Loads DEF Persisted
<1>2. step["pipelines"] = "rename" => Publishes /\ event["pipelines"] \in memory["audit"]
  BY DEF IInv, PipelineCall
<1>3. step["commands"] = "rename" => DOMAIN memory["commands"] \subseteq DOMAIN writing["commands"]
  BY DEF IInv, CommandCall, Changes
<1>4. step["audit"] = "rename" => memory["audit"] \subseteq writing["audit"]
  BY DEF IInv, AuditCall
<1> QED
  BY <1>1, <1>2, <1>3, <1>4 DEF Stores, Clients

\* Publishing only adds a version, whose event is already in the audit log.
LEMMA VersionsOnFile ==
  ASSUME IInv
  PROVE  LET now == Persisted("pipelines") IN
         /\ \A v \in DOMAIN memory["pipelines"] :
              v \in DOMAIN now /\ now[v] = memory["pipelines"][v]
         /\ \A v \in DOMAIN now : <<"pipeline", v, now[v]>> \in memory["audit"]
<1>1. CASE Persisted("pipelines") = memory["pipelines"]
  BY <1>1 DEF IInv, Audited
<1>2. CASE /\ Publishes /\ event["pipelines"] \in memory["audit"]
           /\ Persisted("pipelines") = writing["pipelines"]
  <2> DEFINE old == memory["pipelines"]
             new == Persisted("pipelines")
  <2>1. PICK c \in Contents :
          new = Append(old, c) /\ event["pipelines"] = <<"pipeline", Len(old) + 1, c>>
    BY <1>2 DEF Publishes
  <2>2. old \in Seq(Contents)
    BY DEF IInv, Types
  <2>3. \A v \in DOMAIN old : <<"pipeline", v, old[v]>> \in memory["audit"]
    BY DEF IInv, Audited
  <2> HIDE DEF old, new
  <2>4. /\ Len(old) \in Nat /\ DOMAIN old = 1..Len(old) /\ DOMAIN new = 1..(Len(old) + 1)
        /\ \A v \in DOMAIN old : new[v] = old[v]
        /\ new[Len(old) + 1] = c
    BY <2>1, <2>2, AppendIs, SeqIs
  <2>5. \A v \in DOMAIN new : v \in DOMAIN old \/ v = Len(old) + 1
    BY <2>4
  <2>6. \A v \in DOMAIN new : <<"pipeline", v, new[v]>> \in memory["audit"]
    BY <1>2, <2>1, <2>3, <2>4, <2>5
  <2> QED
    BY <2>4, <2>6 DEF old, new
<1> QED
  BY <1>1, <1>2, OnFile

\* What operators were told survives any number of crashes and failed writes,
\* as long as none of them falls between the removal and the rename.
THEOREM RepliesAreDurable == StoresSpec => []RepliedKept
<1>1. cut # {} \/ IInv => RepliedKept
  BY OnFile, VersionsOnFile DEF IInv, Told, RepliedDurable, RepliedKept
<1> QED
  BY <1>1, Invariance, PTL

\* A version number is never given out for two contents.
THEOREM VersionsAreDistinct == StoresSpec => []VersionsDistinct
<1>1. cut # {} \/ IInv => VersionsDistinct
  BY DEF IInv, Told, VersionsDistinct
<1> QED
  BY <1>1, Invariance, PTL

\* No pipeline version is on file without the audit event of its publication.
THEOREM VersionsAreAudited == StoresSpec => []VersionsAudited
<1>1. cut # {} \/ IInv => VersionsAudited
  BY OnFile, VersionsOnFile DEF VersionsAudited
<1> QED
  BY <1>1, Invariance, PTL

-----------------------------------------------------------------------------
(***************************************************************************)
(* Proof that a batch is committed only when every exporter its routes     *)
(* name has every record it can express, for any batch, exporters, routes, *)
(* retry policy, and any failures, timeouts, late arrivals and reloads.    *)
(*                                                                         *)
(* The invariant: of the call under way the steps that are done, and of    *)
(* the calls that came before it all steps, have been received.  A copy,   *)
(* once received, stays, so nothing that fails takes it back; and the      *)
(* routes do not change under a flush, so the steps are the same ones.     *)
(***************************************************************************)

Copies == [Records -> Nat]

CopiesOK ==
  /\ routes \in Configs
  /\ received \in [Exporters -> Copies]
  /\ DOMAIN late \subseteq Exporters \X Copies

\* The steps D of a call of exporter e are received.
Has(e, D) ==
  \A k \in D : \A i \in Records : Steps(routes, e)[k][i] > 0 => received[e][i] > 0

HasAll(e) == Has(e, DOMAIN Steps(routes, e))

Progress ==
  /\ pc \in {"calling", "sleeping", "committed"} => Routable
  /\ pc \in {"calling", "sleeping"} =>
       /\ exporter \in Called
       /\ \A e \in Called : e < exporter => HasAll(e)
  /\ pc = "calling" => Has(exporter, done)
  /\ pc = "committed" => \A e \in Called : HasAll(e)

Delivering == CopiesOK /\ Progress

-----------------------------------------------------------------------------
(* Groups and steps.                                                       *)

LEMMA Numbers == Exporters \subseteq Nat /\ Exporters = 1..Len(Protocol) /\ Len(Protocol) \in Nat
BY ExportAssumption DEF Exporters

LEMMA GroupCounts ==
  ASSUME NEW c \in Configs, NEW e \in Exporters
  PROVE  /\ Group(c, e) \in Copies
         /\ \A i \in Records :
              Batch[i].signal \in DOMAIN c /\ Named(c, e, i) # {} => Group(c, e)[i] > 0
<1>1. ASSUME NEW i \in Records, Batch[i].signal \in DOMAIN c
      PROVE  /\ Cardinality(Named(c, e, i)) \in Nat
             /\ Named(c, e, i) # {} => Cardinality(Named(c, e, i)) > 0
  <2>1. c[Batch[i].signal] \in Seq(Exporters)
    BY <1>1, ExportAssumption
  <2> DEFINE n == Len(c[Batch[i].signal])
  <2>2. n \in Nat /\ Named(c, e, i) \subseteq 1..n
    BY <2>1 DEF Named
  <2>3. IsFiniteSet(1..n)
    BY <2>2, FS_Interval
  <2>4. IsFiniteSet(Named(c, e, i))
    BY <2>2, <2>3, FS_Subset, ZenonT(30)
  <2> QED
    BY <2>4, FS_CardinalityType, FS_EmptySet
<1> QED
  BY <1>1 DEF Group, Copies

LEMMA StepCopies ==
  ASSUME NEW c \in Configs, NEW e \in Exporters, NEW k \in DOMAIN Steps(c, e)
  PROVE  Steps(c, e)[k] \in Copies
<1>1. Group(c, e) \in Copies
  BY GroupCounts
<1>2. \A s : Carried(c, e, s) \in Copies
  BY <1>1 DEF Carried, Copies
<1> QED
  BY <1>2 DEF Steps, Copies

\* A record that the route sends to the exporter, and that it can express, is in
\* one of the steps of the call.
LEMMA InSomeStep ==
  ASSUME NEW c \in Configs, NEW e \in Exporters, NEW i \in Records,
         Batch[i].signal \in DOMAIN c, Named(c, e, i) # {}, Expressible(e, i)
  PROVE  /\ Some(Group(c, e))
         /\ \E k \in DOMAIN Steps(c, e) : Steps(c, e)[k][i] > 0
<1>1. Group(c, e)[i] \in Nat /\ Group(c, e)[i] > 0
  BY GroupCounts DEF Copies
<1>2. CASE Protocol[e] = "file"
  <2> DEFINE k == <<i, 1>>
  <2>1. k \in UNION {{j} \X (1..Group(c, e)[j]) : j \in Records}
    <3>1. k \in {i} \X (1..Group(c, e)[i])
      BY <1>1
    <3> QED
      BY <3>1
  <2>2. k \in DOMAIN Steps(c, e) /\ Steps(c, e)[k][i] = 1
    BY <1>2, <2>1 DEF Steps
  <2> QED
    BY <1>1, <2>2 DEF Some
<1>3. CASE Protocol[e] # "file"
  <2>1. Batch[i].signal \in Signals
    BY ExportAssumption DEF Records
  <2>2. PICK j \in DOMAIN SignalOrder : SignalOrder[j] = Batch[i].signal
    BY <2>1 DEF Signals, SignalOrder
  <2> DEFINE k == <<j, 1>>
  <2>3. Carried(c, e, SignalOrder[j])[i] = Group(c, e)[i]
    BY <2>2 DEF Carried
  <2>4. Some(Carried(c, e, SignalOrder[j]))
    BY <1>1, <2>3 DEF Some
  <2>5. k \in DOMAIN Steps(c, e) /\ Steps(c, e)[k] = Carried(c, e, SignalOrder[j])
    BY <1>3, <2>4 DEF Steps
  <2> QED
    BY <1>1, <2>3, <2>5 DEF Some
<1> QED
  BY <1>2, <1>3

-----------------------------------------------------------------------------
(* Receiving.                                                              *)

\* Whatever arrives, what was received stays received.
Grows ==
  /\ received' \in [Exporters -> Copies]
  /\ \A e \in Exporters, i \in Records : received[e][i] > 0 => received'[e][i] > 0

LEMMA ReceiveGrows ==
  ASSUME CopiesOK, NEW e \in Exporters, NEW s \in Copies, Receive(e, s)
  PROVE  Grows /\ \A i \in Records : s[i] > 0 => received'[e][i] > 0
<1>1. received' = [received EXCEPT ![e] = [i \in Records |-> received[e][i] + s[i]]]
  BY DEF Receive
<1>2. \A i \in Records : received[e][i] \in Nat /\ s[i] \in Nat
  BY DEF CopiesOK, Copies
<1>3. received'[e] = [i \in Records |-> received[e][i] + s[i]]
      /\ \A f \in Exporters : f # e => received'[f] = received[f]
  BY <1>1 DEF CopiesOK
<1>4. [i \in Records |-> received[e][i] + s[i]] \in Copies
  BY <1>2 DEF Copies
<1>5. received' \in [Exporters -> Copies]
  BY <1>1, <1>4 DEF CopiesOK
<1> QED
  BY <1>2, <1>3, <1>5 DEF Grows

LEMMA HasAllStays ==
  ASSUME CopiesOK, Grows, routes' = routes
  PROVE  Routable' = Routable /\ Called' = Called /\ \A e \in Called : HasAll(e) => HasAll(e)'
<1>1. Routable' = Routable /\ Called' = Called
  BY DEF Routable, Called
<1>2. ASSUME NEW e \in Called, HasAll(e)
      PROVE  HasAll(e)'
  <2>1. e \in Exporters
    BY DEF Called
  <2> QED
    BY <1>2, <2>1 DEF HasAll, Has, Grows
<1> QED
  BY <1>1, <1>2

\* A step that leaves pc, the exporter and the routes alone, and counts as done
\* only what it received.
LEMMA SameCall ==
  ASSUME Delivering, Grows, UNCHANGED <<routes, pc, exporter>>,
         DOMAIN late' \subseteq Exporters \X Copies,
         pc = "calling" => Has(exporter, done)'
  PROVE  Delivering'
<1>1. CopiesOK'
  BY DEF Delivering, CopiesOK, Grows
<1>2. Routable' = Routable /\ Called' = Called /\ \A e \in Called : HasAll(e) => HasAll(e)'
  BY HasAllStays DEF Delivering
<1>3. Progress'
  BY <1>2 DEF Delivering, Progress
<1> QED
  BY <1>1, <1>3 DEF Delivering

\* A failed call: it is tried again, or the batch stays queued.
LEMMA FailedCall ==
  ASSUME Delivering, Grows, CallFails, pc = "calling",
         DOMAIN late' \subseteq Exporters \X Copies
  PROVE  Delivering'
<1>1. CopiesOK'
  BY DEF Delivering, CopiesOK, Grows, CallFails
<1>2. Routable' = Routable /\ Called' = Called /\ \A e \in Called : HasAll(e) => HasAll(e)'
  BY HasAllStays DEF Delivering, CallFails
<1>3. pc' = "queued" \/ (pc' = "sleeping" /\ exporter' = exporter)
  BY DEF CallFails
<1>4. Progress'
  BY <1>2, <1>3 DEF Delivering, Progress
<1> QED
  BY <1>1, <1>4 DEF Delivering

\* The next call, when the exporters up to here have everything.
LEMMA NextCall ==
  ASSUME Delivering, NEW from \in Nat, Advance(from), UNCHANGED <<routes, received, late>>, Routable,
         \A e \in Called : e <= from => HasAll(e)
  PROVE  Delivering'
<1>0. Grows
  BY DEF Grows, Delivering, CopiesOK
<1>1. CopiesOK'
  BY DEF Delivering, CopiesOK
<1>2. Routable' = Routable /\ Called' = Called /\ \A e \in Called : HasAll(e) => HasAll(e)'
  BY <1>0, HasAllStays DEF Delivering
<1>3. Called \subseteq Nat
  BY Numbers DEF Called
<1>4. CASE pc' = "committed"
  <2>1. \A e \in Called : ~(e > from)
    BY <1>4 DEF Advance
  <2>2. \A e \in Called : HasAll(e)
    BY <1>3, <2>1
  <2> QED
    BY <1>1, <1>2, <1>4, <2>2 DEF Delivering, Progress
<1>5. CASE pc' = "calling"
  <2>1. done' = {} /\ exporter' \in Called /\ exporter' > from
        /\ \A f \in Called : f > from => exporter' <= f
    BY <1>5 DEF Advance
  <2>2. \A e \in Called : e < exporter' => HasAll(e)
    BY <1>3, <2>1
  <2>3. Has(exporter, done)'
    BY <2>1 DEF Has
  <2> QED
    BY <1>1, <1>2, <1>5, <2>1, <2>2, <2>3 DEF Delivering, Progress
<1> QED
  BY <1>4, <1>5 DEF Advance

-----------------------------------------------------------------------------
(* The steps.                                                              *)

\* The next step of the call is one of its steps.
LEMMA DueStep ==
  ASSUME Delivering, NEW k \in Due
  PROVE  /\ pc = "calling" /\ exporter \in Exporters
         /\ k \in DOMAIN Steps(routes, exporter) /\ Steps(routes, exporter)[k] \in Copies
<1>1. k \in Rest
  BY ZenonT(30) DEF Due
<1>2. pc = "calling" /\ k \in DOMAIN Steps(routes, exporter)
  BY <1>1 DEF Rest
<1>3. exporter \in Exporters /\ routes \in Configs
  BY <1>2 DEF Delivering, Progress, CopiesOK, Called
<1> QED
  BY <1>2, <1>3, StepCopies

LEMMA Unreceived ==
  ASSUME Delivering, UNCHANGED received
  PROVE  Grows
BY DEF Delivering, CopiesOK, Grows

LEMMA StepSucceedsKeeps ==
  ASSUME Delivering, NEW k \in Due, StepSucceeds(k)
  PROVE  Delivering'
<1> DEFINE s == Steps(routes, exporter)[k]
<1>1. exporter \in Exporters /\ s \in Copies /\ pc = "calling"
  BY DueStep
<1>2. Grows /\ \A i \in Records : s[i] > 0 => received'[exporter][i] > 0
  BY <1>1, ReceiveGrows DEF StepSucceeds, Delivering
<1>3. UNCHANGED <<routes, pc, exporter, late>> /\ done' = done \cup {k}
  BY DEF StepSucceeds
<1>4. Has(exporter, done)
  BY <1>1 DEF Delivering, Progress
<1>5. Has(exporter, done)'
  BY <1>1, <1>2, <1>3, <1>4 DEF Has, Grows
<1> QED
  BY <1>2, <1>3, <1>5, SameCall DEF Delivering, CopiesOK

LEMMA StepFailsKeeps ==
  ASSUME Delivering, NEW k \in Due, StepFails(k)
  PROVE  Delivering'
<1>1. exporter \in Exporters /\ Steps(routes, exporter)[k] \in Copies /\ pc = "calling"
  BY DueStep
<1>2. Grows
  BY <1>1, ReceiveGrows, Unreceived DEF StepFails, Delivering
<1>3. CallFails /\ late' = late
  BY DEF StepFails
<1> QED
  BY <1>1, <1>2, <1>3, FailedCall DEF Delivering, CopiesOK

\* A request given up may arrive late.
LEMMA TimesOutKeeps ==
  ASSUME Delivering, NEW k \in Due, TimesOut(k)
  PROVE  Delivering'
<1> DEFINE l == <<exporter, Steps(routes, exporter)[k]>>
<1>1. l \in Exporters \X Copies /\ pc = "calling"
  BY DueStep
<1>2. CallFails /\ received' = received /\ (late' = late \/ late' = late (+) SetToBag({l}))
  BY DEF TimesOut
<1>3. DOMAIN (late (+) SetToBag({l})) = DOMAIN late \cup {l}
  BY DEF (+), SetToBag, BagToSet
<1>4. DOMAIN late' \subseteq Exporters \X Copies
  BY <1>1, <1>2, <1>3 DEF Delivering, CopiesOK
<1> QED
  BY <1>1, <1>2, <1>4, Unreceived, FailedCall

LEMMA LateArrivesKeeps ==
  ASSUME Delivering, LateArrives
  PROVE  Delivering'
<1>1. PICK l \in DOMAIN late : /\ Receive(l[1], l[2])
                              /\ late' = late (-) SetToBag({l})
                              /\ UNCHANGED <<routes, pc, exporter, done>>
  BY ZenonT(30) DEF LateArrives, BagToSet
<1>2. l[1] \in Exporters /\ l[2] \in Copies
  BY DEF Delivering, CopiesOK
<1>3. Grows
  BY <1>1, <1>2, ReceiveGrows DEF Delivering
<1>4. DOMAIN (late (-) SetToBag({l})) \subseteq DOMAIN late
  BY DEF (-), BagToSet
<1>5. pc = "calling" => Has(exporter, done)'
  <2> SUFFICES ASSUME pc = "calling"
               PROVE  Has(exporter, done)'
    OBVIOUS
  <2>1. exporter \in Exporters /\ Has(exporter, done)
    BY DEF Delivering, Progress, Called
  <2> QED
    BY <1>1, <1>3, <2>1 DEF Has, Grows
<1> QED
  BY <1>1, <1>3, <1>4, <1>5, SameCall, ZenonT(30) DEF Delivering, CopiesOK

LEMMA Initially == Init => Delivering
<1> SUFFICES ASSUME Init
             PROVE  Delivering
  OBVIOUS
<1>1. DOMAIN late = {}
  BY DEF Init, EmptyBag, SetToBag
<1> QED
  BY <1>1 DEF Init, Delivering, CopiesOK, Progress, Copies

LEMMA Inductive == Delivering /\ [Next]_vars => Delivering'
<1> SUFFICES ASSUME Delivering, [Next]_vars
             PROVE  Delivering'
  OBVIOUS
<1>1. CASE StartFlush
  <2>1. Advance(0) /\ Routable /\ UNCHANGED <<routes, received, late>>
    BY <1>1 DEF StartFlush
  <2>2. \A e \in Called : ~(e <= 0)
    BY Numbers DEF Called
  <2> QED
    BY <2>1, <2>2, NextCall
<1>2. CASE Reload
  <2>1. pc' = "queued" /\ routes' \in Configs /\ UNCHANGED <<received, late>>
    BY <1>2 DEF Reload
  <2> QED
    BY <2>1 DEF Delivering, CopiesOK, Progress
<1>3. CASE CallSucceeds
  <2>1. pc = "calling" /\ Advance(exporter) /\ UNCHANGED <<routes, received, late>>
        /\ DOMAIN Steps(routes, exporter) \subseteq done
    BY <1>3 DEF CallSucceeds, Rest
  <2>2. Routable /\ exporter \in Called /\ Has(exporter, done)
        /\ \A e \in Called : e < exporter => HasAll(e)
    BY <2>1 DEF Delivering, Progress
  <2>3. HasAll(exporter)
    BY <2>1, <2>2 DEF HasAll, Has
  <2>4. exporter \in Nat /\ \A e \in Called : e <= exporter => e < exporter \/ e = exporter
    BY <2>2, Numbers DEF Called
  <2> QED
    BY <2>1, <2>2, <2>3, <2>4, NextCall
<1>4. CASE Retry
  <2>1. pc = "sleeping" /\ pc' = "calling" /\ done' = {} /\ UNCHANGED <<routes, exporter, received, late>>
    BY <1>4 DEF Retry
  <2>2. Routable' = Routable /\ Called' = Called /\ \A e \in Called : HasAll(e) => HasAll(e)'
    BY <2>1, Unreceived, HasAllStays DEF Delivering
  <2>3. Has(exporter, done)'
    BY <2>1 DEF Has
  <2> QED
    BY <2>1, <2>2, <2>3 DEF Delivering, CopiesOK, Progress
<1>5. CASE \E k \in Due : CallStep(k)
  <2>1. PICK k \in Due : CallStep(k)
    BY <1>5
  <2>2. pc = "calling"
    BY DueStep
  <2>3. CASE ConnectFails(k)
    BY <2>2, <2>3, Unreceived, FailedCall DEF ConnectFails, Delivering, CopiesOK
  <2>4. CASE Connect(k)
    <3>1. UNCHANGED <<routes, pc, exporter, done, received, late>>
      BY <2>4 DEF Connect
    <3> QED
      BY <3>1 DEF Delivering, CopiesOK, Progress, Has, HasAll, Routable, Called
  <2> QED
    BY <2>1, <2>3, <2>4, StepSucceedsKeeps, StepFailsKeeps, TimesOutKeeps DEF CallStep
<1>6. CASE LateArrives
  BY <1>6, LateArrivesKeeps
<1>7. CASE Heal \/ UNCHANGED vars
  <2>1. UNCHANGED <<routes, pc, exporter, done, received, late>>
    BY <1>7 DEF Heal, vars
  <2> QED
    BY <2>1 DEF Delivering, CopiesOK, Progress, Has, HasAll, Routable, Called
<1> QED
  BY <1>1, <1>2, <1>3, <1>4, <1>5, <1>6, <1>7 DEF Next, Call

\* A batch whose steps are all received is delivered.
LEMMA Enough == Delivering => CommittedDelivered
<1> SUFFICES ASSUME Delivering, pc = "committed", NEW i \in Records
             PROVE  /\ Batch[i].signal \in DOMAIN routes
                    /\ \A e \in Exporters :
                         Named(routes, e, i) # {} /\ Expressible(e, i) => received[e][i] > 0
  BY DEF CommittedDelivered
<1>1. Batch[i].signal \in DOMAIN routes /\ routes \in Configs
  BY DEF Delivering, CopiesOK, Progress, Routable
<1>2. ASSUME NEW e \in Exporters, Named(routes, e, i) # {}, Expressible(e, i)
      PROVE  received[e][i] > 0
  <2>1. /\ Some(Group(routes, e))
        /\ \E k \in DOMAIN Steps(routes, e) : Steps(routes, e)[k][i] > 0
    BY <1>1, <1>2, InSomeStep
  <2>2. HasAll(e)
    BY <2>1 DEF Delivering, Progress, Called
  <2> QED
    BY <2>1, <2>2 DEF HasAll, Has
<1> QED
  BY <1>1, <1>2

\* export_records returns Ok, and the batch is committed, only when every record
\* has a route and every exporter it names has it, for every batch, routing and
\* retry policy and whatever fails, times out, arrives late or is reloaded.
THEOREM CommittedIsDelivered == Spec => []CommittedDelivered
<1>1. Init => Delivering
  BY Initially
<1>2. Delivering /\ [Next]_vars => Delivering'
  BY Inductive
<1>3. Delivering => CommittedDelivered
  BY Enough
<1> QED
  BY <1>1, <1>2, <1>3, PTL DEF Spec

=============================================================================
