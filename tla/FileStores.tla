----------------------------- MODULE FileStores -----------------------------
(***************************************************************************)
(* The file-backed stores of the control plane: PipelineStore and          *)
(* CommandQueue, each with a StateFile, and the AuditLog both report to.   *)
(* Each is a process that serves one call at a time and answers after it   *)
(* has persisted.  A persist is three file operations: write a temporary   *)
(* file, remove the old file, rename.                                      *)
(*                                                                         *)
(* PipelineStore appends its audit event before it persists, CommandQueue  *)
(* after; AgentRegistry works like PipelineStore.  A process that raises   *)
(* is restarted by its supervisor and loads its file; the process that     *)
(* called it exits as well.                                                *)
(***************************************************************************)
EXTENDS Integers, Sequences, FiniteSets

CONSTANTS
  Contents,    \* what a pipeline version may say
  Faults,      \* the fault classes that may occur
  MaxVersions, \* bound: versions asked for
  MaxCommands, \* bound: commands asked for
  MaxFaults    \* bound: faults

ASSUME StoresAssumption ==
  /\ Faults \subseteq {"crash", "crash_in_replace", "write_error", "rename_error"}
  /\ MaxVersions \in Nat
  /\ MaxCommands \in Nat
  /\ MaxFaults \in Nat

Clients == {"pipelines", "commands"}
Stores == Clients \cup {"audit"}

VARIABLES
  memory,   \* memory[s]: the process's state
  file,     \* file[s]: the contents of its file, {} when there is none
  step,     \* step[s]: the next file operation of its persist
  writing,  \* writing[s]: the state being persisted
  todo,     \* todo[p]: what a client process still does for its call
  event,    \* event[p]: the audit event of that call
  caller,   \* the client whose event the audit log is appending
  replied,  \* what operators and agents were told
  asked,    \* calls made, by client
  cut,      \* stores whose process ended between removing and renaming
  faults

stores_vars == <<memory, file, step, writing, todo, event, caller, replied, asked,
                 cut, faults>>

None == "none"

\* pipelines: the contents of versions 1, 2, ...; commands: the status of each
\* command; audit: the set of events.
default(s) == IF s = "audit" THEN {} ELSE <<>>

\* StateFile.load
load(s) == IF file[s] = {} THEN default(s) ELSE CHOOSE x \in file[s] : TRUE

StoresInit ==
  /\ memory = [s \in Stores |-> default(s)]
  /\ file = [s \in Stores |-> {}]
  /\ step = [s \in Stores |-> "idle"]
  /\ writing = [s \in Stores |-> default(s)]
  /\ todo = [p \in Clients |-> <<>>]
  /\ event = [p \in Clients |-> None]
  /\ caller = None
  /\ replied = {}
  /\ asked = [p \in Clients |-> 0]
  /\ cut = {}
  /\ faults = 0

-----------------------------------------------------------------------------
(* Calls.                                                                  *)

\* Mutant: the pipeline store persists first.
PersistFirst(p) == <<"persist", "audit">>

\* Mutant: only the audit log is written.
AuditOnly(p) == <<"audit">>

\* The order of a handler's two effects.
Effects(p) == IF p = "pipelines" THEN <<"audit", "persist">> ELSE <<"persist", "audit">>

Handle(p, new, e) ==
  /\ todo[p] = <<>>
  /\ todo' = [todo EXCEPT ![p] = Effects(p)]
  /\ writing' = [writing EXCEPT ![p] = new]
  /\ event' = [event EXCEPT ![p] = e]
  /\ UNCHANGED <<memory, file, step, caller, replied, cut, faults>>

Asks(p, n) ==
  /\ asked[p] < n
  /\ asked' = [asked EXCEPT ![p] = @ + 1]

PutPipeline(c) ==
  /\ Asks("pipelines", MaxVersions)
  /\ Handle("pipelines", Append(memory["pipelines"], c),
            <<"pipeline", Len(memory["pipelines"]) + 1, c>>)

\* Mutant: rolling back changes the current version in place.
InPlace(v) ==
  [memory["pipelines"] EXCEPT ![Len(memory["pipelines"])] = memory["pipelines"][v]]

RolledBack(v) == Append(memory["pipelines"], memory["pipelines"][v])

RollbackPipeline(v) ==
  /\ v \in DOMAIN memory["pipelines"]
  /\ Asks("pipelines", MaxVersions)
  /\ Handle("pipelines", RolledBack(v),
            <<"pipeline", Len(RolledBack(v)), memory["pipelines"][v]>>)

EnqueueCommand ==
  /\ Asks("commands", MaxCommands)
  /\ Handle("commands", Append(memory["commands"], "pending"),
            <<"enqueued", Len(memory["commands"]) + 1>>)

\* A drain that finds one pending command; the events of several are alike.
DrainCommand(i) ==
  /\ i \in DOMAIN memory["commands"] /\ memory["commands"][i] = "pending"
  /\ Handle("commands", [memory["commands"] EXCEPT ![i] = "delivered"],
            <<"delivered", i>>)
  /\ UNCHANGED asked

-----------------------------------------------------------------------------
(* StateFile.persist, for a client and for the audit log.                  *)

\* Mutant: a store without a file is never ready.
IdleWithFile(s) == step[s] = "idle" /\ file[s] # {}

Idle(s) == step[s] = "idle"

StartPersist(p) ==
  /\ todo[p] # <<>> /\ Head(todo[p]) = "persist" /\ Idle(p)
  /\ step' = [step EXCEPT ![p] = "write"]
  /\ UNCHANGED <<memory, file, writing, todo, event, caller, replied, asked, cut, faults>>

\* AuditLog.append, called by p.
StartAppend(p) ==
  /\ todo[p] # <<>> /\ Head(todo[p]) = "audit" /\ Idle("audit")
  /\ caller' = p
  /\ writing' = [writing EXCEPT !["audit"] = memory["audit"] \cup {event[p]}]
  /\ step' = [step EXCEPT !["audit"] = "write"]
  /\ UNCHANGED <<memory, file, todo, event, replied, asked, cut, faults>>

WriteTemporary(s) ==
  /\ step[s] = "write"
  /\ step' = [step EXCEPT ![s] = "remove"]
  /\ UNCHANGED <<memory, file, writing, todo, event, caller, replied, asked, cut, faults>>

RemoveOld(s) ==
  /\ step[s] = "remove"
  /\ step' = [step EXCEPT ![s] = "rename"]
  /\ file' = [file EXCEPT ![s] = {}]
  /\ UNCHANGED <<memory, writing, todo, event, caller, replied, asked, cut, faults>>

Serving(s) == IF s = "audit" THEN caller ELSE s

\* The last effect of a call is followed by the answer.
Rename(s) ==
  LET p == Serving(s)
      last == Len(todo[p]) = 1 IN
  /\ step[s] = "rename"
  /\ step' = [step EXCEPT ![s] = "idle"]
  /\ file' = [file EXCEPT ![s] = {writing[s]}]
  /\ memory' = [memory EXCEPT ![s] = writing[s], ![p] = IF last THEN writing[p] ELSE @]
  /\ todo' = [todo EXCEPT ![p] = Tail(@)]
  /\ replied' = IF last THEN replied \cup {event[p]} ELSE replied
  /\ caller' = IF s = "audit" THEN None ELSE caller
  /\ UNCHANGED <<writing, event, asked, cut, faults>>

-----------------------------------------------------------------------------
Fault(class) ==
  /\ class \in Faults
  /\ faults < MaxFaults
  /\ faults' = faults + 1

CallerAfter(S) == IF "audit" \in S THEN None ELSE caller

\* The processes of S end without an answer and load their files.
Restarted(S) ==
  /\ memory' = [s \in Stores |-> IF s \in S THEN load(s) ELSE memory[s]]
  /\ step' = [s \in Stores |-> IF s \in S THEN "idle" ELSE step[s]]
  /\ todo' = [p \in Clients |-> IF p \in S THEN <<>> ELSE todo[p]]
  /\ caller' = CallerAfter(S)
  /\ cut' = cut \cup {s \in S : step[s] = "rename"}
  /\ UNCHANGED <<writing, event, replied, asked>>

InReplace == \E s \in Stores : step[s] = "rename"

Crash ==
  /\ Fault(IF InReplace THEN "crash_in_replace" ELSE "crash")
  /\ Restarted(Stores)
  /\ UNCHANGED file

\* A file operation fails and persist raises, in the audit log for its caller
\* as well.  The temporary file is removed.
PersistFails(s) ==
  /\ \/ step[s] = "write" /\ Fault("write_error")
     \/ step[s] = "rename" /\ Fault("rename_error")
  /\ Restarted({s, Serving(s)})
  /\ UNCHANGED file

StoresNext ==
  \/ \E c \in Contents : PutPipeline(c)
  \/ \E v \in 1..MaxVersions : RollbackPipeline(v)
  \/ EnqueueCommand
  \/ \E i \in 1..MaxCommands : DrainCommand(i)
  \/ \E p \in Clients : StartPersist(p) \/ StartAppend(p)
  \/ \E s \in Stores : WriteTemporary(s) \/ RemoveOld(s) \/ Rename(s) \/ PersistFails(s)
  \/ Crash

StoresSpec ==
  /\ StoresInit /\ [][StoresNext]_stores_vars
  /\ WF_stores_vars(\E p \in Clients : StartPersist(p) \/ StartAppend(p))
  /\ WF_stores_vars(\E s \in Stores : WriteTemporary(s) \/ RemoveOld(s) \/ Rename(s))
-----------------------------------------------------------------------------
\* What a store would load if its persist were over.
Persisted(s) == IF step[s] = "rename" THEN writing[s] ELSE load(s)

\* What an operator was told to exist is still there after a restart: the
\* version with its contents, the command until a heartbeat receives it.
RepliedDurable ==
  /\ \A v \in 1..MaxVersions, c \in Contents :
       <<"pipeline", v, c>> \in replied =>
         v \in DOMAIN Persisted("pipelines") /\ Persisted("pipelines")[v] = c
  /\ \A i \in 1..MaxCommands :
       <<"enqueued", i>> \in replied => i \in DOMAIN Persisted("commands")

\* RepliedDurable holds unless the replacement of a file was cut off.
RepliedKept == cut # {} \/ RepliedDurable

\* A version number stands for one content, told once (next_version), unless the
\* replacement of a file was cut off.
VersionsDistinct ==
  cut # {} \/
  \A v \in 1..MaxVersions, c, d \in Contents :
    {<<"pipeline", v, c>>, <<"pipeline", v, d>>} \subseteq replied => c = d

\* No version is on file without its audit event, which is durable first, unless
\* the replacement of a file was cut off.
VersionsAudited ==
  cut # {} \/
  \A v \in DOMAIN Persisted("pipelines") :
    <<"pipeline", v, Persisted("pipelines")[v]>> \in Persisted("audit")

\* No command is on file without the event that says it was enqueued, once the
\* call that enqueued it is over.
CommandsAudited ==
  todo["commands"] = <<>> =>
    \A i \in DOMAIN Persisted("commands") : <<"enqueued", i>> \in Persisted("audit")

\* Every call ends: the two stores share the audit log and neither waits for
\* ever for it.
CallsEnd == \A p \in Clients : []<>(todo[p] = <<>>)
=============================================================================
