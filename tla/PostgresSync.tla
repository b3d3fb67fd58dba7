----------------------------- MODULE PostgresSync -----------------------------
(***************************************************************************)
(* The periodic copy of the file-backed control plane into PostgreSQL:     *)
(* control_state_snapshot.ex reads the four stores one after the other,    *)
(* postgres_writer.ex writes what it read in one transaction, and          *)
(* postgres_sync.ex repeats this for ever.  The stores go on meanwhile.    *)
(*                                                                         *)
(* Commands and events are in the order of their making.  A call to a      *)
(* store and the event it appends from inside its handler are one action:  *)
(* the reader of that store waits for the handler, and events are read     *)
(* last.  Crashes inside a handler are in FileStores.                      *)
(***************************************************************************)
EXTENDS Integers, Sequences, FiniteSets, FiniteSetsExt, Functions

CONSTANTS
  Agents,
  MaxCommands,   \* bound: commands enqueued
  MaxVersions,   \* bound: pipeline versions published
  MaxFaults      \* bound: transactions that fail for reasons of their own, and
                 \* restarts of the control plane

VARIABLES
  agents,      \* AgentRegistry
  versions,    \* PipelineStore: how many versions there are
  commands,    \* CommandQueue: [id, agent, status]
  events,      \* AuditLog: [id, what], what being a command's number and its
               \* status, or another thing of that name
  last_id,     \* System.unique_integer([:positive, :monotonic])
  step,        \* what the snapshot reads next, or "write"
  snapshot,    \* what it has read
  db,          \* the tables: agents, versions, and rows by command and event id
  faults

stores == <<agents, versions, commands, events, last_id>>
vars == <<stores, step, snapshot, db, faults>>

EmptySnapshot == [agents |-> {}, versions |-> 0, commands |-> <<>>, events |-> <<>>]

Init ==
  /\ agents = {}
  /\ versions = 0
  /\ commands = <<>>
  /\ events = <<>>
  /\ last_id = 0
  /\ step = "agents"
  /\ snapshot = EmptySnapshot
  /\ db = [agents |-> {}, versions |-> 0, commands |-> <<>>, events |-> <<>>]
  /\ faults = 0

-----------------------------------------------------------------------------
(* The stores.                                                             *)

Event(n, status) == [number |-> n, status |-> status]

\* Events of these things get the ids that follow id.
append_events(id, things) ==
  /\ events' = events \o [i \in DOMAIN things |-> [id |-> id + i, what |-> things[i]]]
  /\ last_id' = id + Len(things)

\* Registering once more would only add an event.
RegisterAgent(a) ==
  /\ a \notin agents
  /\ agents' = agents \cup {a}
  /\ append_events(last_id, <<Event(0, "agent.registered")>>)
  /\ UNCHANGED <<versions, commands, step, snapshot, db, faults>>

\* put_pipeline or rollback_pipeline.
PutPipeline ==
  /\ versions < MaxVersions
  /\ versions' = versions + 1
  /\ append_events(last_id, <<Event(0, "pipeline.updated")>>)
  /\ UNCHANGED <<agents, commands, step, snapshot, db, faults>>

\* The command takes an id, then its event.
EnqueueCommand(a) ==
  /\ a \in agents
  /\ Len(commands) < MaxCommands
  /\ commands' = Append(commands, [id |-> last_id + 1, agent |-> a, status |-> "pending"])
  /\ append_events(last_id + 1, <<Event(Len(commands) + 1, "pending")>>)
  /\ UNCHANGED <<agents, versions, step, snapshot, db, faults>>

\* What a drain hands out, by the ids of what is pending; leases are in ControlProtocol.
delivered(a) ==
  LET ids == {commands[n].id : n \in {k \in DOMAIN commands :
                commands[k].agent = a /\ commands[k].status = "pending"}} IN
  {n \in DOMAIN commands : commands[n].agent = a /\ commands[n].id \in ids}

\* A heartbeat drains, in order.
DrainCommands(a) ==
  /\ delivered(a) # {}
  /\ commands' = [n \in DOMAIN commands |->
       IF n \in delivered(a) THEN [commands[n] EXCEPT !.status = "delivered"]
       ELSE commands[n]]
  /\ \E numbers \in Bijection(1..Cardinality(delivered(a)), delivered(a)) :
       /\ \A i, j \in DOMAIN numbers : i < j => numbers[i] < numbers[j]
       /\ append_events(last_id, [i \in DOMAIN numbers |-> Event(numbers[i], "delivered")])
  /\ UNCHANGED <<agents, versions, step, snapshot, db, faults>>

\* Succeeded stands for failed as well.  Two commands of one id and agent crash
\* the queue instead.
AckCommand(n) ==
  /\ commands[n].status = "delivered"
  /\ \A m \in DOMAIN commands \ {n} :
       commands[m].id # commands[n].id \/ commands[m].agent # commands[n].agent
  /\ commands' = [commands EXCEPT ![n].status = "succeeded"]
  /\ append_events(last_id, <<Event(n, "succeeded")>>)
  /\ UNCHANGED <<agents, versions, step, snapshot, db, faults>>

Stores ==
  \/ \E a \in Agents : RegisterAgent(a) \/ EnqueueCommand(a) \/ DrainCommands(a)
  \/ PutPipeline
  \/ \E n \in DOMAIN commands : AckCommand(n)

-----------------------------------------------------------------------------
(* ControlStateSnapshot.collect: four calls.                               *)

\* Mutant: the audit log is read before the command queue.
events_first ==
  [agents |-> "versions", versions |-> "events", events |-> "commands", commands |-> "write"]

\* What is read after what.
collect_order ==
  [agents |-> "versions", versions |-> "commands", commands |-> "events", events |-> "write"]

Collect ==
  /\ step # "write"
  /\ snapshot' = [snapshot EXCEPT ![step] =
       CASE step = "agents" -> agents
         [] step = "versions" -> versions
         [] step = "commands" -> commands
         [] step = "events" -> events]
  /\ step' = collect_order[step]
  /\ UNCHANGED <<stores, db, faults>>

Ids(rows) == {rows[i].id : i \in DOMAIN rows}

\* A restart starts the ids again, so two rows may have got the same one.
Distinct(rows) == \A i, j \in DOMAIN rows : rows[i].id = rows[j].id => i = j

\* A row may be inserted and updated by one statement only once, and a command
\* refers to an agent.
Accepted ==
  /\ Distinct(snapshot.commands)
  /\ {r.agent : r \in Range(snapshot.commands)} \subseteq db.agents \cup snapshot.agents

\* The log is listed newest first.
First(rows, id) == rows[Max({i \in DOMAIN rows : rows[i].id = id})]

\* on_conflict: :nothing.
insert_or_nothing(table, rows) ==
  [id \in DOMAIN table \cup Ids(rows) |->
     IF id \in DOMAIN table THEN table[id] ELSE First(rows, id)]

\* Mutant: a row that is there is left as it is.
insert_command_rows_nothing(table, rows) == insert_or_nothing(table, rows)

\* on_conflict: {:replace, ...}, of everything but the agent.
insert_command_rows(table, rows) ==
  [id \in DOMAIN table \cup Ids(rows) |->
     IF id \notin Ids(rows) THEN table[id]
     ELSE IF id \in DOMAIN table THEN [First(rows, id) EXCEPT !.agent = table[id].agent]
     ELSE First(rows, id)]

\* The versions are numbered from one, so the larger count has them all.
insert_versions(m, n) == IF n > m THEN n ELSE m

Again == step' = "agents" /\ snapshot' = EmptySnapshot

Write ==
  /\ step = "write"
  /\ Accepted
  /\ db' = [agents |-> db.agents \cup snapshot.agents,
            versions |-> insert_versions(db.versions, snapshot.versions),
            commands |-> insert_command_rows(db.commands, snapshot.commands),
            events |-> insert_or_nothing(db.events, snapshot.events)]
  /\ Again
  /\ UNCHANGED <<stores, faults>>

\* The transaction is rolled back, and the next sync starts afresh.
WriteRefused ==
  /\ step = "write"
  /\ ~Accepted
  /\ Again
  /\ UNCHANGED <<stores, db, faults>>

WriteFails ==
  /\ step = "write"
  /\ faults < MaxFaults
  /\ faults' = faults + 1
  /\ Again
  /\ UNCHANGED <<stores, db>>

Sync == Collect \/ Write \/ WriteRefused

\* The stores load their files; the ids start again.
Restart ==
  /\ faults < MaxFaults
  /\ faults' = faults + 1
  /\ last_id' = 0
  /\ Again
  /\ UNCHANGED <<agents, versions, commands, events, db>>

Next == Stores \/ Sync \/ WriteFails \/ Restart

\* The sync process sends itself the next :sync, and is restarted when it ends.
Spec == Init /\ [][Next]_vars /\ WF_vars(Sync)

-----------------------------------------------------------------------------
\* What has happened to a command of this status.
UpTo == [pending |-> {"pending"}, delivered |-> {"pending", "delivered"},
         succeeded |-> {"pending", "delivered", "succeeded"}]

\* What is in the tables about a command is audited there: a command row with
\* a status comes with the event of every status up to it ("Command enqueue,
\* delivery, success, and failure append audit events").  It rests on the order
\* of the four reads, and on every event having an id of its own.
RowsAudited ==
  Distinct(events) =>
    \A id \in DOMAIN db.commands : \A s \in UpTo[db.commands[id].status] :
      \E e \in Range(db.events) :
        /\ e.what.status = s
        /\ e.what.number \in DOMAIN commands /\ commands[e.what.number].id = id

\* "expose a consistent state image": every command of a snapshot that is
\* complete is a command of an agent in it.
SnapshotConsistent ==
  step = "write" => {c.agent : c \in Range(snapshot.commands)} \subseteq snapshot.agents

\* "PostgreSQL snapshot sync preserves pending, delivered, succeeded, and
\* failed commands": the tables have every command with its status, every agent
\* and every version.
Preserved ==
  /\ \A c \in Range(commands) : c.id \in DOMAIN db.commands /\ db.commands[c.id] = c
  /\ db.agents = agents
  /\ db.versions = versions

\* Once the stores come to rest they are copied, whatever failed or was
\* restarted before, if every command has an id of its own.
CommandsPreserved == <>[](Distinct(commands) => Preserved)
=============================================================================
