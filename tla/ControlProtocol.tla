--------------------------- MODULE ControlProtocol ---------------------------
(***************************************************************************)
(* The control protocol between one agent and the control plane.           *)
(*                                                                         *)
(* Agent side: the control worker of main.rs and its HTTP client.  One     *)
(* loop registers, sends heartbeats, executes the commands of the answer   *)
(* in order and acknowledges each.  It makes one call at a time.           *)
(*                                                                         *)
(* Server side: ControlService with the AgentRegistry, CommandQueue and    *)
(* PipelineStore processes, file backed.  Every connection has its own     *)
(* task, and every call to one of the three processes is one action, so a  *)
(* heartbeat is three.  A store persists before it answers, so what a      *)
(* restart loads is its state; the crash in a persist is in FileStores.    *)
(*                                                                         *)
(* Faults: a call fails at any point (the agent sees an error, the server  *)
(* may still serve it later), the server's or the agent's process ends, an *)
(* answer never comes (the client has no timeout), and command ids, which  *)
(* count from one in every server process, repeat.                         *)
(***************************************************************************)
EXTENDS Integers, Sequences, FiniteSets

CONSTANTS
  Kinds,        \* the command kinds operators use
  Rejected,     \* pipeline versions the agent refuses (checksum, parse, build)
  Faults,       \* the fault classes that may occur
  MaxCommands,  \* bound: commands enqueued, and the largest id
  MaxVersion,   \* bound: pipeline versions published
  MaxFaults     \* bound: faults

ASSUME ControlAssumption ==
  /\ Kinds \subseteq {"reload_config", "drain_and_restart", "pause_exports",
                      "resume_exports"}
  /\ Rejected \subseteq Nat
  /\ Faults \subseteq {"error", "server", "agent", "silence", "id_reuse"}
  /\ MaxCommands \in Nat
  /\ MaxVersion \in Nat
  /\ MaxFaults \in Nat

VARIABLES
  commands,     \* CommandQueue: the agent's commands, oldest first
  last_id,      \* the last id this server process gave out
  agent,        \* AgentRegistry: the config_version on record, or NotFound
  latest,       \* PipelineStore: the latest version, 0 when there is none
  calls,        \* calls the agent gave up on and the server may still serve
  call,         \* the worker's call
  at,           \* where the worker is
  registered, applied_config_version, exports_paused,
  inbox,        \* commands of the last heartbeat that are left, by number
  derived,      \* ... followed by a reload_config the service made up
  current,      \* the command being executed; 0 for the derived one
  executed,     \* <<i, ok>>: command i was executed with outcome ok
  exits,        \* exits[i]: how often command i ended the agent's process
  faults

server_vars == <<commands, last_id, agent, latest, calls>>
worker_vars == <<call, at, registered, applied_config_version, exports_paused,
                 inbox, derived, current>>
vars == <<server_vars, worker_vars, executed, exits, faults>>

NotFound == -1

Call(op) == [op |-> op, stage |-> "sent", version |-> 0, id |-> 0, of |-> 0,
             success |-> FALSE, got |-> {}, reload |-> FALSE, ok |-> FALSE]
NoCall == [Call("none") EXCEPT !.stage = "done"]

Command(i, k) == [id |-> i, kind |-> k, status |-> "pending", lease |-> 0]

Init ==
  /\ commands = <<>>
  /\ last_id = 0
  /\ agent = NotFound
  /\ latest = 0
  /\ calls = {}
  /\ call = NoCall
  /\ at = "tick"
  /\ registered = FALSE
  /\ applied_config_version = 0
  /\ exports_paused = FALSE
  /\ inbox = {}
  /\ derived = FALSE
  /\ current = 0
  /\ executed = {}
  /\ exits = [i \in 1..MaxCommands |-> 0]
  /\ faults = 0

-----------------------------------------------------------------------------
(* Operators and time.                                                     *)

\* ControlCommand.new_id.  Without the fault, ids that do not repeat.
NewIds == IF "id_reuse" \in Faults THEN (last_id + 1)..MaxCommands
                                   ELSE {Len(commands) + 1}

EnqueueCommand(k) ==
  /\ agent # NotFound
  /\ Len(commands) < MaxCommands
  /\ \E i \in NewIds :
       /\ commands' = Append(commands, Command(i, k))
       /\ last_id' = i
  /\ UNCHANGED <<agent, latest, calls, worker_vars, executed, exits, faults>>

\* put_pipeline and rollback_pipeline both publish a higher version.
PutPipeline ==
  /\ latest < MaxVersion
  /\ latest' = latest + 1
  /\ UNCHANGED <<commands, last_id, agent, calls, worker_vars, executed, exits,
                 faults>>

\* A delivered command's lease is the order in which the leases run out: the
\* one with lease 1 is next, 0 has run out.
LeaseExpires ==
  /\ \E i \in DOMAIN commands : commands[i].lease > 0
  /\ commands' = [i \in DOMAIN commands |->
       [commands[i] EXCEPT !.lease = IF @ > 0 THEN @ - 1 ELSE 0]]
  /\ UNCHANGED <<last_id, agent, latest, calls, worker_vars, executed, exits, faults>>

-----------------------------------------------------------------------------
(* The server.  A call it serves is the worker's or one the worker gave up *)
(* on; only the first gets its answer back.                                *)

Moves(c, d) ==
  \/ c = call /\ call' = d /\ UNCHANGED calls
  \/ /\ c \in calls
     /\ calls' = (calls \ {c}) \cup (IF d.stage = "done" THEN {} ELSE {d})
     /\ UNCHANGED call

Answers(c, d) == Moves(c, [d EXCEPT !.stage = "done"])

worker_rest == <<at, registered, applied_config_version, exports_paused, inbox,
                 derived, current>>

RegisterAgent(c) ==
  /\ c.op = "register" /\ c.stage = "sent"
  /\ agent' = 0
  /\ Answers(c, [c EXCEPT !.ok = TRUE])
  /\ UNCHANGED <<commands, last_id, latest, worker_rest, executed, exits, faults>>

\* The first step of ControlService.heartbeat.
HeartbeatAgent(c) ==
  /\ c.op = "heartbeat" /\ c.stage = "sent"
  /\ IF agent = NotFound
     THEN Answers(c, c) /\ UNCHANGED agent
     ELSE Moves(c, [c EXCEPT !.stage = "heard"]) /\ agent' = c.version
  /\ UNCHANGED <<commands, last_id, latest, worker_rest, executed, exits, faults>>

\* Mutant: a settled command without a lease is handed out again.
deliverable_always(i) == commands[i].lease = 0

\* Mutant: a command is handed out once, the lease is ignored.
deliverable_once(i) == commands[i].status = "pending"

deliverable(i) ==
  \/ commands[i].status = "pending"
  \/ commands[i].status = "delivered" /\ commands[i].lease = 0

\* The lease that starts now runs out last.
NextLease ==
  CHOOSE n \in 1..(MaxCommands + 1) :
    /\ \A i \in DOMAIN commands : commands[i].lease < n
    /\ n = 1 \/ \E i \in DOMAIN commands : commands[i].lease = n - 1

\* The second step: CommandQueue.drain.  It goes by ids, not by commands.
DrainCommands(c) ==
  LET ids == {commands[i].id : i \in {j \in DOMAIN commands : deliverable(j)}}
      delivered == {i \in DOMAIN commands : commands[i].id \in ids} IN
  /\ c.op = "heartbeat" /\ c.stage = "heard"
  /\ commands' = [i \in DOMAIN commands |->
       IF i \in delivered
       THEN [commands[i] EXCEPT !.status = "delivered", !.lease = NextLease]
       ELSE commands[i]]
  /\ Moves(c, [c EXCEPT !.stage = "drained", !.got = delivered])
  /\ UNCHANGED <<last_id, agent, latest, worker_rest, executed, exits, faults>>

\* Mutant: only the very next version makes the agent out of date.
NextVersionOnly(c) == latest = c.version + 1

OutOfDate(c) == latest > c.version

\* The third step: the version, and the derived reload_config.
LatestConfigVersion(c) ==
  /\ c.op = "heartbeat" /\ c.stage = "drained"
  /\ Answers(c, [c EXCEPT !.reload = OutOfDate(c), !.ok = TRUE])
  /\ UNCHANGED <<commands, last_id, agent, latest, worker_rest, executed, exits,
                 faults>>

\* ControlService.config_update; version 0 in the answer is :up_to_date.
FetchConfig(c) ==
  /\ c.op = "config" /\ c.stage = "sent"
  /\ Answers(c, [c EXCEPT !.ok = agent # NotFound /\ latest > 0,
                          !.version = IF OutOfDate(c) THEN latest ELSE 0])
  /\ UNCHANGED <<commands, last_id, agent, latest, worker_rest, executed, exits,
                 faults>>

\* Mutant: a late answer overwrites the outcome on record.
never_terminal(i) == FALSE

terminal(i) == commands[i].status \in {"succeeded", "failed"}

\* Mutant: the answer is recorded as a success, whatever it says.
always_succeeded(i, success) ==
  [commands[i] EXCEPT !.status = "succeeded", !.lease = 0]

mark_acknowledged(i, success) ==
  [commands[i] EXCEPT !.status = IF success THEN "succeeded" ELSE "failed",
                      !.lease = 0]

\* CommandQueue.ack.  With two commands of one id no clause matches, the
\* process crashes and reloads its file, and the caller gets an error.
AckCommand(c) ==
  LET matching == {i \in DOMAIN commands : commands[i].id = c.id} IN
  /\ c.op = "ack" /\ c.stage = "sent"
  /\ IF agent # NotFound /\ \E i \in matching : matching = {i} /\ ~terminal(i)
     THEN commands' = [i \in DOMAIN commands |->
            IF i \in matching THEN mark_acknowledged(i, c.success) ELSE commands[i]]
     ELSE UNCHANGED commands
  /\ Answers(c, [c EXCEPT !.ok = Cardinality(matching) = 1])
  /\ UNCHANGED <<last_id, agent, latest, worker_rest, executed, exits, faults>>

Server(c) ==
  \/ RegisterAgent(c) \/ HeartbeatAgent(c) \/ DrainCommands(c)
  \/ LatestConfigVersion(c) \/ FetchConfig(c) \/ AckCommand(c)

-----------------------------------------------------------------------------
(* The control worker.                                                     *)

Sends(c) == call' = c

register == Call("register")

heartbeat == [Call("heartbeat") EXCEPT !.version = applied_config_version]

config_update == [Call("config") EXCEPT !.version = applied_config_version]

ack_command(i, ok) ==
  [Call("ack") EXCEPT !.id = commands[i].id, !.of = i, !.success = ok]

Tick ==
  /\ at = "tick"
  /\ at' = "call"
  /\ Sends(IF registered THEN heartbeat ELSE register)
  /\ UNCHANGED <<server_vars, registered, applied_config_version, exports_paused,
                 inbox, derived, current, executed, exits, faults>>

Returned(op) == at \in {"call", "exit"} /\ call.op = op /\ call.stage = "done"

Accepted == call.ok

\* A failed registration waits for the next tick; an accepted one goes on.
RegisterReturns ==
  /\ Returned("register")
  /\ registered' = Accepted
  /\ at' = IF Accepted THEN "call" ELSE "tick"
  /\ Sends(IF Accepted THEN heartbeat ELSE NoCall)
  /\ UNCHANGED <<server_vars, applied_config_version, exports_paused, inbox, derived,
                 current, executed, exits, faults>>

HeartbeatReturns ==
  /\ Returned("heartbeat")
  /\ at' = IF call.ok THEN "commands" ELSE "tick"
  /\ inbox' = IF call.ok THEN call.got ELSE {}
  /\ derived' = (call.ok /\ call.reload)
  /\ Sends(NoCall)
  /\ UNCHANGED <<server_vars, registered, applied_config_version, exports_paused,
                 current, executed, exits, faults>>

\* ack_if_delivered: a derived command is pending in the answer and gets none.
Conclude(i, success) ==
  IF i = 0
  THEN /\ at' = "commands"
       /\ Sends(NoCall)
       /\ UNCHANGED executed
  ELSE /\ at' = "call"
       /\ Sends(ack_command(i, success))
       /\ executed' = executed \cup {<<i, success>>}

\* Mutant: the newest command first.
IsLast(i) == i \in inbox /\ \A j \in inbox : j <= i

IsNext(i) == i \in inbox /\ \A j \in inbox : i <= j

SetPaused(i, b) ==
  /\ at = "commands"
  /\ IsNext(i)
  /\ commands[i].kind = IF b THEN "pause_exports" ELSE "resume_exports"
  /\ inbox' = inbox \ {i}
  /\ exports_paused' = b
  /\ Conclude(i, TRUE)
  /\ UNCHANGED <<server_vars, registered, applied_config_version, derived, current,
                 exits, faults>>

\* The derived reload_config comes after the operators' commands.
ReloadConfig(i) ==
  /\ at = "commands"
  /\ \/ IsNext(i) /\ commands[i].kind = "reload_config" /\ UNCHANGED derived
     \/ i = 0 /\ inbox = {} /\ derived /\ derived' = FALSE
  /\ inbox' = inbox \ {i}
  /\ current' = i
  /\ at' = "call"
  /\ Sends(config_update)
  /\ UNCHANGED <<server_vars, registered, applied_config_version, exports_paused,
                 executed, exits, faults>>

Applies == call.ok /\ call.version > 0 /\ call.version \notin Rejected

\* fetch_and_apply_config: an error, no update, or an update that
\* validate_config_update and reload_config accept or refuse.
ConfigReturns ==
  /\ Returned("config")
  /\ applied_config_version' = IF Applies THEN call.version ELSE applied_config_version
  /\ Conclude(current, call.ok /\ (call.version = 0 \/ Applies))
  /\ UNCHANGED <<server_vars, registered, exports_paused, inbox, derived, current,
                 exits, faults>>

DrainAndRestart(i) ==
  /\ at = "commands"
  /\ IsNext(i)
  /\ commands[i].kind = "drain_and_restart"
  /\ inbox' = inbox \ {i}
  /\ current' = i
  /\ at' = "drain"
  /\ UNCHANGED <<server_vars, call, registered, applied_config_version,
                 exports_paused, derived, executed, exits, faults>>

\* A flush failed: the command failed, and the loop goes on.
DrainFails ==
  /\ at = "drain"
  /\ Conclude(current, FALSE)
  /\ UNCHANGED <<server_vars, registered, applied_config_version, exports_paused,
                 inbox, derived, current, exits, faults>>

\* A flush found nothing left: acknowledge, then exit.
DrainCompletes ==
  /\ at = "drain"
  /\ at' = "exit"
  /\ Sends(ack_command(current, TRUE))
  /\ executed' = executed \cup {<<current, TRUE>>}
  /\ UNCHANGED <<server_vars, registered, applied_config_version, exports_paused,
                 inbox, derived, current, exits, faults>>

\* The worker of the process a supervisor starts.
Started ==
  /\ call' = NoCall
  /\ at' = "tick"
  /\ registered' = FALSE
  /\ applied_config_version' = 0
  /\ exports_paused' = FALSE
  /\ inbox' = {}
  /\ derived' = FALSE
  /\ current' = 0

\* Whatever the answer to an acknowledgement is, it is not sent again.
AckReturns ==
  /\ Returned("ack")
  /\ IF at = "exit"
     THEN /\ Started
          /\ exits' = [exits EXCEPT ![current] = @ + 1]
     ELSE /\ at' = "commands"
          /\ Sends(NoCall)
          /\ UNCHANGED <<registered, applied_config_version, exports_paused, inbox,
                         derived, current, exits>>
  /\ UNCHANGED <<server_vars, executed, faults>>

EndOfCommands ==
  /\ at = "commands"
  /\ inbox = {} /\ ~derived
  /\ at' = "tick"
  /\ UNCHANGED <<server_vars, call, registered, applied_config_version,
                 exports_paused, inbox, derived, current, executed, exits, faults>>

Worker ==
  \/ Tick \/ RegisterReturns \/ HeartbeatReturns
  \/ \E i \in DOMAIN commands, b \in BOOLEAN : SetPaused(i, b)
  \/ \E i \in {0} \cup DOMAIN commands : ReloadConfig(i)
  \/ \E i \in DOMAIN commands : DrainAndRestart(i)
  \/ ConfigReturns \/ DrainFails \/ DrainCompletes \/ AckReturns \/ EndOfCommands

-----------------------------------------------------------------------------
(* Faults.                                                                 *)

Fault(class) ==
  /\ class \in Faults
  /\ faults < MaxFaults
  /\ faults' = faults + 1

\* What the server has of the worker's call outlives it.
Abandoned == IF call.stage = "done" THEN calls ELSE calls \cup {call}

\* The agent sees an error before, while or after the server serves the call.
CallFails ==
  /\ Fault("error")
  /\ at \in {"call", "exit"}
  /\ calls' = Abandoned
  /\ call' = [call EXCEPT !.stage = "done", !.ok = FALSE]
  /\ UNCHANGED <<commands, last_id, agent, latest, worker_rest, executed, exits>>

\* A call the agent gave up on never reaches the server.
CallLost ==
  /\ \E c \in calls : calls' = calls \ {c}
  /\ UNCHANGED <<commands, last_id, agent, latest, worker_vars, executed, exits, faults>>

\* No answer and no error: the client waits, without a timeout.
CallSilent ==
  /\ Fault("silence")
  /\ call.stage # "done"
  /\ call' = [call EXCEPT !.stage = "silent"]
  /\ UNCHANGED <<server_vars, worker_rest, executed, exits>>

ServerRestarts ==
  /\ Fault("server")
  /\ last_id' = 0
  /\ calls' = {}
  /\ call' = IF call.stage = "done" THEN call
             ELSE [call EXCEPT !.stage = "done", !.ok = FALSE]
  /\ UNCHANGED <<commands, agent, latest, worker_rest, executed, exits>>

AgentRestarts ==
  /\ Fault("agent")
  /\ Started
  /\ calls' = Abandoned
  /\ UNCHANGED <<commands, last_id, agent, latest, executed, exits>>

Next ==
  \/ \E k \in Kinds : EnqueueCommand(k)
  \/ PutPipeline \/ LeaseExpires
  \/ \E c \in calls \cup {call} : Server(c)
  \/ Worker
  \/ CallFails \/ CallLost \/ CallSilent \/ ServerRestarts \/ AgentRestarts

Spec == Init /\ [][Next]_vars

\* Tokio and the BEAM run every ready task; leases run out with time.
Fairness == WF_vars(Worker) /\ WF_vars(Server(call)) /\ WF_vars(LeaseExpires)

LiveSpec == Spec /\ Fairness

-----------------------------------------------------------------------------
Calls ==
  [op : {"none", "register", "heartbeat", "config", "ack"},
   stage : {"sent", "heard", "drained", "silent", "done"},
   version : Nat, id : Nat, of : Nat, success : BOOLEAN, got : SUBSET Nat,
   reload : BOOLEAN, ok : BOOLEAN]

TypeOK ==
  /\ commands \in Seq([id : Nat, kind : Kinds, lease : Nat,
                       status : {"pending", "delivered", "succeeded", "failed"}])
  /\ last_id \in Nat
  /\ agent \in Nat \cup {NotFound}
  /\ latest \in Nat
  /\ calls \subseteq Calls
  /\ call \in Calls
  /\ at \in {"tick", "call", "commands", "drain", "exit"}
  /\ registered \in BOOLEAN
  /\ applied_config_version \in Nat
  /\ exports_paused \in BOOLEAN
  /\ inbox \subseteq DOMAIN commands
  /\ derived \in BOOLEAN
  /\ current \in {0} \cup DOMAIN commands
  /\ executed \subseteq ((DOMAIN commands) \X BOOLEAN)
  /\ exits \in [1..MaxCommands -> Nat]
  /\ faults \in Nat

\* The status on record is true: a command is succeeded or failed only if the
\* agent executed exactly that command and it ended that way, whatever calls
\* failed, were served late or repeated (ack_if_delivered, CommandQueue.ack).
OutcomeTrue ==
  \A i \in DOMAIN commands :
    /\ commands[i].status = "succeeded" => <<i, TRUE>> \in executed
    /\ commands[i].status = "failed" => <<i, FALSE>> \in executed

\* A restart is repeated only for a reason: the same drain_and_restart ends the
\* agent's process again only if a fault kept its acknowledgement away.
RestartsAccounted == \A i \in DOMAIN exits : exits[i] <= 1 + faults

\* An agent that believes it is registered is: the worker never registers
\* again, so every heartbeat of it would be refused for good.
RegistrationHolds == registered => agent # NotFound

\* While no fault and no restart of the agent comes in between, the last pause or
\* resume decides once the worker is done with everything: exports are paused
\* exactly if the newest such command says so.
LastCommandWins ==
  LET settings == {i \in DOMAIN commands :
                     commands[i].kind \in {"pause_exports", "resume_exports"}} IN
  (/\ settings # {} /\ at = "tick" /\ \A i \in settings : terminal(i)
   /\ faults = 0 /\ \A i \in DOMAIN exits : exits[i] = 0)
    => \E i \in settings : /\ \A j \in settings : j <= i
                           /\ exports_paused <=> commands[i].kind = "pause_exports"

\* The queue keeps an operator's view of every command: pending, handed out,
\* settled once by an outcome of its own (CommandLifecycle).
Lifecycle == INSTANCE CommandLifecycle
               WITH status <- [i \in DOMAIN commands |-> commands[i].status]

ImplementsLifecycle == Lifecycle!LifecycleSpec

\* A settled command stays as it is.
TerminalStays ==
  [][\A i \in DOMAIN commands : terminal(i) => commands'[i].status = commands[i].status]_vars

\* A call without an answer and without an error holds the worker for good.
Silent == call.stage = "silent"

\* Unless a call stays silent, every command is settled in the end: lost answers
\* are made up for by the lease, commands cut off by a restart are handed out
\* again.
CommandsSettled ==
  \A n \in 1..MaxCommands :
    n \in DOMAIN commands ~> Silent \/ (n \in DOMAIN commands /\ terminal(n))

\* Unless a call stays silent, the agent ends up on the latest pipeline version,
\* or refuses it.
ConfigConverges ==
  <>[](Silent \/ latest \in Rejected \/ applied_config_version = latest)

\* The agent keeps sending heartbeats.
HeartbeatsRecur == []<>(at = "call" /\ call.op = "heartbeat")
=============================================================================
