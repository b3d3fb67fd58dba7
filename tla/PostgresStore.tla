---------------------------- MODULE PostgresStore ----------------------------
(***************************************************************************)
(* PostgresControlStore: the control plane's store when PostgreSQL is the  *)
(* source of truth.  Every request runs its own transaction, at the        *)
(* default READ COMMITTED: a statement sees what was committed when it     *)
(* began, writes become visible at the commit, and a row that another      *)
(* transaction has locked or inserted makes the statement wait.            *)
(*                                                                         *)
(* Modelled for one tenant, one pipeline and one agent, after they exist:  *)
(* put_pipeline, rollback_pipeline, enqueue_command, drain_commands and    *)
(* ack_command.                                                            *)
(***************************************************************************)
EXTENDS Integers, Sequences, FiniteSets, FiniteSetsExt

CONSTANTS
  Requests,      \* requests, each served once
  Ops,           \* what each may ask for
  MaxCommands,   \* bound: commands
  MaxExpired,    \* bound: leases of one command that run out
  MaxAborts      \* bound: transactions that are cut off

ASSUME StoreAssumption == MaxCommands \in Nat /\ MaxExpired \in Nat /\ MaxAborts \in Nat

VARIABLES
  versions,   \* pipeline_versions: the request that made each version; 0 at first
  commands,   \* agent_commands: [status, leased], in the order of inserted_at
  locks,      \* locks[c]: the requests that hold the row of command c
  tenant,     \* the requests that hold the row of the tenant
  tx,         \* tx[r]: where request r is and what it has read
  handed,     \* handed[c]: how often command c was handed out
  expired,    \* expired[c]: how many leases of command c have run out
  aborts

vars == <<versions, commands, locks, tenant, tx, handed, expired, aborts>>

\* at: the next statement; op and of: the request; version: the one it computed;
\* ids: rows it has found and not yet looked at; pending: rows it holds
Idle == [at |-> "idle", op |-> "none", of |-> 0, version |-> 0, ids |-> {}, pending |-> {}]

Init ==
  /\ versions = <<0>>
  /\ commands = <<>>
  /\ locks = [c \in 1..MaxCommands |-> {}]
  /\ tenant = {}
  /\ tx = [r \in Requests |-> Idle]
  /\ handed = [c \in 1..MaxCommands |-> 0]
  /\ expired = [c \in 1..MaxCommands |-> 0]
  /\ aborts = 0

-----------------------------------------------------------------------------
Begin(r, op, of, at) ==
  /\ tx[r].at = "idle"
  /\ op \in Ops
  /\ tx' = [tx EXCEPT ![r] = [Idle EXCEPT !.at = at, !.op = op, !.of = of]]

\* put_pipeline begins with ensure_tenant!, rollback_pipeline with the target.
BeginPut(r) ==
  /\ Begin(r, "put", 0, "ensure_tenant")
  /\ UNCHANGED <<versions, commands, locks, tenant, handed, expired, aborts>>

BeginRollback(r, target) ==
  /\ Begin(r, "rollback", target, "target")
  /\ UNCHANGED <<versions, commands, locks, tenant, handed, expired, aborts>>

BeginDrain(r) ==
  /\ Begin(r, "drain", 0, "select")
  /\ UNCHANGED <<versions, commands, locks, tenant, handed, expired, aborts>>

\* The agent acknowledges what it was handed.
BeginAck(r, c) ==
  /\ handed[c] > 0
  /\ Begin(r, "ack", c, "lock_one")
  /\ UNCHANGED <<versions, commands, locks, tenant, handed, expired, aborts>>

\* The row is locked until the end of the transaction.
ensure_tenant(r) ==
  /\ tx[r].at = "ensure_tenant"
  /\ tenant = {}
  /\ tenant' = {r}
  /\ tx' = [tx EXCEPT ![r].at = "next_version"]
  /\ UNCHANGED <<versions, commands, locks, handed, expired, aborts>>

FindTarget(r) ==
  /\ tx[r].at = "target"
  /\ tx' = [tx EXCEPT ![r].at =
       IF tx[r].of \in DOMAIN versions THEN "next_version" ELSE "error"]
  /\ UNCHANGED <<versions, commands, locks, tenant, handed, expired, aborts>>

next_pipeline_version(r) == Len(versions) + 1

NextVersion(r) ==
  /\ tx[r].at = "next_version"
  /\ tx' = [tx EXCEPT ![r].at = "insert", ![r].version = next_pipeline_version(r)]
  /\ UNCHANGED <<versions, commands, locks, tenant, handed, expired, aborts>>

\* Another transaction has inserted this version and not ended yet.
Contended(r) == \E q \in Requests : tx[q].at = "inserted" /\ tx[q].version = tx[r].version

\* Mutant: on_conflict: :nothing, and the request goes on.
insert_ignored(r) == "inserted"

\* The primary key: a version that exists raises.
insert_result(r) == IF tx[r].version \in DOMAIN versions THEN "error" ELSE "inserted"

insert_pipeline_version(r) ==
  /\ tx[r].at = "insert"
  /\ ~Contended(r)
  /\ tx' = [tx EXCEPT ![r].at = insert_result(r)]
  /\ tenant' = IF tx'[r].at = "error" THEN tenant \ {r} ELSE tenant
  /\ UNCHANGED <<versions, commands, locks, handed, expired, aborts>>

\* The audit event goes with it.
CommitVersion(r) ==
  /\ tx[r].at = "inserted"
  /\ versions' = IF tx[r].version = Len(versions) + 1 THEN Append(versions, r) ELSE versions
  /\ tenant' = tenant \ {r}
  /\ tx' = [tx EXCEPT ![r].at = "ok"]
  /\ UNCHANGED <<commands, locks, handed, expired, aborts>>

-----------------------------------------------------------------------------
\* One statement and its event: nothing to wait for.
EnqueueCommand ==
  /\ Len(commands) < MaxCommands
  /\ commands' = Append(commands, [status |-> "pending", leased |-> FALSE])
  /\ UNCHANGED <<versions, locks, tenant, tx, handed, expired, aborts>>

LeaseExpires(c) ==
  /\ commands[c].leased
  /\ expired[c] < MaxExpired
  /\ expired' = [expired EXCEPT ![c] = @ + 1]
  /\ commands' = [commands EXCEPT ![c].leased = FALSE]
  /\ UNCHANGED <<versions, locks, tenant, tx, handed, aborts>>

deliverable(c) ==
  \/ commands[c].status = "pending"
  \/ commands[c].status = "delivered" /\ ~commands[c].leased

\* The SELECT begins: the rows it will lock, in order.
SelectCommands(r) ==
  /\ tx[r].at = "select"
  /\ tx' = [tx EXCEPT ![r].at = "lock", ![r].ids = {c \in DOMAIN commands : deliverable(c)}]
  /\ UNCHANGED <<versions, commands, locks, tenant, handed, expired, aborts>>

Free(c, r) == locks[c] \subseteq {r}

\* Mutant: without FOR UPDATE the rows are taken as they were found.
take_all(c) == TRUE

\* FOR UPDATE looks again at a row it had to wait for.
still_wanted(c) == deliverable(c)

\* Mutant: without ORDER BY the rows are locked in any order.
LockAny(r) ==
  /\ tx[r].at = "lock"
  /\ \E c \in tx[r].ids :
     /\ Free(c, r)
     /\ locks' = [locks EXCEPT ![c] = IF still_wanted(c) THEN {r} ELSE @]
     /\ tx' = [tx EXCEPT ![r].ids = @ \ {c},
                         ![r].pending = IF still_wanted(c) THEN @ \cup {c} ELSE @]
  /\ UNCHANGED <<versions, commands, tenant, handed, expired, aborts>>

LockNext(r) ==
  /\ tx[r].at = "lock"
  /\ tx[r].ids # {}
  /\ LET c == Min(tx[r].ids) IN
     /\ Free(c, r)
     /\ locks' = [locks EXCEPT ![c] = IF still_wanted(c) THEN {r} ELSE @]
     /\ tx' = [tx EXCEPT ![r].ids = @ \ {c},
                         ![r].pending = IF still_wanted(c) THEN @ \cup {c} ELSE @]
  /\ UNCHANGED <<versions, commands, tenant, handed, expired, aborts>>

Unlock(r) == [c \in DOMAIN locks |-> locks[c] \ {r}]

\* update_all, the events, and the commit.
CommitDrain(r) ==
  /\ tx[r].at = "lock"
  /\ tx[r].ids = {}
  /\ commands' = [c \in DOMAIN commands |->
       IF c \in tx[r].pending THEN [status |-> "delivered", leased |-> TRUE] ELSE commands[c]]
  /\ handed' = [c \in DOMAIN handed |-> handed[c] + IF c \in tx[r].pending THEN 1 ELSE 0]
  /\ locks' = Unlock(r)
  /\ tx' = [tx EXCEPT ![r].at = "ok"]
  /\ UNCHANGED <<versions, tenant, expired, aborts>>

LockOne(r) ==
  /\ tx[r].at = "lock_one"
  /\ Free(tx[r].of, r)
  /\ locks' = [locks EXCEPT ![tx[r].of] = {r}]
  /\ tx' = [tx EXCEPT ![r].at = "ack"]
  /\ UNCHANGED <<versions, commands, tenant, handed, expired, aborts>>

terminal(c) == commands[c].status \in {"succeeded", "failed"}

\* Mutant: the status says only that there was an answer.
acknowledged(success) == "acknowledged"

ack_status(success) == IF success THEN "succeeded" ELSE "failed"

CommitAck(r, success) ==
  LET c == tx[r].of IN
  /\ tx[r].at = "ack"
  /\ commands' = IF terminal(c) THEN commands
                 ELSE [commands EXCEPT ![c] =
                        [status |-> ack_status(success), leased |-> FALSE]]
  /\ locks' = Unlock(r)
  /\ tx' = [tx EXCEPT ![r].at = "ok"]
  /\ UNCHANGED <<versions, tenant, handed, expired, aborts>>

\* The connection or the request's process ends: the transaction is undone.
Abort(r) ==
  /\ tx[r].at \notin {"idle", "ok", "error"}
  /\ aborts < MaxAborts
  /\ aborts' = aborts + 1
  /\ locks' = Unlock(r)
  /\ tenant' = tenant \ {r}
  /\ tx' = [tx EXCEPT ![r].at = "error"]
  /\ UNCHANGED <<versions, commands, handed, expired>>

Serve(r) ==
  \/ ensure_tenant(r) \/ FindTarget(r) \/ NextVersion(r) \/ insert_pipeline_version(r)
  \/ CommitVersion(r) \/ SelectCommands(r) \/ LockNext(r) \/ CommitDrain(r) \/ LockOne(r)
  \/ \E b \in BOOLEAN : CommitAck(r, b)

Next ==
  \/ EnqueueCommand
  \/ \E c \in DOMAIN commands : LeaseExpires(c)
  \/ \E r \in Requests :
       \/ BeginPut(r) \/ BeginDrain(r)
       \/ \E v \in 1..(Len(versions) + 1) : BeginRollback(r, v)
       \/ \E c \in DOMAIN commands : BeginAck(r, c)
       \/ Serve(r) \/ Abort(r)

\* Every request has a process and a connection of its own.
Spec == Init /\ [][Next]_vars /\ \A r \in Requests : WF_vars(Serve(r))

-----------------------------------------------------------------------------
TypeOK ==
  /\ versions \in Seq(Requests \cup {0})
  /\ \A c \in DOMAIN commands :
       commands[c].status \in {"pending", "delivered", "succeeded", "failed"}
  /\ \A c \in DOMAIN locks : Cardinality(locks[c]) <= 1
  /\ Cardinality(tenant) <= 1

\* What an operator was told is there: the version that a put or a rollback
\* answered with is the one it made, and nobody else's, although two requests
\* may compute the same next version.
PublishedKept ==
  \A r \in Requests :
    tx[r].at = "ok" /\ tx[r].op \in {"put", "rollback"} =>
      tx[r].version \in DOMAIN versions /\ versions[tx[r].version] = r

\* A command is handed out once, and once more for every lease of it that ran
\* out, however many heartbeats of the agent are served at the same time.
HandedOncePerLease == \A c \in DOMAIN handed : handed[c] <= 1 + expired[c]

\* A heartbeat that is served at the same time as an acknowledgement does not
\* take a settled command back.
SettledStays ==
  [][\A c \in DOMAIN commands : terminal(c) => commands'[c] = commands[c]]_vars

\* No request waits for ever: for the tenant's row, for a version that another
\* one inserts, or for the rows of commands.
RequestsEnd == \A r \in Requests : tx[r].at # "idle" ~> tx[r].at \in {"ok", "error"}
=============================================================================
