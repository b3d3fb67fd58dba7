----------------------------- MODULE MCPostgres -----------------------------
(***************************************************************************)
(* The two ways to use PostgreSQL: as the store of the control plane, or   *)
(* as the place its files are copied to.  A control plane is started in    *)
(* one of the two modes.  As the store, requests about versions and        *)
(* requests about commands use different rows, so each kind is checked     *)
(* with requests of its own kind.  As the copy, versions and commands      *)
(* together are at most MaxCommands.                                       *)
(***************************************************************************)
EXTENDS PostgresStore

CONSTANTS Agents, MaxVersions, MaxFaults

VARIABLES
  mode,   \* what PostgreSQL is used for
  agents, file_versions, file_commands, events, last_id, step, snapshot, db,
  faults

sync_vars == <<agents, file_versions, file_commands, events, last_id, step, snapshot, db,
               faults>>

Sync == INSTANCE PostgresSync
          WITH versions <- file_versions, commands <- file_commands

Asked == [versions |-> {"put", "rollback"}, commands |-> {"drain", "ack"}]

MCInit == mode \in DOMAIN Asked \cup {"sync"} /\ Init /\ Sync!Init

MCNext ==
  \/ /\ mode \in DOMAIN Asked
     /\ Next
     /\ \A r \in Requests : tx'[r].op \in Asked[mode] \cup {"none"}
     /\ UNCHANGED <<mode, sync_vars>>
  \/ /\ mode = "sync"
     /\ Sync!Next
     /\ file_versions' + Len(file_commands') <= MaxCommands
     /\ UNCHANGED <<mode, vars>>

all == <<mode, vars, sync_vars>>

MCSpec ==
  /\ MCInit /\ [][MCNext]_all
  /\ \A r \in Requests :
       WF_all(mode # "sync" /\ Serve(r) /\ UNCHANGED <<mode, sync_vars>>)
  /\ WF_all(mode = "sync" /\ Sync!Sync /\ UNCHANGED <<mode, vars>>)

\* What the copy promises, of a control plane that makes one: see PostgresSync.
CommandsPreserved == Sync!CommandsPreserved
RowsAudited == Sync!RowsAudited
=============================================================================
