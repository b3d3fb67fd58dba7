-------------------------- MODULE CommandLifecycle --------------------------
(***************************************************************************)
(* What the control plane promises an operator about a command: it is      *)
(* pending until a heartbeat hands it out, it may be handed out again      *)
(* while it is unanswered, and it ends, once and for all, as the outcome   *)
(* of an execution the agent really made.  Commands are numbered in the    *)
(* order they were enqueued.                                               *)
(***************************************************************************)
EXTENDS Integers, Sequences

VARIABLES
  status,    \* status[i]: the state of command i
  executed   \* <<i, ok>>: the agent executed command i with this outcome

lifecycle_vars == <<status, executed>>

Outcome(ok) == IF ok THEN "succeeded" ELSE "failed"

LifecycleInit == status = <<>> /\ executed = {}

Enqueued ==
  /\ status' = Append(status, "pending")
  /\ UNCHANGED executed

HandedOut ==
  /\ \E S \in SUBSET DOMAIN status :
       /\ \A i \in S : status[i] \in {"pending", "delivered"}
       /\ status' = [i \in DOMAIN status |-> IF i \in S THEN "delivered" ELSE status[i]]
  /\ UNCHANGED executed

Executed ==
  \E i \in DOMAIN status, ok \in BOOLEAN :
    /\ status[i] # "pending"
    /\ executed' = executed \cup {<<i, ok>>}
    /\ UNCHANGED status

Settled ==
  \E i \in DOMAIN status, ok \in BOOLEAN :
    /\ status[i] = "delivered"
    /\ <<i, ok>> \in executed
    /\ status' = [status EXCEPT ![i] = Outcome(ok)]
    /\ UNCHANGED executed

LifecycleNext == Enqueued \/ HandedOut \/ Executed \/ Settled

LifecycleSpec == LifecycleInit /\ [][LifecycleNext]_lifecycle_vars
=============================================================================
