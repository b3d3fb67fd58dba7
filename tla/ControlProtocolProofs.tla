------------------------ MODULE ControlProtocolProofs ------------------------
(***************************************************************************)
(* The control protocol for any number of commands, versions and faults,   *)
(* under every fault class but the reuse of command ids: the status on     *)
(* record is true, a settled command stays, registration holds, the queue  *)
(* implements CommandLifecycle, every exit of the agent beyond the first   *)
(* is owed to a fault, and the last pause or resume wins.                  *)
(*                                                                         *)
(* OutcomeTrue is not inductive: an acknowledgement may be on its way, or  *)
(* abandoned by the agent and still with the server.  IInv says what is    *)
(* true of every call under way (CallOK), of the commands the worker still *)
(* has to execute, and that a command's id is its place in the queue.      *)
(* Accounted adds the exits a command may still cause, Orderly the order   *)
(* in which commands are handed out and, while nothing has failed, run.    *)
(***************************************************************************)
EXTENDS ControlProtocol, SequenceTheorems, TLAPS

Statuses == {"pending", "delivered", "succeeded", "failed"}

\* The rows of the queue; nothing is said about the order of the leases.
Rows == {commands[i] : i \in DOMAIN commands}

Row(i) ==
  /\ DOMAIN commands[i] = {"id", "kind", "status", "lease"}
  /\ commands[i].id = i
  /\ commands[i].status \in Statuses

RowsOK ==
  /\ commands \in Seq(Rows)
  /\ \A i \in DOMAIN commands : Row(i)

Handed == {i \in DOMAIN commands : commands[i].status # "pending"}

\* What a call says is true, and stays true while it is under way.
CallOK(c) ==
  /\ c \in Calls
  /\ c.got \subseteq Handed
  /\ c.op = "register" /\ c.ok => agent # NotFound
  /\ c.op = "ack" => c.of \in Handed /\ c.id = c.of /\ <<c.of, c.success>> \in executed

CallsOK == \A c \in calls \cup {call} : CallOK(c)

WorkerOK ==
  /\ inbox \subseteq Handed
  /\ current \in {0} \cup Handed
  /\ at = "drain" => current # 0
  /\ applied_config_version \in Nat

ServerOK ==
  /\ agent \in Nat \cup {NotFound}
  /\ latest \in Nat

IInv ==
  /\ RowsOK
  /\ CallsOK
  /\ WorkerOK
  /\ ServerOK
  /\ OutcomeTrue
  /\ RegistrationHolds

-----------------------------------------------------------------------------
(* What every step leaves true.                                            *)

Grows ==
  /\ Handed \subseteq Handed'
  /\ executed \subseteq executed'
  /\ agent # NotFound => agent' # NotFound

\* What CommandLifecycle allows.
Promised == [Lifecycle!LifecycleNext]_(Lifecycle!lifecycle_vars)

\* The provers, and the seconds each may take, for a step that names none.
USE SMTT(30), Z3T(30), ZenonT(30)

\* What is under way stays true when the server's state and the record of
\* what was executed only grow.
LEMMA CallKept ==
  ASSUME NEW c, CallOK(c), Grows
  PROVE  CallOK(c)'
BY DEF CallOK, Grows

LEMMA AllCallsKept ==
  ASSUME CallsOK, Grows, calls' \subseteq calls \cup {call},
         call' \in calls \cup {call} \/ CallOK(call)'
  PROVE  CallsOK'
<1> SUFFICES ASSUME NEW c \in calls' \cup {call'}
             PROVE  CallOK(c)'
  BY DEF CallsOK
<1>1. CASE c \in calls \cup {call}
  BY <1>1, CallKept DEF CallsOK
<1>2. CASE c = call' /\ CallOK(call)'
  BY <1>2 DEF CallOK
<1> QED
  BY <1>1, <1>2

\* Serving a call replaces it by what it has become.
LEMMA MovesKept ==
  ASSUME CallsOK, Grows, NEW c, NEW d, Moves(c, d), CallOK(d)'
  PROVE  CallsOK'
<1> SUFFICES ASSUME NEW e \in calls' \cup {call'}
             PROVE  CallOK(e)'
  BY DEF CallsOK
<1>1. e \in calls \cup {call} \/ e = d
  BY DEF Moves
<1>2. CASE e \in calls \cup {call}
  BY <1>2, CallKept DEF CallsOK
<1>3. CASE e = d
  BY <1>3
<1> QED
  BY <1>1, <1>2, <1>3

\* A queue with the same commands is made of the same number of rows.
LEMMA SameRows ==
  ASSUME RowsOK, commands' = [i \in DOMAIN commands |-> commands'[i]],
         \A i \in DOMAIN commands : Row(i)'
  PROVE  RowsOK' /\ DOMAIN commands' = DOMAIN commands
<1>1. DOMAIN commands' = DOMAIN commands
  OBVIOUS
<1>2. PICK n \in Nat : DOMAIN commands = 1..n
  BY LenProperties DEF RowsOK
<1>3. commands' \in [1..n -> Rows']
  BY <1>1, <1>2 DEF Rows
<1>4. commands' \in Seq(Rows')
  BY <1>3, SeqDef
<1> QED
  BY <1>1, <1>4 DEF RowsOK

\* What an answer changes in a call.
LEMMA AnsweredCall ==
  ASSUME NEW c \in Calls, NEW b \in BOOLEAN, NEW d,
         d = [[c EXCEPT !.ok = b] EXCEPT !.stage = "done"]
  PROVE  /\ d \in Calls
         /\ d.op = c.op /\ d.of = c.of /\ d.id = c.id /\ d.success = c.success
         /\ d.got = c.got /\ d.ok = b
BY ZenonT(30) DEF Calls

LEMMA QuietRows ==
  ASSUME RowsOK, commands' = commands
  PROVE  RowsOK' /\ Handed' = Handed
BY DEF RowsOK, Rows, Row, Handed

\* Nothing on record changes its meaning when only the record of executions grows.
LEMMA QuietOutcomes ==
  ASSUME OutcomeTrue, commands' = commands, executed \subseteq executed'
  PROVE  OutcomeTrue'
BY ZenonT(30) DEF OutcomeTrue

LEMMA QuietPromise ==
  ASSUME commands' = commands, executed' = executed
  PROVE  Promised
BY DEF Promised, Lifecycle!lifecycle_vars

\* A step of the server that leaves the queue alone.
LEMMA ServerStep ==
  ASSUME IInv, NEW c \in calls \cup {call}, NEW d, Moves(c, d), CallOK(d)',
         agent' = agent \/ agent' \in Nat,
         UNCHANGED <<commands, latest, worker_rest, executed>>
  PROVE  IInv' /\ Promised
<1>1. RowsOK' /\ Handed' = Handed
  BY QuietRows DEF IInv
<1>2. Grows
  BY <1>1 DEF Grows, NotFound
<1>3. CallsOK'
  BY <1>2, MovesKept DEF IInv
<1> QED
  BY <1>1, <1>3, QuietOutcomes, QuietPromise
     DEF IInv, WorkerOK, ServerOK, RegistrationHolds, worker_rest, NotFound

-----------------------------------------------------------------------------
(* The queue.                                                              *)

LEMMA EnqueueStep ==
  ASSUME IInv, "id_reuse" \notin Faults, NEW k \in Kinds, EnqueueCommand(k)
  PROVE  IInv' /\ Promised
<1> DEFINE row == Command(Len(commands) + 1, k)
           S == Rows \cup {row}
<1>1. commands \in Seq(S) /\ row \in S
  BY SeqMonotonic DEF IInv, RowsOK
<1>2. commands' = Append(commands, row)
  BY DEF EnqueueCommand, NewIds
<1>3. /\ commands' \in Seq(S)
      /\ Len(commands) \in Nat
      /\ DOMAIN commands = 1..Len(commands)
      /\ DOMAIN commands' = 1..(Len(commands) + 1)
      /\ \A i \in DOMAIN commands : commands'[i] = commands[i]
      /\ commands'[Len(commands) + 1] = row
  BY <1>1, <1>2, AppendProperties, LenProperties
<1> HIDE DEF S
<1>4. RowsOK'
  <2>1. commands' \in [1..(Len(commands) + 1) -> Rows']
    BY <1>3, LenProperties DEF Rows
  <2>2. commands' \in Seq(Rows')
    BY <1>3, <2>1, SeqDef
  <2>3. \A i \in DOMAIN commands' : Row(i)'
    BY <1>3 DEF IInv, RowsOK, Row, Command, Statuses
  <2> QED
    BY <2>2, <2>3 DEF RowsOK
<1>5. Handed' = Handed
  BY <1>3 DEF Handed, Command
<1>6. Grows
  BY <1>5 DEF Grows, EnqueueCommand
<1>7. CallsOK'
  BY <1>6, AllCallsKept DEF IInv, EnqueueCommand, worker_vars
<1>8. OutcomeTrue'
  <2>1. \A i \in DOMAIN commands' : i \in DOMAIN commands \/ commands'[i].status = "pending"
    BY <1>3 DEF Command
  <2>2. executed' = executed
    BY DEF EnqueueCommand
  <2> QED
    BY <1>3, <2>1, <2>2, ZenonT(30) DEF IInv, OutcomeTrue
<1>9. Lifecycle!Enqueued
  <2> DEFINE before == [i \in DOMAIN commands |-> commands[i].status]
             after == [i \in DOMAIN commands' |-> commands'[i].status]
  <2>1. before \in Seq(Statuses) /\ Len(before) = Len(commands)
    <3>1. before \in [1..Len(commands) -> Statuses]
      BY <1>3 DEF IInv, RowsOK, Row
    <3>2. before \in Seq(Statuses)
      BY <1>3, <3>1, SeqDef
    <3> QED
      BY <1>3, <3>1, <3>2, LenProperties
  <2>2. Append(before, "pending") \in Seq(Statuses) /\ after \in Seq(Statuses)
    <3>1. after \in [1..(Len(commands) + 1) -> Statuses]
      BY <1>3, <1>4 DEF RowsOK, Row
    <3> QED
      BY <1>3, <2>1, <3>1, SeqDef, AppendProperties DEF Statuses
  <2>3. after = Append(before, "pending")
    BY <1>3, <2>1, <2>2, AppendProperties, SeqEqual DEF Command, Statuses
  <2> QED
    BY <2>3 DEF Lifecycle!Enqueued, EnqueueCommand
<1> QED
  BY <1>4, <1>5, <1>7, <1>8, <1>9
     DEF Promised, Lifecycle!LifecycleNext, IInv, WorkerOK, ServerOK, RegistrationHolds, EnqueueCommand, worker_vars

LEMMA LeaseStep ==
  ASSUME IInv, LeaseExpires
  PROVE  IInv' /\ Promised
<1>1. /\ commands' = [i \in DOMAIN commands |-> commands'[i]]
      /\ \A i \in DOMAIN commands : Row(i)' /\ commands'[i].status = commands[i].status
  BY DEF LeaseExpires, IInv, RowsOK, Row
<1>2. RowsOK' /\ DOMAIN commands' = DOMAIN commands
  BY <1>1, SameRows DEF IInv
<1>3. Handed' = Handed
  BY <1>1, <1>2 DEF Handed
<1>4. CallsOK'
  BY <1>3, AllCallsKept DEF Grows, IInv, LeaseExpires, worker_vars
<1>5. OutcomeTrue'
  <2>1. executed' = executed
    BY DEF LeaseExpires
  <2> QED
    BY <1>1, <1>2, <2>1, ZenonT(30) DEF IInv, OutcomeTrue
<1>6. Promised
  BY <1>1, <1>2 DEF Promised, Lifecycle!lifecycle_vars, LeaseExpires
<1> QED
  BY <1>2, <1>3, <1>4, <1>5, <1>6
     DEF IInv, WorkerOK, ServerOK, RegistrationHolds, LeaseExpires, worker_vars

LEMMA DrainStep ==
  ASSUME IInv, NEW c \in calls \cup {call}, DrainCommands(c)
  PROVE  IInv' /\ Promised
<1> DEFINE delivered == {i \in DOMAIN commands : deliverable(i)}
<1>1. /\ commands' = [i \in DOMAIN commands |->
             IF i \in delivered
             THEN [commands[i] EXCEPT !.status = "delivered", !.lease = NextLease]
             ELSE commands[i]]
      /\ Moves(c, [c EXCEPT !.stage = "drained", !.got = delivered])
  <2>1. delivered = {i \in DOMAIN commands :
          commands[i].id \in {commands[j].id : j \in {k \in DOMAIN commands : deliverable(k)}}}
    BY DEF IInv, RowsOK, Row
  <2> QED
    BY <2>1, ZenonT(30) DEF DrainCommands
<1>2. \A i \in delivered : commands[i].status \in {"pending", "delivered"}
  BY DEF deliverable
<1> HIDE DEF delivered
<1>3. delivered \subseteq DOMAIN commands
  BY DEF delivered
<1>4. /\ \A i \in DOMAIN commands : Row(i)'
      /\ \A i \in delivered : commands'[i].status = "delivered"
      /\ \A i \in DOMAIN commands \ delivered : commands'[i] = commands[i]
  <2>1. \A i \in DOMAIN commands \ delivered : commands'[i] = commands[i]
    BY <1>1, ZenonT(30)
  <2>2. ASSUME NEW i \in delivered
        PROVE  Row(i)' /\ commands'[i].status = "delivered"
    <3>1. commands'[i] = [commands[i] EXCEPT !.status = "delivered", !.lease = NextLease]
      BY <1>1, <1>3, ZenonT(30)
    <3>2. Row(i)
      BY <1>3 DEF IInv, RowsOK
    <3> QED
      BY <3>1, <3>2 DEF Row, Statuses
  <2>3. \A i \in DOMAIN commands \ delivered : Row(i)'
    BY <2>1 DEF IInv, RowsOK, Row
  <2> QED
    BY <2>1, <2>2, <2>3
<1>5. RowsOK' /\ DOMAIN commands' = DOMAIN commands
  BY <1>1, <1>4, SameRows, ZenonT(30) DEF IInv
<1>6. Handed \subseteq Handed' /\ delivered \subseteq Handed'
  BY <1>3, <1>4, <1>5 DEF Handed
<1>7. /\ Grows
      /\ UNCHANGED <<agent, latest, worker_rest, executed>>
  BY <1>6, ZenonT(30) DEF Grows, DrainCommands
<1>8. CallsOK'
  <2>1. PICK d : d = [c EXCEPT !.stage = "drained", !.got = delivered]
    OBVIOUS
  <2>2. CallOK(c) /\ c.op = "heartbeat"
    BY ZenonT(30) DEF IInv, CallsOK, DrainCommands
  <2>3. delivered \subseteq Nat
    BY <1>3, LenProperties DEF IInv, RowsOK
  <2>4. CallOK(d)'
    BY <1>6, <2>1, <2>2, <2>3, ZenonT(30) DEF CallOK, Calls
  <2> QED
    BY <1>1, <1>7, <2>1, <2>4, MovesKept, ZenonT(30) DEF IInv
<1>9. OutcomeTrue'
  BY <1>4, <1>5, <1>7, <1>3, ZenonT(30) DEF IInv, OutcomeTrue
<1>10. Promised
  <2> DEFINE before == [i \in DOMAIN commands |-> commands[i].status]
             after == [i \in DOMAIN commands' |-> commands'[i].status]
  <2>1. after = [i \in DOMAIN before |-> IF i \in delivered THEN "delivered" ELSE before[i]]
    BY <1>4, <1>5
  <2>2. \A i \in delivered : before[i] \in {"pending", "delivered"}
    BY <1>2, <1>3
  <2> QED
    BY <1>3, <1>7, <2>1, <2>2, ZenonT(30) DEF Promised, Lifecycle!LifecycleNext, Lifecycle!HandedOut
<1> QED
  BY <1>5, <1>6, <1>7, <1>8, <1>9, <1>10
     DEF IInv, WorkerOK, ServerOK, RegistrationHolds, worker_rest

\* An answer is recorded for the command that was executed, and for no other.
LEMMA AckStep ==
  ASSUME IInv, NEW c \in calls \cup {call}, AckCommand(c)
  PROVE  IInv' /\ Promised
<1>1. CallOK(c) /\ c.op = "ack"
  BY DEF IInv, CallsOK, AckCommand
<1> DEFINE i == c.of
<1>2. i \in DOMAIN commands /\ commands[i].status # "pending" /\ <<i, c.success>> \in executed
  BY <1>1 DEF CallOK, Handed
<1>3. {j \in DOMAIN commands : commands[j].id = c.id} = {i}
  BY <1>1, <1>2 DEF CallOK, IInv, RowsOK, Row
<1>4. /\ UNCHANGED <<agent, latest, worker_rest, executed>>
      /\ \/ UNCHANGED commands
         \/ /\ ~terminal(i)
            /\ commands' = [j \in DOMAIN commands |->
                 IF j = i THEN mark_acknowledged(i, c.success) ELSE commands[j]]
  BY <1>3 DEF AckCommand
<1>5. \E d : Moves(c, d) /\ d \in Calls /\ d.op = c.op /\ d.of = c.of /\ d.id = c.id
              /\ d.success = c.success /\ d.got = c.got
  <2>1. PICK b \in BOOLEAN : b = (Cardinality({i}) = 1)
    BY ZenonT(30)
  <2>2. PICK d : d = [[c EXCEPT !.ok = b] EXCEPT !.stage = "done"]
    OBVIOUS
  <2>3. Moves(c, d)
    BY <1>3, <2>1, <2>2, ZenonT(30) DEF AckCommand, Answers
  <2>4. c \in Calls
    BY <1>1 DEF CallOK
  <2>5. d \in Calls /\ d.op = c.op /\ d.of = c.of /\ d.id = c.id
        /\ d.success = c.success /\ d.got = c.got
    BY <2>2, <2>4, ZenonT(30) DEF Calls
  <2> QED
    BY <2>3, <2>5
<1>6. CASE UNCHANGED commands
  <2>1. RowsOK' /\ Handed' = Handed
    BY <1>6, QuietRows DEF IInv
  <2>2. PICK d : Moves(c, d) /\ CallOK(d)'
    BY <1>1, <1>4, <1>5, <2>1 DEF CallOK
  <2> QED
    BY <1>4, <1>6, <2>1, <2>2, MovesKept, QuietOutcomes, QuietPromise
       DEF Grows, IInv, WorkerOK, ServerOK, RegistrationHolds, worker_rest
<1>7. CASE /\ ~terminal(i)
           /\ commands' = [j \in DOMAIN commands |->
                IF j = i THEN mark_acknowledged(i, c.success) ELSE commands[j]]
  <2>1. /\ \A j \in DOMAIN commands : Row(j)' /\ (j # i => commands'[j] = commands[j])
        /\ commands'[i].status = Lifecycle!Outcome(c.success)
    <3>1. Row(i) /\ \A j \in DOMAIN commands : Row(j)
      BY <1>2 DEF IInv, RowsOK
    <3>2. /\ commands'[i] = mark_acknowledged(i, c.success)
          /\ \A j \in DOMAIN commands : j # i => commands'[j] = commands[j]
      BY <1>2, <1>7
    <3>3. /\ DOMAIN commands'[i] = {"id", "kind", "status", "lease"} /\ commands'[i].id = i
          /\ commands'[i].status = IF c.success THEN "succeeded" ELSE "failed"
      BY <3>1, <3>2 DEF mark_acknowledged, Row
    <3>4. Row(i)'
      BY <3>3 DEF Row, Statuses
    <3>5. \A j \in DOMAIN commands : j # i => Row(j)'
      BY <3>1, <3>2 DEF Row
    <3> QED
      BY <3>2, <3>3, <3>4, <3>5 DEF Lifecycle!Outcome
  <2>2. RowsOK' /\ DOMAIN commands' = DOMAIN commands
    BY <1>7, <2>1, SameRows DEF IInv
  <2>3. Handed' = Handed
    BY <1>2, <2>1, <2>2 DEF Handed, Lifecycle!Outcome
  <2>4. PICK d : Moves(c, d) /\ CallOK(d)'
    BY <1>1, <1>4, <1>5, <2>3 DEF CallOK
  <2>5. CallsOK'
    BY <1>4, <2>3, <2>4, MovesKept DEF Grows, IInv
  <2>6. c.success \in BOOLEAN
    BY <1>1 DEF CallOK, Calls
  <2>7. OutcomeTrue'
    BY <1>2, <1>4, <2>1, <2>2, <2>6, ZenonT(30) DEF IInv, OutcomeTrue, Lifecycle!Outcome
  <2>8. commands[i].status = "delivered"
    BY <1>2, <1>7 DEF terminal, IInv, RowsOK, Row, Statuses
  <2>9. Promised
    <3> DEFINE before == [j \in DOMAIN commands |-> commands[j].status]
               after == [j \in DOMAIN commands' |-> commands'[j].status]
    <3>1. after = [before EXCEPT ![i] = Lifecycle!Outcome(c.success)]
      BY <1>2, <2>1, <2>2, ZenonT(30)
    <3>2. i \in DOMAIN before /\ before[i] = "delivered"
      BY <1>2, <2>8
    <3> QED
      BY <1>2, <1>4, <2>6, <3>1, <3>2, ZenonT(30)
         DEF Promised, Lifecycle!LifecycleNext, Lifecycle!Settled
  <2> QED
    BY <1>4, <2>2, <2>3, <2>5, <2>7, <2>9
       DEF IInv, WorkerOK, ServerOK, RegistrationHolds, worker_rest
<1> QED
  BY <1>4, <1>6, <1>7

-----------------------------------------------------------------------------
(* The steps of the server that leave the queue alone.                     *)

LEMMA ServerSteps ==
  ASSUME IInv, NEW c \in calls \cup {call}, Server(c)
  PROVE  IInv' /\ Promised
<1>0. CallOK(c)
  BY DEF IInv, CallsOK
<1>1. CASE RegisterAgent(c)
  <2>1. PICK d : d = [[c EXCEPT !.ok = TRUE] EXCEPT !.stage = "done"]
    OBVIOUS
  <2>2. Moves(c, d) /\ agent' = 0
    BY <1>1, <2>1 DEF RegisterAgent, Answers
  <2>3. Handed' = Handed /\ executed' = executed
    BY <1>1, QuietRows DEF RegisterAgent, IInv
  <2>4. CallOK(d)'
    <3>1. c \in Calls /\ c.op = "register"
      BY <1>0, <1>1 DEF CallOK, RegisterAgent
    <3>2. TRUE \in BOOLEAN
      BY ZenonT(30)
    <3>3. d \in Calls /\ d.op = c.op /\ d.got = c.got
      BY <2>1, <3>1, <3>2, AnsweredCall, ZenonT(30)
    <3> QED
      BY <1>0, <2>2, <2>3, <3>1, <3>3 DEF CallOK, NotFound
  <2> QED
    BY <1>1, <2>2, <2>4, ServerStep DEF RegisterAgent
<1>2. CASE HeartbeatAgent(c)
  <2>1. PICK d : d = IF agent = NotFound THEN [c EXCEPT !.stage = "done"]
                     ELSE [c EXCEPT !.stage = "heard"]
    BY ZenonT(30)
  <2>2. /\ Moves(c, d)
        /\ agent' = IF agent = NotFound THEN agent ELSE c.version
    BY <1>2, <2>1 DEF HeartbeatAgent, Answers
  <2>3. Handed' = Handed /\ executed' = executed
    BY <1>2, QuietRows DEF HeartbeatAgent, IInv
  <2>4. CallOK(d)'
    BY <1>0, <1>2, <2>1, <2>2, <2>3 DEF CallOK, Calls, HeartbeatAgent
  <2>5. agent' = agent \/ agent' \in Nat
    BY <1>0, <2>2 DEF CallOK, Calls
  <2> QED
    BY <1>2, <2>2, <2>4, <2>5, ServerStep DEF HeartbeatAgent
<1>3. CASE DrainCommands(c)
  BY <1>3, DrainStep
<1>4. CASE LatestConfigVersion(c)
  <2>0. OutOfDate(c) \in BOOLEAN
    BY DEF OutOfDate
  <2>1. PICK b \in BOOLEAN : b = OutOfDate(c)
    BY <2>0
  <2>2. PICK d : d = [[c EXCEPT !.reload = b, !.ok = TRUE] EXCEPT !.stage = "done"]
    OBVIOUS
  <2>3. Moves(c, d) /\ agent' = agent
    BY <1>4, <2>1, <2>2 DEF LatestConfigVersion, Answers
  <2>4. Handed' = Handed /\ executed' = executed
    BY <1>4, QuietRows DEF LatestConfigVersion, IInv
  <2>5. CallOK(d)'
    BY <1>0, <1>4, <2>1, <2>2, <2>3, <2>4, ZenonT(30) DEF CallOK, Calls, LatestConfigVersion
  <2> QED
    BY <1>4, <2>3, <2>5, ServerStep DEF LatestConfigVersion
<1>5. CASE FetchConfig(c)
  <2>1. PICK b \in BOOLEAN : b = (agent # NotFound /\ latest > 0)
    BY ZenonT(30)
  <2>2. PICK v \in Nat : v = IF OutOfDate(c) THEN latest ELSE 0
    BY DEF IInv, ServerOK
  <2>3. PICK d : d = [[c EXCEPT !.ok = b, !.version = v] EXCEPT !.stage = "done"]
    OBVIOUS
  <2>4. Moves(c, d) /\ agent' = agent
    BY <1>5, <2>1, <2>2, <2>3 DEF FetchConfig, Answers
  <2>5. Handed' = Handed /\ executed' = executed
    BY <1>5, QuietRows DEF FetchConfig, IInv
  <2>6. CallOK(d)'
    BY <1>0, <1>5, <2>1, <2>2, <2>3, <2>4, <2>5, ZenonT(30) DEF CallOK, Calls, FetchConfig
  <2> QED
    BY <1>5, <2>4, <2>6, ServerStep DEF FetchConfig
<1>6. CASE AckCommand(c)
  BY <1>6, AckStep
<1> QED
  BY <1>1, <1>2, <1>3, <1>4, <1>5, <1>6 DEF Server

-----------------------------------------------------------------------------
(* The worker and the faults.                                              *)

Records == executed' = executed
           \/ \E i \in Handed, ok \in BOOLEAN : executed' = executed \cup {<<i, ok>>}

LEMMA WorkerStep ==
  ASSUME IInv, UNCHANGED <<commands, agent, latest>>, Records,
         calls' \subseteq calls \cup {call},
         call' \in calls \cup {call} \/ CallOK(call)',
         WorkerOK', RegistrationHolds'
  PROVE  IInv' /\ Promised
<1>1. RowsOK' /\ Handed' = Handed
  BY QuietRows DEF IInv
<1>2. executed \subseteq executed'
  BY DEF Records
<1>3. CallsOK'
  BY <1>1, <1>2, AllCallsKept DEF Grows, IInv
<1>4. OutcomeTrue'
  BY <1>2, QuietOutcomes DEF IInv
<1>5. Promised
  <2>1. CASE executed' = executed
    BY <2>1, QuietPromise
  <2>2. CASE \E i \in Handed, ok \in BOOLEAN : executed' = executed \cup {<<i, ok>>}
    <3>1. PICK i \in Handed, ok \in BOOLEAN : executed' = executed \cup {<<i, ok>>}
      BY <2>2
    <3> DEFINE before == [j \in DOMAIN commands |-> commands[j].status]
    <3>2. i \in DOMAIN before /\ before[i] # "pending"
      BY DEF Handed
    <3> QED
      BY <3>1, <3>2 DEF Promised, Lifecycle!LifecycleNext, Lifecycle!Executed
  <2> QED
    BY <2>1, <2>2 DEF Records
<1> QED
  BY <1>1, <1>3, <1>4, <1>5 DEF IInv, ServerOK

\* The calls the worker begins with.
LEMMA FreshCall ==
  ASSUME NEW op \in {"none", "register", "heartbeat", "config"}, NEW v \in Nat, NEW c,
         c = [Call(op) EXCEPT !.version = v] \/ c = Call(op) \/ c = NoCall
  PROVE  CallOK(c)'
<1>1. c \in Calls /\ c.op # "ack" /\ c.got = {} /\ c.ok = FALSE
  <2>1. CASE c = [Call(op) EXCEPT !.version = v]
    BY <2>1, ZenonT(30) DEF Calls, Call
  <2>2. CASE c = Call(op)
    BY <2>2 DEF Calls, Call
  <2>3. CASE c = NoCall
    BY <2>3, ZenonT(30) DEF Calls, Call, NoCall
  <2> QED
    BY <2>1, <2>2, <2>3, ZenonT(30)
<1> QED
  BY <1>1 DEF CallOK

\* An acknowledgement says what was executed and recorded.
LEMMA FreshAck ==
  ASSUME IInv, NEW i \in Handed, NEW ok \in BOOLEAN, commands' = commands,
         NEW c, c = ack_command(i, ok), executed' = executed \cup {<<i, ok>>}
  PROVE  CallOK(c)'
<1>1. i \in DOMAIN commands /\ i \in Nat /\ commands[i].id = i
  BY LenProperties DEF Handed, IInv, RowsOK, Row
<1>2. /\ c \in Calls /\ c.op = "ack" /\ c.got = {} /\ c.of = i /\ c.id = i
      /\ c.success = ok
  BY <1>1, ZenonT(30) DEF ack_command, Call, Calls
<1>3. i \in Handed' /\ <<i, ok>> \in executed'
  BY DEF Handed
<1> QED
  BY <1>2, <1>3 DEF CallOK

LEMMA Concluded ==
  ASSUME IInv, NEW i \in {0} \cup Handed, NEW ok \in BOOLEAN, Conclude(i, ok),
         commands' = commands
  PROVE  CallOK(call)' /\ Records /\ at' # "drain"
<1>1. CASE i = 0
  BY <1>1, FreshCall DEF Conclude, Sends, Records
<1>2. CASE i # 0
  <2>1. call' = ack_command(i, ok) /\ executed' = executed \cup {<<i, ok>>} /\ at' = "call"
    BY <1>2 DEF Conclude, Sends
  <2> QED
    BY <1>2, <2>1, FreshAck DEF Records
<1> QED
  BY <1>1, <1>2

LEMMA WorkerSteps ==
  ASSUME IInv, Worker
  PROVE  IInv' /\ Promised
<1>0. WorkerOK /\ RegistrationHolds /\ CallOK(call)
  BY DEF IInv, CallsOK
<1>a. commands' = commands => Handed' = Handed
  BY DEF Handed
<1>1. CASE Tick
  <2>1. CallOK(call)'
    BY <1>0, <1>1, FreshCall DEF Tick, Sends, heartbeat, register, WorkerOK
  <2>2. WorkerOK'
    BY <1>0, <1>1, <1>a DEF Tick, WorkerOK, server_vars
  <2> QED
    BY <1>0, <1>1, <2>1, <2>2, WorkerStep DEF Tick, server_vars, Records, RegistrationHolds
<1>2. CASE RegisterReturns
  <2>1. CallOK(call)'
    BY <1>0, <1>2, FreshCall DEF RegisterReturns, Sends, heartbeat, WorkerOK
  <2>2. WorkerOK'
    BY <1>0, <1>2, <1>a DEF RegisterReturns, WorkerOK, server_vars
  <2>3. RegistrationHolds'
    BY <1>0, <1>2 DEF RegisterReturns, Returned, Accepted, RegistrationHolds, CallOK,
                      server_vars
  <2> QED
    BY <1>2, <2>1, <2>2, <2>3, WorkerStep DEF RegisterReturns, server_vars, Records
<1>3. CASE HeartbeatReturns
  <2>1. CallOK(call)'
    BY <1>3, FreshCall DEF HeartbeatReturns, Sends
  <2>2. WorkerOK'
    BY <1>0, <1>3, <1>a DEF HeartbeatReturns, WorkerOK, CallOK, server_vars
  <2> QED
    BY <1>0, <1>3, <2>1, <2>2, WorkerStep
       DEF HeartbeatReturns, server_vars, Records, RegistrationHolds
<1>4. ASSUME NEW i \in DOMAIN commands, NEW b \in BOOLEAN, SetPaused(i, b)
      PROVE  IInv' /\ Promised
  <2>1. i \in Handed /\ commands' = commands
    BY <1>0, <1>4 DEF SetPaused, IsNext, WorkerOK, server_vars
  <2>2. CallOK(call)' /\ Records /\ at' # "drain"
    BY <1>4, <2>1, Concluded, ZenonT(30) DEF SetPaused
  <2>3. WorkerOK'
    BY <1>0, <1>4, <1>a, <2>1, <2>2 DEF SetPaused, WorkerOK
  <2> QED
    BY <1>0, <1>4, <2>2, <2>3, WorkerStep DEF SetPaused, server_vars, RegistrationHolds
<1>5. ASSUME NEW i \in {0} \cup DOMAIN commands, ReloadConfig(i)
      PROVE  IInv' /\ Promised
  <2>1. CallOK(call)'
    BY <1>0, <1>5, FreshCall DEF ReloadConfig, Sends, config_update, WorkerOK
  <2>2. WorkerOK'
    BY <1>0, <1>5, <1>a DEF ReloadConfig, IsNext, WorkerOK, server_vars
  <2> QED
    BY <1>0, <1>5, <2>1, <2>2, WorkerStep
       DEF ReloadConfig, server_vars, Records, RegistrationHolds
<1>6. ASSUME NEW i \in DOMAIN commands, DrainAndRestart(i)
      PROVE  IInv' /\ Promised
  <2>1. i # 0
    BY LenProperties DEF IInv, RowsOK
  <2>2. WorkerOK'
    BY <1>0, <1>6, <1>a, <2>1 DEF DrainAndRestart, IsNext, WorkerOK, server_vars
  <2> QED
    BY <1>0, <1>6, <2>2, WorkerStep DEF DrainAndRestart, server_vars, Records,
                                        RegistrationHolds
<1>7. CASE ConfigReturns
  <2>1. call.ok \in BOOLEAN /\ call.version \in Nat
    BY <1>0 DEF CallOK, Calls
  <2>2. PICK ok \in BOOLEAN : ok = (call.ok /\ (call.version = 0 \/ Applies))
    BY ZenonT(30)
  <2>3. CallOK(call)' /\ Records /\ at' # "drain"
    BY <1>0, <1>7, <2>2, Concluded, ZenonT(30) DEF ConfigReturns, WorkerOK, server_vars
  <2>4. WorkerOK'
    BY <1>0, <1>7, <1>a, <2>1, <2>3 DEF ConfigReturns, WorkerOK, server_vars
  <2> QED
    BY <1>0, <1>7, <2>3, <2>4, WorkerStep DEF ConfigReturns, server_vars, RegistrationHolds
<1>8. CASE DrainFails
  <2>1. CallOK(call)' /\ Records /\ at' # "drain"
    BY <1>0, <1>8, Concluded, FALSE \in BOOLEAN, ZenonT(30) DEF DrainFails, WorkerOK, server_vars
  <2>2. WorkerOK'
    BY <1>0, <1>8, <1>a, <2>1 DEF DrainFails, WorkerOK, server_vars
  <2> QED
    BY <1>0, <1>8, <2>1, <2>2, WorkerStep DEF DrainFails, server_vars, RegistrationHolds
<1>9. CASE DrainCompletes
  <2>1. /\ current \in Handed /\ commands' = commands
        /\ call' = ack_command(current, TRUE)
        /\ executed' = executed \cup {<<current, TRUE>>}
    BY <1>0, <1>9 DEF DrainCompletes, Sends, WorkerOK, server_vars
  <2>2. CallOK(call)'
    BY <2>1, FreshAck, TRUE \in BOOLEAN, ZenonT(30)
  <2>3. WorkerOK'
    BY <1>0, <1>9, <1>a, <2>1 DEF DrainCompletes, WorkerOK
  <2>4. Records
    BY <2>1, TRUE \in BOOLEAN, ZenonT(30) DEF Records
  <2> QED
    BY <1>0, <1>9, <2>2, <2>3, <2>4, WorkerStep
       DEF DrainCompletes, server_vars, RegistrationHolds
<1>10. CASE AckReturns
  <2>1. CallOK(call)'
    BY <1>10, FreshCall DEF AckReturns, Started, Sends
  <2>2. WorkerOK'
    BY <1>0, <1>10, <1>a DEF AckReturns, Started, WorkerOK, server_vars
  <2>3. RegistrationHolds'
    BY <1>0, <1>10, ZenonT(30) DEF AckReturns, Started, RegistrationHolds, server_vars
  <2> QED
    BY <1>10, <2>1, <2>2, <2>3, WorkerStep DEF AckReturns, server_vars, Records
<1>11. CASE EndOfCommands
  <2>1. WorkerOK'
    BY <1>0, <1>11, <1>a DEF EndOfCommands, WorkerOK, server_vars
  <2> QED
    BY <1>0, <1>11, <2>1, WorkerStep DEF EndOfCommands, server_vars, Records,
                                         RegistrationHolds
<1> QED
  BY <1>1, <1>2, <1>3, <1>4, <1>5, <1>6, <1>7, <1>8, <1>9, <1>10, <1>11 DEF Worker

LEMMA FaultSteps ==
  ASSUME IInv, CallFails \/ CallLost \/ CallSilent \/ ServerRestarts \/ AgentRestarts
  PROVE  IInv' /\ Promised
<1>0. WorkerOK /\ RegistrationHolds /\ CallOK(call)
  BY DEF IInv, CallsOK
<1>a. commands' = commands => Handed' = Handed
  BY DEF Handed
<1>b. UNCHANGED worker_rest /\ commands' = commands /\ agent' = agent
        => WorkerOK' /\ RegistrationHolds'
  BY <1>0, <1>a DEF WorkerOK, RegistrationHolds, worker_rest
<1>c. ASSUME NEW s \in {"silent", "done"}, NEW c,
             c \in {[call EXCEPT !.stage = s, !.ok = FALSE], [call EXCEPT !.stage = s]},
             UNCHANGED <<commands, agent, executed>>
      PROVE  CallOK(c)'
  <2>1. /\ c \in Calls /\ c.op = call.op /\ c.got = call.got /\ c.of = call.of
        /\ c.id = call.id /\ c.success = call.success /\ (c.ok => call.ok)
    <3>1. CASE c = [call EXCEPT !.stage = s, !.ok = FALSE]
      BY <1>0, <1>c, <3>1, ZenonT(30) DEF CallOK, Calls
    <3>2. CASE c = [call EXCEPT !.stage = s]
      BY <1>0, <1>c, <3>2 DEF CallOK, Calls
    <3> QED
      BY <1>c, <3>1, <3>2
  <2> QED
    BY <1>0, <1>c, <1>a, <2>1 DEF CallOK
<1>1. CASE CallFails
  <2>1. CallOK(call)'
    BY <1>1, <1>c DEF CallFails
  <2> QED
    BY <1>1, <1>b, <2>1, WorkerStep DEF CallFails, Abandoned, Records
<1>2. CASE CallLost
  BY <1>2, <1>b, WorkerStep DEF CallLost, worker_vars, worker_rest, Records
<1>3. CASE CallSilent
  <2>1. CallOK(call)'
    BY <1>3, <1>c DEF CallSilent, server_vars
  <2> QED
    BY <1>3, <1>b, <2>1, WorkerStep DEF CallSilent, server_vars, Records
<1>4. CASE ServerRestarts
  <2>1. call' \in calls \cup {call} \/ CallOK(call)'
    BY <1>4, <1>c DEF ServerRestarts
  <2> QED
    BY <1>4, <1>b, <2>1, WorkerStep DEF ServerRestarts, Records
<1>5. CASE AgentRestarts
  <2>1. CallOK(call)'
    BY <1>5, FreshCall DEF AgentRestarts, Started
  <2>2. WorkerOK' /\ RegistrationHolds'
    BY <1>5, <1>a DEF AgentRestarts, Started, WorkerOK, RegistrationHolds
  <2> QED
    BY <1>5, <2>1, <2>2, WorkerStep DEF AgentRestarts, Abandoned, Records
<1> QED
  BY <1>1, <1>2, <1>3, <1>4, <1>5

-----------------------------------------------------------------------------
(* The invariant, and what follows from it.                                *)

LEMMA InitIInv ==
  ASSUME Init
  PROVE  IInv /\ Lifecycle!LifecycleInit
<1>1. commands = <<>> /\ DOMAIN commands = {}
  BY DEF Init
<1>2. RowsOK
  BY <1>1, EmptySeq DEF RowsOK
<1>3. CallOK(NoCall)
  BY ZenonT(30) DEF CallOK, Calls, Call, NoCall
<1>4. CallsOK
  BY <1>3 DEF CallsOK, Init
<1>5. Lifecycle!LifecycleInit
  BY <1>1 DEF Lifecycle!LifecycleInit, Init
<1> QED
  BY <1>1, <1>2, <1>4, <1>5
     DEF IInv, WorkerOK, ServerOK, OutcomeTrue, RegistrationHolds, Init

LEMMA NextIInv ==
  ASSUME IInv, "id_reuse" \notin Faults, [Next]_vars
  PROVE  IInv' /\ Promised
<1>1. CASE \E k \in Kinds : EnqueueCommand(k)
  BY <1>1, EnqueueStep
<1>2. CASE PutPipeline
  <2>1. /\ UNCHANGED <<commands, agent, calls, worker_vars, executed>> /\ latest' \in Nat
    BY <1>2 DEF PutPipeline, IInv, ServerOK
  <2>2. RowsOK' /\ Handed' = Handed
    BY <2>1, QuietRows DEF IInv
  <2>3. CallsOK'
    BY <2>1, <2>2, AllCallsKept DEF Grows, IInv, worker_vars
  <2> QED
    BY <2>1, <2>2, <2>3, QuietOutcomes, QuietPromise
       DEF IInv, WorkerOK, ServerOK, RegistrationHolds, worker_vars
<1>3. CASE LeaseExpires
  BY <1>3, LeaseStep
<1>4. CASE \E c \in calls \cup {call} : Server(c)
  BY <1>4, ServerSteps
<1>5. CASE Worker
  BY <1>5, WorkerSteps
<1>6. CASE CallFails \/ CallLost \/ CallSilent \/ ServerRestarts \/ AgentRestarts
  BY <1>6, FaultSteps
<1>7. CASE UNCHANGED vars
  <2>1. UNCHANGED <<commands, agent, latest, calls, call, executed, inbox, current, at,
                    applied_config_version, registered>>
    BY <1>7 DEF vars, server_vars, worker_vars
  <2>2. WorkerOK' /\ RegistrationHolds'
    BY <2>1 DEF IInv, WorkerOK, RegistrationHolds, Handed
  <2> QED
    BY <2>1, <2>2, WorkerStep DEF Records
<1> QED
  BY <1>1, <1>2, <1>3, <1>4, <1>5, <1>6, <1>7 DEF Next

LEMMA Invariance ==
  ASSUME "id_reuse" \notin Faults
  PROVE  Spec => []IInv
BY InitIInv, NextIInv, PTL DEF Spec

\* However many calls fail, are served late or twice, and however often either
\* side restarts: a command is on record as succeeded or failed only if the
\* agent executed it with that outcome.
THEOREM OutcomesAreTrue ==
  ASSUME "id_reuse" \notin Faults
  PROVE  Spec => []OutcomeTrue
<1>1. IInv => OutcomeTrue
  BY DEF IInv
<1> QED
  BY <1>1, Invariance, PTL

\* The worker registers once per process and never again; that is enough, as
\* the registry never forgets an agent.
THEOREM RegistrationIsKept ==
  ASSUME "id_reuse" \notin Faults
  PROVE  Spec => []RegistrationHolds
<1>1. IInv => RegistrationHolds
  BY DEF IInv
<1> QED
  BY <1>1, Invariance, PTL

\* The protocol between worker, service and queue implements what the control
\* plane promises an operator about a command.
THEOREM ProtocolImplementsLifecycle ==
  ASSUME "id_reuse" \notin Faults
  PROVE  Spec => ImplementsLifecycle
<1>1. Init => Lifecycle!LifecycleInit
  BY InitIInv
<1>2. IInv /\ [Next]_vars => [Lifecycle!LifecycleNext]_(Lifecycle!lifecycle_vars)
  BY NextIInv DEF Promised
<1> QED
  BY <1>1, <1>2, Invariance, PTL DEF Spec, ImplementsLifecycle, Lifecycle!LifecycleSpec

\* What is settled stays on record.
LEMMA StaysSettled ==
  ASSUME IInv, "id_reuse" \notin Faults, [Next]_vars
  PROVE  \A i \in DOMAIN commands :
           terminal(i) => i \in DOMAIN commands' /\ commands'[i].status = commands[i].status
<1> DEFINE before == [j \in DOMAIN commands |-> commands[j].status]
           after == [j \in DOMAIN commands' |-> commands'[j].status]
<1>1. SUFFICES ASSUME NEW i \in DOMAIN commands, terminal(i)
               PROVE  i \in DOMAIN after /\ after[i] = before[i]
  BY ZenonT(30)
<1>2. Promised /\ RowsOK'
  BY NextIInv DEF IInv
<1>3. CASE Lifecycle!Enqueued
  <2>1. before \in Seq(Statuses)
    <3>1. before \in [1..Len(commands) -> Statuses] /\ Len(commands) \in Nat
      BY LenProperties DEF IInv, RowsOK, Row
    <3> QED
      BY <3>1, SeqDef
  <2>2. after = Append(before, "pending")
    BY <1>3, ZenonT(30) DEF Lifecycle!Enqueued
  <2>3. i \in DOMAIN before /\ "pending" \in Statuses
    BY DEF Statuses
  <2> HIDE DEF before, after
  <2>4. /\ Len(before) \in Nat
        /\ i \in 1..Len(before)
        /\ DOMAIN Append(before, "pending") = 1..(Len(before) + 1)
        /\ Append(before, "pending")[i] = before[i]
    BY <2>1, <2>3, AppendProperties, LenProperties
  <2> QED
    BY <2>2, <2>4
<1>4. CASE Lifecycle!HandedOut
  BY <1>1, <1>4, ZenonT(30) DEF Lifecycle!HandedOut, terminal
<1>5. CASE Lifecycle!Settled
  BY <1>1, <1>5, ZenonT(30) DEF Lifecycle!Settled, terminal
<1>6. CASE UNCHANGED before
  BY <1>6
<1> QED
  BY <1>2, <1>3, <1>4, <1>5, <1>6
     DEF Promised, Lifecycle!LifecycleNext, Lifecycle!Executed, Lifecycle!lifecycle_vars

\* An answer that comes late, or again after the lease ran out, does not change
\* an outcome that is on record.
THEOREM SettledCommandsStay ==
  ASSUME "id_reuse" \notin Faults
  PROVE  Spec => TerminalStays
<1> DEFINE Stays == \A i \in DOMAIN commands :
                      terminal(i) => commands'[i].status = commands[i].status
<1>1. IInv /\ [Next]_vars => [Stays]_vars
  BY StaysSettled
<1> QED
  BY <1>1, Invariance, PTL DEF Spec, TerminalStays

-----------------------------------------------------------------------------
(* The exits of the agent.                                                 *)

\* Commands the worker may still execute.
Held == inbox \cup call.got \cup (IF at \in {"drain", "exit"} THEN {current} ELSE {})

\* Commands that may end the agent's process once more: not settled, or held.
Owed == {i \in DOMAIN exits : i \notin DOMAIN commands \/ ~terminal(i)} \cup Held

ExitsCounted ==
  /\ exits \in [1..MaxCommands -> Nat] /\ faults \in Nat
  /\ DOMAIN commands \subseteq 1..MaxCommands
  /\ \A i \in DOMAIN exits : exits[i] <= 1 + faults /\ (i \in Owed => exits[i] <= faults)

\* Only a registered agent gets as far as an acknowledgement.
InTouch ==
  at \in {"commands", "drain", "exit"} \/ call.op \in {"heartbeat", "config", "ack"} => registered

\* The acknowledgement the agent exits after was taken, or a fault took it.
Exiting ==
  at = "exit" =>
    /\ call.op = "ack" /\ call.of = current
    /\ call.stage = "done" => terminal(current) \/ exits[current] < faults

Accounted == ExitsCounted /\ InTouch /\ Exiting

SettledStay ==
  \A i \in DOMAIN commands :
    terminal(i) => i \in DOMAIN commands' /\ commands'[i].status = commands[i].status

\* A step that is no exit owes nothing new.
LEMMA NoExit ==
  ASSUME Accounted, SettledStay, exits' = exits, faults' \in Nat, faults <= faults',
         DOMAIN commands' \subseteq 1..MaxCommands,
         \A i \in DOMAIN exits : i \in Held' => i \in Owed
  PROVE  ExitsCounted'
<1>1. \A i \in DOMAIN exits : i \in Owed' => i \in Owed
  BY DEF Owed, SettledStay, terminal
<1> QED
  BY <1>1 DEF Accounted, ExitsCounted

\* A step of the server, of time or of the network leaves the worker where it is
\* and may move its call on.
LEMMA CallMoves ==
  ASSUME IInv, Accounted, SettledStay, exits' = exits, faults' \in Nat, faults <= faults',
         DOMAIN commands' \subseteq 1..MaxCommands, UNCHANGED worker_rest,
         call'.op = call.op, call'.of = call.of,
         \A i \in call'.got : i \in call.got \/ (i \in DOMAIN commands /\ ~terminal(i)),
         call'.stage = "done" =>
           call.stage = "done" \/ call.op # "ack" \/ terminal(call.of)' \/ faults < faults'
  PROVE  Accounted'
<1>1. UNCHANGED <<at, registered, inbox, current>>
  BY DEF worker_rest
<1>2. ExitsCounted'
  <2>1. \A i \in DOMAIN exits : i \in Held' => i \in Owed
    BY <1>1 DEF Held, Owed
  <2> QED
    BY <2>1, NoExit
<1>3. InTouch'
  BY <1>1 DEF Accounted, InTouch
<1>4. Exiting'
  <2> SUFFICES ASSUME at' = "exit"
               PROVE  /\ call'.op = "ack" /\ call'.of = current'
                      /\ call'.stage = "done" => terminal(current)' \/ exits'[current'] < faults'
    BY DEF Exiting
  <2>1. at = "exit" /\ call.op = "ack" /\ call.of = current /\ current' = current
    BY <1>1 DEF Accounted, Exiting
  <2>2. current \in DOMAIN commands
    BY <2>1, ZenonT(30) DEF IInv, CallsOK, CallOK, Handed
  <2>3. terminal(current) => terminal(current)'
    BY <1>1, <2>2 DEF SettledStay, terminal
  <2>4. current \in DOMAIN exits /\ exits[current] \in Nat /\ exits[current] <= faults /\ faults \in Nat
    BY <2>1, <2>2 DEF Accounted, ExitsCounted, Owed, Held
  <2>5. CASE call'.stage = "done"
    <3>1. CASE call.stage = "done"
      BY <2>1, <2>3, <2>4, <3>1 DEF Accounted, Exiting
    <3>2. CASE terminal(call.of)'
      BY <2>1, <3>2 DEF terminal
    <3>3. CASE faults < faults'
      BY <2>1, <2>4, <3>3
    <3> QED
      BY <2>1, <2>5, <3>1, <3>2, <3>3
  <2> QED
    BY <2>1, <2>5
<1> QED
  BY <1>2, <1>3, <1>4 DEF Accounted

\* An acknowledgement that reaches the queue settles its command.
LEMMA AckSettles ==
  ASSUME IInv, Accounted, SettledStay, NEW c, c = call, AckCommand(c)
  PROVE  /\ c.op = "ack" /\ c.of \in Handed /\ terminal(c.of)' /\ Handed' = Handed
         /\ \E d : /\ Moves(c, d)
                   /\ d.op = c.op /\ d.of = c.of /\ d.got = c.got /\ d.stage = "done"
<1> DEFINE matching == {i \in DOMAIN commands : commands[i].id = c.id}
           d == [[c EXCEPT !.ok = Cardinality(matching) = 1] EXCEPT !.stage = "done"]
<1>1. /\ Moves(c, d) /\ c.op = "ack" /\ c \in Calls /\ CallOK(c)
      /\ IF agent # NotFound /\ \E i \in matching : matching = {i} /\ ~terminal(i)
         THEN commands' = [i \in DOMAIN commands |->
                IF i \in matching THEN mark_acknowledged(i, c.success) ELSE commands[i]]
         ELSE UNCHANGED commands
  BY DEF AckCommand, Answers, IInv, CallsOK, CallOK
<1>2. matching = {c.of} /\ c.of \in Handed /\ c.of \in DOMAIN commands /\ Row(c.of)
  BY <1>1 DEF CallOK, Handed, IInv, RowsOK, Row
<1> HIDE DEF matching
<1>3. d.op = c.op /\ d.of = c.of /\ d.got = c.got /\ d.stage = "done"
  BY <1>1 DEF Calls
<1>4. agent # NotFound
  BY <1>1 DEF Accounted, InTouch, IInv, RegistrationHolds
<1>5. mark_acknowledged(c.of, c.success).status \in {"succeeded", "failed"}
  BY <1>2 DEF mark_acknowledged, Row
<1>6. terminal(c.of)'
  BY <1>1, <1>2, <1>4, <1>5 DEF terminal
<1>7. Handed' = Handed
  BY <1>1, <1>2, <1>5 DEF Handed
<1> QED
  BY <1>1, <1>2, <1>3, <1>6, <1>7, ZenonT(30)

LEMMA ServerAccount ==
  ASSUME IInv, Accounted, SettledStay, NEW c \in calls \cup {call}, Server(c)
  PROVE  Accounted'
<1>1. /\ UNCHANGED <<worker_rest, exits, faults>> /\ faults \in Nat /\ CallOK(c)
      /\ DOMAIN commands' = DOMAIN commands /\ DOMAIN commands \subseteq 1..MaxCommands
  BY ZenonT(30) DEF Server, RegisterAgent, HeartbeatAgent, DrainCommands, LatestConfigVersion, FetchConfig,
         AckCommand, Accounted, ExitsCounted, IInv, CallsOK
<1>2. ASSUME NEW d, Moves(c, d), d.op = c.op, d.of = c.of,
             \A i \in d.got : i \in c.got \/ (i \in DOMAIN commands /\ ~terminal(i)),
             c = call /\ c.op = "ack" => terminal(c.of)'
      PROVE  Accounted'
  <2>1. CASE call' = call
    BY <1>1, <2>1, CallMoves
  <2>2. CASE c = call /\ call' = d
    <3>1. call'.op = call.op /\ call'.of = call.of
      BY <1>2, <2>2
    <3>2. \A i \in call'.got : i \in call.got \/ (i \in DOMAIN commands /\ ~terminal(i))
      BY <1>2, <2>2
    <3>3. call'.stage = "done" =>
            call.stage = "done" \/ call.op # "ack" \/ terminal(call.of)' \/ faults < faults'
      BY <1>2, <2>2 DEF terminal
    <3> QED
      BY <1>1, <3>1, <3>2, <3>3, CallMoves
  <2> QED
    BY <1>2, <2>1, <2>2 DEF Moves
<1>3. c \in Calls
  BY <1>1 DEF CallOK
<1>4. CASE RegisterAgent(c)
  <2> DEFINE d == [[c EXCEPT !.ok = TRUE] EXCEPT !.stage = "done"]
  <2>1. Moves(c, d) /\ c.op = "register"
    BY <1>4 DEF RegisterAgent, Answers
  <2>2. d.op = c.op /\ d.of = c.of /\ d.got = c.got
    BY <1>3 DEF Calls
  <2> HIDE DEF d
  <2> QED
    BY <1>2, <2>1, <2>2
<1>5. CASE HeartbeatAgent(c)
  <2>1. PICK s \in {"done", "heard"} : Moves(c, [c EXCEPT !.stage = s])
    BY <1>5 DEF HeartbeatAgent, Answers
  <2> DEFINE d == [c EXCEPT !.stage = s]
  <2>2. d.op = c.op /\ d.of = c.of /\ d.got = c.got /\ c.op = "heartbeat"
    BY <1>3, <1>5 DEF Calls, HeartbeatAgent
  <2>3. Moves(c, d)
    BY <2>1
  <2> HIDE DEF d
  <2> QED
    BY <1>2, <2>2, <2>3
<1>6. CASE DrainCommands(c)
  <2> DEFINE delivered == {i \in DOMAIN commands : deliverable(i)}
             d == [c EXCEPT !.stage = "drained", !.got = delivered]
  <2>1. delivered = {i \in DOMAIN commands :
          commands[i].id \in {commands[j].id : j \in {k \in DOMAIN commands : deliverable(k)}}}
    BY DEF IInv, RowsOK, Row
  <2>2. Moves(c, d) /\ c.op = "heartbeat"
    BY <1>6, <2>1, ZenonT(30) DEF DrainCommands
  <2>3. \A i \in delivered : i \in DOMAIN commands /\ ~terminal(i)
    BY DEF deliverable, terminal
  <2> HIDE DEF delivered
  <2>4. d.op = c.op /\ d.of = c.of /\ d.got = delivered /\ d.stage = "drained"
    BY <1>3 DEF Calls
  <2> HIDE DEF d
  <2> QED
    BY <1>2, <2>2, <2>3, <2>4
<1>7. CASE LatestConfigVersion(c)
  <2> DEFINE d == [[c EXCEPT !.reload = OutOfDate(c), !.ok = TRUE] EXCEPT !.stage = "done"]
  <2>1. Moves(c, d) /\ c.op = "heartbeat"
    BY <1>7 DEF LatestConfigVersion, Answers
  <2>2. d.op = c.op /\ d.of = c.of /\ d.got = c.got
    BY <1>3 DEF Calls
  <2> HIDE DEF d
  <2> QED
    BY <1>2, <2>1, <2>2
<1>8. CASE FetchConfig(c)
  <2> DEFINE d == [[c EXCEPT !.ok = agent # NotFound /\ latest > 0,
                             !.version = IF OutOfDate(c) THEN latest ELSE 0] EXCEPT !.stage = "done"]
  <2>1. Moves(c, d) /\ c.op = "config"
    BY <1>8 DEF FetchConfig, Answers
  <2>2. d.op = c.op /\ d.of = c.of /\ d.got = c.got
    BY <1>3 DEF Calls
  <2> HIDE DEF d
  <2> QED
    BY <1>2, <2>1, <2>2
<1>9. CASE AckCommand(c)
  <2> DEFINE matching == {i \in DOMAIN commands : commands[i].id = c.id}
             d == [[c EXCEPT !.ok = Cardinality(matching) = 1] EXCEPT !.stage = "done"]
  <2>1. /\ Moves(c, d) /\ c.op = "ack"
        /\ IF agent # NotFound /\ \E i \in matching : matching = {i} /\ ~terminal(i)
           THEN commands' = [i \in DOMAIN commands |->
                  IF i \in matching THEN mark_acknowledged(i, c.success) ELSE commands[i]]
           ELSE UNCHANGED commands
    BY <1>9 DEF AckCommand, Answers
  <2>2. matching = {c.of} /\ c.of \in DOMAIN commands /\ Row(c.of)
    BY <1>1, <2>1 DEF CallOK, Handed, IInv, RowsOK, Row
  <2> HIDE DEF matching
  <2>3. d.op = c.op /\ d.of = c.of /\ d.got = c.got
    BY <1>3 DEF Calls
  <2>4. c = call => terminal(c.of)'
    BY <1>9, AckSettles
  <2> HIDE DEF d
  <2> QED
    BY <1>2, <2>1, <2>3, <2>4
<1> QED
  BY <1>4, <1>5, <1>6, <1>7, <1>8, <1>9 DEF Server

LEMMA FaultAccount ==
  ASSUME IInv, Accounted, SettledStay, CallFails \/ CallLost \/ CallSilent \/ ServerRestarts
  PROVE  Accounted'
<1>1. /\ commands' = commands /\ exits' = exits /\ UNCHANGED worker_rest /\ call \in Calls
      /\ faults \in Nat /\ DOMAIN commands \subseteq 1..MaxCommands
  BY ZenonT(30) DEF CallFails, CallLost, CallSilent, ServerRestarts, server_vars, worker_vars, worker_rest,
         IInv, CallsOK, CallOK, Accounted, ExitsCounted
<1>2. \/ call' = call /\ faults' \in Nat /\ faults <= faults'
      \/ /\ \E s \in {"done", "silent"} :
              call' \in {[call EXCEPT !.stage = s, !.ok = FALSE], [call EXCEPT !.stage = s]}
         /\ faults' = faults + 1
  BY <1>1 DEF CallFails, CallLost, CallSilent, ServerRestarts, Fault, worker_vars
<1>3. CASE call' = call /\ faults' \in Nat /\ faults <= faults'
  BY <1>1, <1>3, CallMoves
<1>4. CASE /\ \E s \in {"done", "silent"} :
                call' \in {[call EXCEPT !.stage = s, !.ok = FALSE], [call EXCEPT !.stage = s]}
           /\ faults' = faults + 1
  <2>1. call'.op = call.op /\ call'.of = call.of /\ call'.got = call.got
    BY <1>1, <1>4, ZenonT(30) DEF Calls
  <2>2. faults' \in Nat /\ faults < faults' /\ faults <= faults'
    BY <1>1, <1>4
  <2> QED
    BY <1>1, <2>1, <2>2, CallMoves
<1> QED
  BY <1>2, <1>3, <1>4

\* A step of the worker that is no exit: it holds no command it did not hold.
LEMMA WorkerMoves ==
  ASSUME IInv, Accounted, UNCHANGED <<commands, exits, faults>>, Held' \subseteq Held,
         InTouch', Exiting'
  PROVE  Accounted'
<1>1. SettledStay
  BY DEF SettledStay
<1>2. faults' \in Nat /\ faults <= faults' /\ DOMAIN commands' \subseteq 1..MaxCommands
  BY DEF Accounted, ExitsCounted
<1>3. \A i \in DOMAIN exits : i \in Held' => i \in Owed
  BY DEF Owed
<1>4. ExitsCounted'
  BY <1>1, <1>2, <1>3, NoExit
<1> QED
  BY <1>4 DEF Accounted

LEMMA FreshCalls ==
  ASSUME NEW op, NEW v
  PROVE  /\ Call(op).got = {} /\ Call(op).op = op
         /\ NoCall.got = {} /\ NoCall.op = "none"
         /\ [Call(op) EXCEPT !.version = v].got = {} /\ [Call(op) EXCEPT !.version = v].op = op
BY DEF Call, NoCall

LEMMA FreshAcks ==
  ASSUME NEW i, NEW ok
  PROVE  /\ ack_command(i, ok).got = {} /\ ack_command(i, ok).op = "ack"
         /\ ack_command(i, ok).of = i /\ ack_command(i, ok).stage = "sent"
BY DEF ack_command, Call

LEMMA ConcludeCall ==
  ASSUME NEW i, NEW ok, Conclude(i, ok)
  PROVE  at' \in {"commands", "call"} /\ call'.got = {} /\ call'.op \in {"none", "ack"}
BY FreshCalls, FreshAcks DEF Conclude, Sends

\* The worker's exit: the command was held, so its exits were within the faults;
\* one settled by this acknowledgement has now had one more, and any other
\* has had a fault for each.
LEMMA ExitAccount ==
  ASSUME IInv, Accounted, AckReturns, at = "exit"
  PROVE  Accounted'
<1>1. /\ UNCHANGED <<commands, faults>> /\ call.op = "ack" /\ call.of = current
      /\ terminal(current) \/ exits[current] < faults
      /\ exits' = [exits EXCEPT ![current] = @ + 1]
      /\ Started
  BY DEF Accounted, Exiting, AckReturns, Returned, server_vars
<1>2. current \in DOMAIN commands
  BY <1>1, ZenonT(30) DEF IInv, CallsOK, CallOK, Handed
<1>3. /\ exits \in [1..MaxCommands -> Nat] /\ faults \in Nat /\ current \in 1..MaxCommands
      /\ DOMAIN commands \subseteq 1..MaxCommands /\ exits[current] <= faults
  BY <1>2 DEF Accounted, ExitsCounted, Owed, Held
<1>4. Held' = {}
  BY <1>1, FreshCalls DEF Started, Held
<1>5. ASSUME NEW i \in 1..MaxCommands
      PROVE  exits'[i] <= 1 + faults /\ (i \in Owed' => exits'[i] <= faults)
  <2>1. i \in Owed' => i \notin DOMAIN commands \/ ~terminal(i)
    BY <1>1, <1>4 DEF Owed, terminal
  <2>2. CASE i = current
    BY <1>1, <1>2, <1>3, <2>1, <2>2
  <2>3. CASE i # current
    <3>1. exits'[i] = exits[i]
      BY <1>1, <1>3, <2>3
    <3>2. i \in Owed' => i \in Owed
      BY <1>3, <2>1 DEF Owed
    <3> QED
      BY <1>3, <3>1, <3>2 DEF Accounted, ExitsCounted
  <2> QED
    BY <2>2, <2>3
<1>6. exits' \in [1..MaxCommands -> Nat] /\ DOMAIN exits' = 1..MaxCommands
  BY <1>1, <1>3
<1>7. ExitsCounted'
  BY <1>1, <1>3, <1>5, <1>6 DEF ExitsCounted
<1>8. InTouch' /\ Exiting'
  BY <1>1, FreshCalls DEF Started, InTouch, Exiting
<1> QED
  BY <1>7, <1>8 DEF Accounted

LEMMA WorkerAccount ==
  ASSUME IInv, Accounted, Worker
  PROVE  Accounted'
<1>1. InTouch /\ Exiting
  BY DEF Accounted
<1>2. CASE Tick
  <2>1. at' = "call" /\ call'.got = {} /\ call'.op = IF registered THEN "heartbeat" ELSE "register"
    BY <1>2, FreshCalls DEF Tick, Sends, heartbeat, register
  <2>2. UNCHANGED <<commands, exits, faults, inbox, registered>>
    BY <1>2 DEF Tick, server_vars
  <2>3. Held' \subseteq Held /\ InTouch' /\ Exiting'
    BY <1>1, <2>1, <2>2 DEF Held, InTouch, Exiting
  <2> QED
    BY <2>2, <2>3, WorkerMoves
<1>3. CASE RegisterReturns
  <2>1. /\ at' \in {"call", "tick"} /\ call'.got = {}
        /\ call'.op = (IF Accepted THEN "heartbeat" ELSE "none") /\ registered' = Accepted
    BY <1>3, FreshCalls DEF RegisterReturns, Sends, heartbeat
  <2>2. UNCHANGED <<commands, exits, faults, inbox>>
    BY <1>3 DEF RegisterReturns, server_vars
  <2>3. Held' \subseteq Held /\ InTouch' /\ Exiting'
    BY <1>1, <2>1, <2>2 DEF Held, InTouch, Exiting
  <2> QED
    BY <2>2, <2>3, WorkerMoves
<1>4. CASE HeartbeatReturns
  <2>1. /\ at' \in {"commands", "tick"} /\ call'.got = {} /\ call'.op = "none"
        /\ inbox' \subseteq call.got /\ call.op = "heartbeat"
    BY <1>4, FreshCalls DEF HeartbeatReturns, Sends, Returned
  <2>2. UNCHANGED <<commands, exits, faults, registered>>
    BY <1>4 DEF HeartbeatReturns, server_vars
  <2>3. Held' \subseteq Held /\ InTouch' /\ Exiting'
    BY <1>1, <2>1, <2>2 DEF Held, InTouch, Exiting
  <2> QED
    BY <2>2, <2>3, WorkerMoves
<1>5. ASSUME NEW i \in DOMAIN commands, NEW b \in BOOLEAN, SetPaused(i, b)
      PROVE  Accounted'
  <2>1. at' \in {"commands", "call"} /\ call'.got = {} /\ call'.op \in {"none", "ack"}
    BY <1>5, ConcludeCall, ZenonT(30) DEF SetPaused
  <2>2. UNCHANGED <<commands, exits, faults, registered>> /\ inbox' \subseteq inbox /\ at = "commands"
    BY <1>5 DEF SetPaused, server_vars
  <2>3. Held' \subseteq Held /\ InTouch' /\ Exiting'
    BY <1>1, <2>1, <2>2 DEF Held, InTouch, Exiting
  <2> QED
    BY <2>2, <2>3, WorkerMoves
<1>6. ASSUME NEW i \in {0} \cup DOMAIN commands, ReloadConfig(i)
      PROVE  Accounted'
  <2>1. at' = "call" /\ call'.got = {} /\ call'.op = "config"
    BY <1>6, FreshCalls DEF ReloadConfig, Sends, config_update
  <2>2. UNCHANGED <<commands, exits, faults, registered>> /\ inbox' \subseteq inbox /\ at = "commands"
    BY <1>6 DEF ReloadConfig, server_vars
  <2>3. Held' \subseteq Held /\ InTouch' /\ Exiting'
    BY <1>1, <2>1, <2>2 DEF Held, InTouch, Exiting
  <2> QED
    BY <2>2, <2>3, WorkerMoves
<1>7. ASSUME NEW i \in DOMAIN commands, DrainAndRestart(i)
      PROVE  Accounted'
  <2>1. at' = "drain" /\ call' = call /\ current' = i /\ i \in inbox
    BY <1>7 DEF DrainAndRestart, IsNext
  <2>2. UNCHANGED <<commands, exits, faults, registered>> /\ inbox' \subseteq inbox /\ at = "commands"
    BY <1>7 DEF DrainAndRestart, server_vars
  <2>3. Held' \subseteq Held /\ InTouch' /\ Exiting'
    BY <1>1, <2>1, <2>2 DEF Held, InTouch, Exiting
  <2> QED
    BY <2>2, <2>3, WorkerMoves
<1>8. CASE ConfigReturns
  <2>1. at' \in {"commands", "call"} /\ call'.got = {} /\ call'.op \in {"none", "ack"}
    BY <1>8, ConcludeCall DEF ConfigReturns
  <2>2. UNCHANGED <<commands, exits, faults, registered, inbox>> /\ call.op = "config"
    BY <1>8 DEF ConfigReturns, server_vars, Returned
  <2>3. Held' \subseteq Held /\ InTouch' /\ Exiting'
    BY <1>1, <2>1, <2>2 DEF Held, InTouch, Exiting
  <2> QED
    BY <2>2, <2>3, WorkerMoves
<1>9. CASE DrainFails
  <2>1. at' \in {"commands", "call"} /\ call'.got = {} /\ call'.op \in {"none", "ack"}
    BY <1>9, ConcludeCall, ZenonT(30) DEF DrainFails
  <2>2. UNCHANGED <<commands, exits, faults, registered, inbox>> /\ at = "drain"
    BY <1>9 DEF DrainFails, server_vars
  <2>3. Held' \subseteq Held /\ InTouch' /\ Exiting'
    BY <1>1, <2>1, <2>2 DEF Held, InTouch, Exiting
  <2> QED
    BY <2>2, <2>3, WorkerMoves
<1>10. CASE DrainCompletes
  <2>1. /\ at' = "exit" /\ call'.got = {} /\ call'.op = "ack" /\ call'.of = current
        /\ call'.stage = "sent"
    <3>1. at' = "exit" /\ call' = ack_command(current, TRUE)
      BY <1>10 DEF DrainCompletes, Sends
    <3> QED
      BY <3>1 DEF ack_command, Call
  <2>2. UNCHANGED <<commands, exits, faults, registered, inbox, current>> /\ at = "drain"
    BY <1>10 DEF DrainCompletes, server_vars
  <2>3. Held' \subseteq Held /\ InTouch' /\ Exiting'
    BY <1>1, <2>1, <2>2 DEF Held, InTouch, Exiting
  <2> QED
    BY <2>2, <2>3, WorkerMoves
<1>11. CASE AckReturns /\ at # "exit"
  <2>1. at' = "commands" /\ call'.got = {} /\ call'.op = "none" /\ call.op = "ack"
    BY <1>11, FreshCalls DEF AckReturns, Sends, Returned
  <2>2. UNCHANGED <<commands, exits, faults, registered, inbox>>
    BY <1>11 DEF AckReturns, server_vars
  <2>3. Held' \subseteq Held /\ InTouch' /\ Exiting'
    BY <1>1, <2>1, <2>2 DEF Held, InTouch, Exiting
  <2> QED
    BY <2>2, <2>3, WorkerMoves
<1>12. CASE EndOfCommands
  <2>1. at = "commands" /\ at' = "tick" /\ UNCHANGED <<call, commands, exits, faults, registered, inbox>>
    BY <1>12 DEF EndOfCommands, server_vars
  <2>2. Held' \subseteq Held /\ InTouch' /\ Exiting'
    BY <1>1, <2>1 DEF Held, InTouch, Exiting
  <2> QED
    BY <2>1, <2>2, WorkerMoves
<1> QED
  BY <1>2, <1>3, <1>4, <1>5, <1>6, <1>7, <1>8, <1>9, <1>10, <1>11, <1>12, ExitAccount DEF Worker

LEMMA OutsideAccount ==
  ASSUME IInv, Accounted, SettledStay,
         \/ \E k \in Kinds : EnqueueCommand(k)
         \/ PutPipeline \/ LeaseExpires
  PROVE  Accounted'
<1>1. UNCHANGED <<call, worker_rest, exits, faults>> /\ faults \in Nat
  BY DEF EnqueueCommand, PutPipeline, LeaseExpires, worker_vars, worker_rest, Accounted, ExitsCounted
<1>2. DOMAIN commands \subseteq 1..MaxCommands
  BY DEF Accounted, ExitsCounted
<1>3. DOMAIN commands' \subseteq 1..MaxCommands
  <2>1. CASE \E k \in Kinds : EnqueueCommand(k)
    <3>1. PICK r : commands' = Append(commands, r) /\ Len(commands) < MaxCommands
      BY <2>1 DEF EnqueueCommand
    <3>2. DOMAIN commands' = 1..(Len(commands) + 1) /\ Len(commands) \in Nat
      BY <3>1 DEF IInv, RowsOK
    <3> QED
      BY <3>1, <3>2, ControlAssumption DEF ControlAssumption
  <2>2. CASE PutPipeline \/ LeaseExpires
    <3>1. DOMAIN commands' = DOMAIN commands
      BY <2>2 DEF PutPipeline, LeaseExpires
    <3> QED
      BY <1>2, <3>1
  <2> QED
    BY <2>1, <2>2
<1> QED
  BY <1>1, <1>3, CallMoves

LEMMA RestartAccount ==
  ASSUME IInv, Accounted, AgentRestarts
  PROVE  Accounted'
<1>1. UNCHANGED <<commands, exits>> /\ faults' = faults + 1 /\ Started
  BY DEF AgentRestarts, Fault
<1>2. faults' \in Nat /\ faults <= faults' /\ DOMAIN commands' \subseteq 1..MaxCommands
  BY <1>1 DEF Accounted, ExitsCounted
<1>3. Held' = {} /\ InTouch' /\ Exiting'
  BY <1>1, FreshCalls DEF Started, Held, InTouch, Exiting
<1>4. SettledStay
  BY <1>1 DEF SettledStay
<1>5. ExitsCounted'
  BY <1>1, <1>2, <1>3, <1>4, NoExit
<1> QED
  BY <1>3, <1>5 DEF Accounted

LEMMA InitAccounted ==
  ASSUME Init
  PROVE  Accounted
<1>1. ExitsCounted
  <2>1. exits = [i \in 1..MaxCommands |-> 0] /\ faults = 0 /\ DOMAIN commands = {}
    BY DEF Init
  <2>2. exits \in [1..MaxCommands -> Nat] /\ \A i \in DOMAIN exits : exits[i] = 0
    BY <2>1
  <2> QED
    BY <2>1, <2>2 DEF ExitsCounted
<1>2. InTouch /\ Exiting
  BY FreshCalls DEF Init, InTouch, Exiting
<1> QED
  BY <1>1, <1>2 DEF Accounted

LEMMA NextAccounted ==
  ASSUME "id_reuse" \notin Faults, IInv, Accounted, IInv', [Next]_vars
  PROVE  Accounted'
<1>1. CASE UNCHANGED vars
  <2>1. /\ UNCHANGED <<commands, exits, faults, at, registered, inbox, call, current>>
    BY <1>1 DEF vars, server_vars, worker_vars
  <2> QED
    BY <2>1 DEF Accounted, ExitsCounted, InTouch, Exiting, Owed, Held, terminal
<1>2. CASE Next
  <2>1. SettledStay
    BY <1>2, StaysSettled DEF SettledStay
  <2> QED
    BY <1>2, <2>1, ServerAccount, FaultAccount, WorkerAccount, OutsideAccount, RestartAccount DEF Next
<1> QED
  BY <1>1, <1>2

\* The same drain_and_restart ends the agent's process at most once more than
\* there were faults: the worker exits whether or not its acknowledgement was
\* taken, and the queue hands out no command whose acknowledgement was.
THEOREM RestartsAreAccounted ==
  ASSUME "id_reuse" \notin Faults
  PROVE  Spec => []RestartsAccounted
<1>1. Init => Accounted
  BY InitAccounted
<1>2. IInv /\ Accounted /\ IInv' /\ [Next]_vars => Accounted'
  BY NextAccounted
<1>3. Accounted => RestartsAccounted
  BY DEF Accounted, ExitsCounted, RestartsAccounted
<1>4. Spec => []IInv
  BY Invariance
<1> QED
  BY <1>1, <1>2, <1>3, <1>4, PTL DEF Spec

-----------------------------------------------------------------------------
(* The order of pauses and resumes.                                        *)

Settings == {i \in DOMAIN commands : commands[i].kind \in {"pause_exports", "resume_exports"}}

Ran == {i \in Settings : <<i, TRUE>> \in executed}

\* Nothing has disturbed the agent so far.
Calm == faults = 0 /\ \A i \in DOMAIN exits : exits[i] = 0

\* The commands handed out are the oldest ones.
OldestFirst == \A i \in Handed, j \in DOMAIN commands \ Handed : i < j

\* What was executed had been handed out.
ExecutedHanded == executed \subseteq Handed \X BOOLEAN

\* Where the worker is says what its call and its inbox are about.
InStep ==
  /\ at \in {"tick", "commands", "drain"} => call.op = "none"
  /\ at = "tick" \/ call.op \in {"register", "heartbeat"} => inbox = {}
  /\ call.got # {} => call.op = "heartbeat" /\ call.stage \notin {"sent", "heard"}
  /\ call.op = "heartbeat" /\ call.stage = "done" => call.ok
  /\ at \in {"drain", "exit"} => commands[current].kind = "drain_and_restart"
  /\ call.op = "config" /\ current # 0 => commands[current].kind = "reload_config"

\* A pause or resume that was handed out is with the worker until it is
\* executed, once, and settled before the worker looks at anything else.
RunOnce ==
  /\ \A i \in Settings : <<i, FALSE>> \notin executed
  /\ (Settings \cap Handed) \ Ran \subseteq inbox \cup call.got
  /\ Ran \cap (inbox \cup call.got) = {}
  /\ \A i \in Ran : terminal(i) \/ (call.op = "ack" /\ call.of = i /\ call.stage # "done")

\* They are executed in the order of the queue, and the last one counts.
RunInOrder ==
  /\ \A i \in Ran, j \in Settings \ Ran : i < j
  /\ Ran # {} => \E i \in Ran : /\ \A j \in Ran : j <= i
                                /\ exports_paused <=> commands[i].kind = "pause_exports"

InOrder == calls = {} /\ InStep /\ RunOnce /\ RunInOrder

Orderly == OldestFirst /\ ExecutedHanded /\ (Calm => InOrder)

\* A step never changes what a command is, and adds one only at the end.
KindsStay ==
  /\ \A i \in DOMAIN commands : i \in DOMAIN commands' /\ commands'[i].kind = commands[i].kind
  /\ \A i \in DOMAIN commands, j \in DOMAIN commands' \ DOMAIN commands : i < j
  /\ \A j \in DOMAIN commands' \ DOMAIN commands : commands'[j].status = "pending"

LEMMA Appended ==
  ASSUME IInv, NEW r, commands' = Append(commands, r), r.status = "pending"
  PROVE  KindsStay /\ \A i \in DOMAIN commands : commands'[i] = commands[i]
<1>1. /\ commands \in Seq(Rows \cup {r}) /\ r \in Rows \cup {r}
  <2>1. commands \in Seq(Rows)
    BY DEF IInv, RowsOK
  <2>2. commands \in [1..Len(commands) -> Rows \cup {r}] /\ Len(commands) \in Nat
    BY <2>1, LenProperties
  <2> QED
    BY <2>2, SeqDef
<1>2. /\ DOMAIN commands = 1..Len(commands) /\ Len(commands) \in Nat
      /\ DOMAIN commands' = 1..(Len(commands) + 1)
      /\ commands'[Len(commands) + 1] = r
      /\ \A i \in 1..Len(commands) : commands'[i] = commands[i]
  BY <1>1, AppendProperties, LenProperties
<1> QED
  BY <1>2 DEF KindsStay

LEMMA QueueKinds ==
  ASSUME IInv,
         \/ \E k \in Kinds : EnqueueCommand(k)
         \/ LeaseExpires
         \/ \E c \in calls \cup {call} : DrainCommands(c) \/ AckCommand(c)
         \/ UNCHANGED commands
  PROVE  KindsStay
<1>1. \A i \in DOMAIN commands : DOMAIN commands[i] = {"id", "kind", "status", "lease"}
  BY DEF IInv, RowsOK, Row
<1>2. CASE \E k \in Kinds : EnqueueCommand(k)
  <2>1. PICK r : commands' = Append(commands, r) /\ r.status = "pending"
    BY <1>2 DEF EnqueueCommand, Command
  <2> QED
    BY <2>1, Appended
<1>3. ASSUME DOMAIN commands' = DOMAIN commands,
             \A i \in DOMAIN commands : commands'[i].kind = commands[i].kind
      PROVE  KindsStay
  BY <1>3 DEF KindsStay
<1>4. CASE LeaseExpires
  BY <1>1, <1>3, <1>4 DEF LeaseExpires
<1>5. ASSUME NEW c \in calls \cup {call}, DrainCommands(c)
      PROVE  KindsStay
  <2>1. /\ DOMAIN commands' = DOMAIN commands
        /\ \A i \in DOMAIN commands :
             commands'[i] \in {commands[i],
                               [commands[i] EXCEPT !.status = "delivered", !.lease = NextLease]}
    BY <1>5, ZenonT(30) DEF DrainCommands
  <2> QED
    BY <1>1, <1>3, <2>1, ZenonT(30)
<1>6. ASSUME NEW c \in calls \cup {call}, AckCommand(c)
      PROVE  KindsStay
  <2>1. /\ DOMAIN commands' = DOMAIN commands
        /\ \A i \in DOMAIN commands : commands'[i] \in {commands[i], mark_acknowledged(i, c.success)}
    BY <1>6 DEF AckCommand
  <2>2. \A i \in DOMAIN commands : mark_acknowledged(i, c.success).kind = commands[i].kind
    BY <1>1 DEF mark_acknowledged
  <2> QED
    BY <1>3, <2>1, <2>2
<1>7. CASE UNCHANGED commands
  BY <1>3, <1>7
<1> QED
  BY <1>2, <1>4, <1>5, <1>6, <1>7

\* Only settings and what was executed matter for the order.
LEMMA SameOrder ==
  ASSUME IInv, ExecutedHanded, RunInOrder, KindsStay, UNCHANGED exports_paused,
         \A i : <<i, TRUE>> \in executed' /\ i \in Settings' <=> <<i, TRUE>> \in executed /\ i \in Settings
  PROVE  Ran' = Ran /\ RunInOrder'
<1>1. Ran' = Ran
  BY ZenonT(30) DEF Ran
<1>2. Ran \subseteq DOMAIN commands
  BY ZenonT(30) DEF Ran, Settings
<1>3. \A j \in Settings' : j \in Settings \/ \A i \in DOMAIN commands : i < j
  BY DEF Settings, KindsStay
<1>4. \A i \in Ran, j \in Settings' \ Ran : i < j
  BY <1>2, <1>3 DEF RunInOrder
<1>5. \A i \in Ran : commands'[i].kind = commands[i].kind
  BY <1>2 DEF KindsStay
<1> QED
  BY <1>1, <1>4, <1>5 DEF RunInOrder

-----------------------------------------------------------------------------
LEMMA Numbered ==
  ASSUME IInv
  PROVE  DOMAIN commands \subseteq Nat \ {0}
<1>1. commands \in Seq(Rows)
  BY DEF IInv, RowsOK
<1> QED
  BY <1>1, LenProperties

\* A step of the server, of time or of operators.
LEMMA ServerKeepsOrder ==
  ASSUME IInv, Accounted, ExecutedHanded, InOrder, SettledStay, KindsStay,
         UNCHANGED <<worker_rest, executed>>, calls' = {},
         call'.op = call.op, call'.of = call.of,
         (Settings' \cap Handed') \ Ran \subseteq inbox \cup call'.got,
         Ran \cap call'.got = {},
         call'.got # {} => call.op = "heartbeat" /\ call'.stage \notin {"sent", "heard"},
         call.op = "heartbeat" /\ call'.stage = "done" => call'.ok,
         call.op = "ack" /\ call'.stage = "done" => call.stage = "done" \/ terminal(call.of)'
  PROVE  InOrder'
<1>1. UNCHANGED <<at, registered, exports_paused, inbox, current>>
  BY DEF worker_rest
<1>2. \A i : <<i, TRUE>> \in executed => i \in DOMAIN commands
  BY DEF ExecutedHanded, Handed
<1>3. \A i \in DOMAIN commands : i \in Settings' <=> i \in Settings
  BY DEF Settings, KindsStay
<1>4. Ran' = Ran /\ RunInOrder'
  <2>1. \A i : <<i, TRUE>> \in executed' /\ i \in Settings' <=> <<i, TRUE>> \in executed /\ i \in Settings
    BY <1>2, <1>3, ZenonT(30)
  <2> QED
    BY <1>1, <2>1, SameOrder, ZenonT(30) DEF InOrder
<1>5. InStep'
  <2>1. at \in {"drain", "exit"} => current \in DOMAIN commands
    BY ZenonT(30) DEF IInv, WorkerOK, Handed, CallsOK, CallOK, Accounted, Exiting
  <2>2. current # 0 => current \in DOMAIN commands
    BY DEF IInv, WorkerOK, Handed
  <2>3. /\ at' \in {"drain", "exit"} => commands'[current'].kind = "drain_and_restart"
        /\ call'.op = "config" /\ current' # 0 => commands'[current'].kind = "reload_config"
    BY <1>1, <2>1, <2>2 DEF InOrder, InStep, KindsStay
  <2> QED
    BY <1>1, <2>3 DEF InOrder, InStep
<1>6. RunOnce'
  <2>1. \A i \in Settings' : <<i, FALSE>> \notin executed'
    <3>1. \A i : <<i, FALSE>> \in executed => i \in DOMAIN commands
      BY DEF ExecutedHanded, Handed
    <3> QED
      BY <1>3, <3>1, ZenonT(30) DEF InOrder, RunOnce
  <2>2. Ran \cap (inbox \cup call'.got) = {}
    BY DEF InOrder, RunOnce
  <2>3. \A i \in Ran : terminal(i)' \/ (call'.op = "ack" /\ call'.of = i /\ call'.stage # "done")
    <3> SUFFICES ASSUME NEW i \in Ran
                 PROVE  terminal(i)' \/ (call'.op = "ack" /\ call'.of = i /\ call'.stage # "done")
      OBVIOUS
    <3>1. i \in DOMAIN commands /\ (terminal(i) \/ (call.op = "ack" /\ call.of = i /\ call.stage # "done"))
      BY ZenonT(30) DEF Ran, Settings, InOrder, RunOnce
    <3>2. CASE terminal(i)
      BY <3>1, <3>2 DEF SettledStay, terminal
    <3>3. CASE call.op = "ack" /\ call.of = i /\ call.stage # "done"
      BY <3>3 DEF terminal
    <3> QED
      BY <3>1, <3>2, <3>3
  <2> QED
    BY <1>1, <1>4, <2>1, <2>2, <2>3, ZenonT(30) DEF RunOnce
<1> QED
  BY <1>4, <1>5, <1>6 DEF InOrder

\* The queue as it was, or a step that hands nothing out.
LEMMA NothingHanded ==
  ASSUME IInv, OldestFirst, ExecutedHanded, KindsStay, Handed' = Handed
  PROVE  /\ OldestFirst'
         /\ executed' = executed => ExecutedHanded'
         /\ Settings' \cap Handed' = Settings \cap Handed
<1>1. \A j \in DOMAIN commands' \ Handed' :
        j \in DOMAIN commands \ Handed \/ \A i \in DOMAIN commands : i < j
  BY DEF KindsStay
<1>2. Handed \subseteq DOMAIN commands
  BY DEF Handed
<1>3. OldestFirst'
  BY <1>1, <1>2 DEF OldestFirst
<1>4. \A i \in Handed : i \in Settings' <=> i \in Settings
  BY <1>2 DEF Settings, KindsStay
<1> QED
  BY <1>3, <1>4 DEF ExecutedHanded

LEMMA OutsideOrder ==
  ASSUME IInv, Accounted, Orderly, SettledStay,
         \/ \E k \in Kinds : EnqueueCommand(k)
         \/ PutPipeline \/ LeaseExpires
  PROVE  Orderly'
<1>1. UNCHANGED <<call, calls, worker_rest, executed, faults, exits>>
  BY DEF EnqueueCommand, PutPipeline, LeaseExpires, worker_vars, worker_rest
<1>2. KindsStay
  BY QueueKinds DEF PutPipeline
<1>3. Handed' = Handed
  <2>1. CASE \E k \in Kinds : EnqueueCommand(k)
    <3>1. PICK r : commands' = Append(commands, r) /\ r.status = "pending"
      BY <2>1 DEF EnqueueCommand, Command
    <3>2. \A i \in DOMAIN commands : commands'[i] = commands[i]
      BY <3>1, Appended
    <3> QED
      BY <1>2, <3>2 DEF Handed, KindsStay
  <2>2. CASE PutPipeline
    BY <2>2 DEF PutPipeline, Handed
  <2>3. CASE LeaseExpires
    <3>1. \A i \in DOMAIN commands : DOMAIN commands[i] = {"id", "kind", "status", "lease"}
      BY DEF IInv, RowsOK, Row
    <3>2. DOMAIN commands' = DOMAIN commands /\ \A i \in DOMAIN commands : commands'[i].status = commands[i].status
      BY <2>3, <3>1 DEF LeaseExpires
    <3> QED
      BY <3>2 DEF Handed
  <2> QED
    BY <2>1, <2>2, <2>3
<1>4. OldestFirst' /\ ExecutedHanded' /\ Settings' \cap Handed' = Settings \cap Handed
  BY <1>1, <1>2, <1>3, NothingHanded DEF Orderly
<1>5. ASSUME Calm'
      PROVE  InOrder'
  <2>1. InOrder /\ ExecutedHanded
    BY <1>1, <1>5 DEF Orderly, Calm
  <2> QED
    BY <1>1, <1>2, <1>4, <2>1, ServerKeepsOrder, ZenonT(30) DEF InOrder, InStep, RunOnce
<1> QED
  BY <1>4, <1>5 DEF Orderly

\* Without faults the worker's call is the only one the server has.
LEMMA ServerOrder ==
  ASSUME IInv, Accounted, Orderly, SettledStay, Calm, Server(call)
  PROVE  InOrder'
<1>1. /\ InOrder /\ ExecutedHanded /\ calls = {} /\ call \in Calls
      /\ UNCHANGED <<worker_rest, executed, exits, faults>>
  BY ZenonT(30) DEF Orderly, InOrder, IInv, CallsOK, CallOK, Server, RegisterAgent, HeartbeatAgent,
         DrainCommands, LatestConfigVersion, FetchConfig, AckCommand
<1>2. KindsStay
  BY QueueKinds DEF Server, RegisterAgent, HeartbeatAgent, LatestConfigVersion, FetchConfig
<1>3. /\ (Settings \cap Handed) \ Ran \subseteq inbox \cup call.got /\ Ran \cap call.got = {}
      /\ call.got # {} => call.op = "heartbeat" /\ call.stage \notin {"sent", "heard"}
      /\ call.op = "heartbeat" => inbox = {}
  BY <1>1 DEF InOrder, InStep, RunOnce
<1>4. ASSUME NEW d, Moves(call, d), UNCHANGED commands, d.op = call.op, d.of = call.of,
             d.got = call.got, call.op # "ack", call.got # {} => d.stage \notin {"sent", "heard"},
             call.op = "heartbeat" /\ d.stage = "done" => d.ok
      PROVE  InOrder'
  <2>1. call' = d /\ calls' = {}
    BY <1>1, <1>4 DEF Moves
  <2>2. Settings' = Settings /\ Handed' = Handed
    BY <1>4 DEF Settings, Handed
  <2> QED
    BY <1>1, <1>2, <1>3, <1>4, <2>1, <2>2, ServerKeepsOrder
<1>5. CASE RegisterAgent(call)
  <2> DEFINE d == [[call EXCEPT !.ok = TRUE] EXCEPT !.stage = "done"]
  <2>1. Moves(call, d) /\ call.op = "register" /\ UNCHANGED commands
    BY <1>5 DEF RegisterAgent, Answers
  <2>2. d.op = call.op /\ d.of = call.of /\ d.got = call.got /\ d.stage = "done"
    BY <1>1 DEF Calls
  <2> HIDE DEF d
  <2> QED
    BY <1>4, <2>1, <2>2
<1>6. CASE HeartbeatAgent(call)
  <2> DEFINE d == [call EXCEPT !.stage = "heard"]
  <2>1. agent # NotFound
    BY <1>6 DEF HeartbeatAgent, Accounted, InTouch, IInv, RegistrationHolds
  <2>2. Moves(call, d) /\ call.op = "heartbeat" /\ call.stage = "sent" /\ UNCHANGED commands
    BY <1>6, <2>1 DEF HeartbeatAgent
  <2>3. d.op = call.op /\ d.of = call.of /\ d.got = call.got /\ d.stage = "heard"
    BY <1>1 DEF Calls
  <2> HIDE DEF d
  <2> QED
    BY <1>3, <1>4, <2>2, <2>3
<1>7. CASE LatestConfigVersion(call)
  <2> DEFINE d == [[call EXCEPT !.reload = OutOfDate(call), !.ok = TRUE] EXCEPT !.stage = "done"]
  <2>1. Moves(call, d) /\ call.op = "heartbeat" /\ UNCHANGED commands
    BY <1>7 DEF LatestConfigVersion, Answers
  <2>2. d.op = call.op /\ d.of = call.of /\ d.got = call.got /\ d.stage = "done" /\ d.ok
    BY <1>1 DEF Calls
  <2> HIDE DEF d
  <2> QED
    BY <1>4, <2>1, <2>2
<1>8. CASE FetchConfig(call)
  <2> DEFINE d == [[call EXCEPT !.ok = agent # NotFound /\ latest > 0,
                                !.version = IF OutOfDate(call) THEN latest ELSE 0] EXCEPT !.stage = "done"]
  <2>1. Moves(call, d) /\ call.op = "config" /\ UNCHANGED commands
    BY <1>8 DEF FetchConfig, Answers
  <2>2. d.op = call.op /\ d.of = call.of /\ d.got = call.got /\ d.stage = "done"
    BY <1>1 DEF Calls
  <2> HIDE DEF d
  <2> QED
    BY <1>4, <2>1, <2>2
<1>9. CASE AckCommand(call)
  <2>1. PICK c : c = call
    OBVIOUS
  <2>2. PICK d : Moves(c, d) /\ d.op = c.op /\ d.of = c.of /\ d.got = c.got /\ d.stage = "done"
    BY <1>9, <2>1, AckSettles
  <2>3. c.op = "ack" /\ terminal(c.of)' /\ Handed' = Handed
    BY <1>9, <2>1, AckSettles
  <2>4. call' = d /\ calls' = {}
    BY <1>1, <2>1, <2>2 DEF Moves
  <2>5. terminal(call.of)'
    BY <2>1, <2>2, <2>3, <2>4 DEF terminal
  <2>6. Settings' \cap Handed' = Settings \cap Handed
    BY <1>2, <2>3, NothingHanded DEF Orderly
  <2> QED
    BY <1>1, <1>2, <1>3, <2>1, <2>2, <2>3, <2>4, <2>5, <2>6, ServerKeepsOrder
<1>10. CASE DrainCommands(call)
  <2> DEFINE delivered == {i \in DOMAIN commands : deliverable(i)}
             d == [call EXCEPT !.stage = "drained", !.got = delivered]
  <2>1. delivered = {i \in DOMAIN commands :
          commands[i].id \in {commands[j].id : j \in {k \in DOMAIN commands : deliverable(k)}}}
    BY DEF IInv, RowsOK, Row
  <2>2. /\ Moves(call, d) /\ call.op = "heartbeat" /\ call.stage = "heard"
        /\ DOMAIN commands' = DOMAIN commands
        /\ \A i \in DOMAIN commands \ delivered : commands'[i] = commands[i]
    BY <1>10, <2>1, ZenonT(30) DEF DrainCommands
  <2>3. d.op = call.op /\ d.of = call.of /\ d.got = delivered /\ d.stage = "drained"
    BY <1>1 DEF Calls
  <2>4. \A i \in Ran : i \notin delivered
    BY <1>1, <2>2 DEF InOrder, RunOnce, deliverable, terminal
  <2>5. (Settings' \cap Handed') \ Ran \subseteq delivered
    <3>1. call.got = {} /\ inbox = {}
      BY <1>3, <2>2
    <3>2. \A i \in DOMAIN commands \ delivered : i \in Handed' => i \in Handed
      BY <2>2 DEF Handed
    <3>3. \A i \in DOMAIN commands : i \in Settings' => i \in Settings
      BY <1>2 DEF KindsStay, Settings
    <3>4. Handed' \subseteq DOMAIN commands
      BY <2>2 DEF Handed
    <3> QED
      BY <1>3, <3>1, <3>2, <3>3, <3>4
  <2> HIDE DEF delivered, d
  <2>6. call' = d /\ calls' = {}
    BY <1>1, <2>2 DEF Moves
  <2> QED
    BY <1>1, <1>2, <2>2, <2>3, <2>4, <2>5, <2>6, ServerKeepsOrder
<1> QED
  BY <1>5, <1>6, <1>7, <1>8, <1>9, <1>10 DEF Server

-----------------------------------------------------------------------------
\* A step of the server hands out all that was waiting, or nothing.
LEMMA ServerHands ==
  ASSUME IInv, OldestFirst, ExecutedHanded, NEW c \in calls \cup {call}, Server(c)
  PROVE  OldestFirst' /\ ExecutedHanded'
<1>1. executed' = executed /\ CallOK(c)
  BY ZenonT(30) DEF Server, RegisterAgent, HeartbeatAgent, DrainCommands, LatestConfigVersion, FetchConfig,
         AckCommand, IInv, CallsOK
<1>2. KindsStay
  BY QueueKinds DEF Server, RegisterAgent, HeartbeatAgent, LatestConfigVersion, FetchConfig
<1>3. CASE UNCHANGED commands
  <2>1. Handed' = Handed
    BY <1>3 DEF Handed
  <2> QED
    BY <1>1, <1>2, <2>1, NothingHanded
<1>4. CASE AckCommand(c)
  <2> DEFINE matching == {i \in DOMAIN commands : commands[i].id = c.id}
  <2>1. c.op = "ack" /\ matching = {c.of} /\ c.of \in Handed /\ Row(c.of)
    BY <1>1, <1>4 DEF AckCommand, CallOK, Handed, IInv, RowsOK, Row
  <2>2. mark_acknowledged(c.of, c.success).status # "pending"
    BY <2>1 DEF mark_acknowledged, Row
  <2>3. \/ UNCHANGED commands
        \/ commands' = [i \in DOMAIN commands |->
             IF i \in matching THEN mark_acknowledged(i, c.success) ELSE commands[i]]
    BY <1>4 DEF AckCommand
  <2> HIDE DEF matching
  <2>4. Handed' = Handed
    BY <2>1, <2>2, <2>3 DEF Handed
  <2> QED
    BY <1>1, <1>2, <2>4, NothingHanded
<1>5. CASE DrainCommands(c)
  <2> DEFINE delivered == {i \in DOMAIN commands : commands[i].id \in
               {commands[j].id : j \in {k \in DOMAIN commands : deliverable(k)}}}
  <2>1. \A i \in DOMAIN commands : commands[i].status = "pending" => i \in delivered
    BY DEF deliverable
  <2>2. commands' = [i \in DOMAIN commands |->
          IF i \in delivered THEN [commands[i] EXCEPT !.status = "delivered", !.lease = NextLease]
          ELSE commands[i]]
    BY <1>5, ZenonT(30) DEF DrainCommands
  <2> HIDE DEF delivered
  <2>3. \A i \in DOMAIN commands : DOMAIN commands[i] = {"id", "kind", "status", "lease"}
    BY DEF IInv, RowsOK, Row
  <2>4. \A i \in DOMAIN commands : i \in delivered => commands'[i].status = "delivered"
    BY <2>2, <2>3, ZenonT(30)
  <2>5. \A i \in DOMAIN commands : i \notin delivered => commands'[i] = commands[i]
    BY <2>2, ZenonT(30)
  <2>6. DOMAIN commands' = DOMAIN commands /\ Handed' = DOMAIN commands
    BY <2>1, <2>2, <2>4, <2>5, ZenonT(30) DEF Handed
  <2> QED
    BY <1>1, <2>6 DEF OldestFirst, ExecutedHanded, Handed
<1> QED
  BY <1>3, <1>4, <1>5 DEF Server, RegisterAgent, HeartbeatAgent, LatestConfigVersion, FetchConfig

\* The worker executes what it was handed.
LEMMA WorkerHands ==
  ASSUME IInv, OldestFirst, ExecutedHanded, Worker
  PROVE  OldestFirst' /\ ExecutedHanded'
<1>1. UNCHANGED commands
  BY ZenonT(30) DEF Worker, Tick, RegisterReturns, HeartbeatReturns, SetPaused, ReloadConfig, DrainAndRestart,
         ConfigReturns, DrainFails, DrainCompletes, AckReturns, EndOfCommands, server_vars
<1>2. inbox \subseteq Handed /\ current \in {0} \cup Handed /\ (at = "drain" => current # 0)
  BY DEF IInv, WorkerOK
<1> DEFINE Within == executed' \subseteq executed \cup (Handed \X BOOLEAN)
<1>3. ASSUME NEW i \in {0} \cup Handed, NEW ok \in BOOLEAN, Conclude(i, ok)
      PROVE  Within
  BY <1>3 DEF Conclude
<1>4. ASSUME NEW i, NEW b \in BOOLEAN, SetPaused(i, b)
      PROVE  Within
  BY <1>2, <1>3, <1>4, ZenonT(30) DEF SetPaused, IsNext
<1>5. ConfigReturns => Within
  <2>1. (call.ok /\ (call.version = 0 \/ Applies)) \in BOOLEAN
    BY ZenonT(30)
  <2> QED
    BY <1>2, <1>3, <2>1, ZenonT(30) DEF ConfigReturns
<1>6. DrainFails => Within
  BY <1>2, <1>3, ZenonT(30) DEF DrainFails
<1>7. DrainCompletes => Within
  <2>1. DrainCompletes => current \in Handed /\ executed' = executed \cup {<<current, TRUE>>}
    BY <1>2 DEF DrainCompletes
  <2>2. current \in Handed => <<current, TRUE>> \in Handed \X BOOLEAN
    BY ZenonT(30)
  <2> QED
    BY <2>1, <2>2, ZenonT(30)
<1>8. executed' \subseteq executed \cup (Handed \X BOOLEAN)
  BY <1>4, <1>5, <1>6, <1>7 DEF Worker, Tick, RegisterReturns, HeartbeatReturns, ReloadConfig,
     DrainAndRestart, AckReturns, EndOfCommands
<1> QED
  BY <1>1, <1>8 DEF OldestFirst, ExecutedHanded, Handed

\* A step of the worker that touches no pause or resume.
LEMMA WorkerKeepsOrder ==
  ASSUME IInv, ExecutedHanded, InOrder, UNCHANGED <<commands, exports_paused, calls>>,
         \A i \in Settings : \A b \in BOOLEAN : <<i, b>> \in executed' <=> <<i, b>> \in executed,
         \A i \in Settings : i \in inbox' \cup call'.got <=> i \in inbox \cup call.got,
         call.op = "ack" => call.stage = "done",
         InStep'
  PROVE  InOrder'
<1>1. Settings' = Settings /\ Handed' = Handed
  BY DEF Settings, Handed
<1>2. KindsStay
  BY DEF KindsStay
<1>3. Ran' = Ran /\ RunInOrder'
  BY <1>1, <1>2, SameOrder, ZenonT(30) DEF InOrder
<1>4. RunOnce'
  <2>1. \A i \in Ran : terminal(i)'
    BY DEF InOrder, RunOnce, terminal
  <2>2. \A i \in Settings : <<i, FALSE>> \notin executed'
    BY ZenonT(30) DEF InOrder, RunOnce
  <2>3. Ran \subseteq Settings
    BY ZenonT(30) DEF Ran
  <2>4. (Settings \cap Handed) \ Ran \subseteq inbox' \cup call'.got /\ Ran \cap (inbox' \cup call'.got) = {}
    BY <2>3 DEF InOrder, RunOnce
  <2> QED
    BY <1>1, <1>3, <2>1, <2>2, <2>4, ZenonT(30) DEF RunOnce
<1> QED
  BY <1>3, <1>4 DEF InOrder

\* A pause or resume: the oldest one left, and now the last one executed.
LEMMA PauseOrder ==
  ASSUME IInv, OldestFirst, InOrder, NEW i \in DOMAIN commands, NEW b \in BOOLEAN, SetPaused(i, b)
  PROVE  InOrder'
<1>1. /\ at = "commands" /\ i \in inbox /\ \A j \in inbox : i <= j
      /\ commands[i].kind = IF b THEN "pause_exports" ELSE "resume_exports"
      /\ inbox' = inbox \ {i} /\ exports_paused' = b /\ Conclude(i, TRUE)
      /\ UNCHANGED <<commands, calls, current>>
  BY ZenonT(30) DEF SetPaused, IsNext, server_vars
<1>2. DOMAIN commands \subseteq Nat \ {0}
  BY Numbered
<1>3. at' = "call" /\ call' = ack_command(i, TRUE) /\ executed' = executed \cup {<<i, TRUE>>}
  BY <1>1, <1>2, ZenonT(30) DEF Conclude, Sends
<1>4. call'.op = "ack" /\ call'.of = i /\ call'.got = {} /\ call'.stage = "sent"
  BY <1>3 DEF ack_command, Call
<1>5. call.op = "none" /\ call.got = {}
  BY <1>1 DEF InOrder, InStep
<1>6. Settings' = Settings /\ Handed' = Handed /\ i \in Settings
  BY <1>1 DEF Settings, Handed
<1>7. i \notin Ran /\ Ran' = Ran \cup {i}
  <2>1. i \notin Ran
    BY <1>1 DEF InOrder, RunOnce
  <2> QED
    BY <1>3, <1>6, <2>1, ZenonT(30) DEF Ran
<1>8. Settings \subseteq DOMAIN commands /\ Ran \subseteq Settings /\ i \in Handed
      /\ inbox \subseteq Handed
  BY <1>1, ZenonT(30) DEF Settings, Ran, IInv, WorkerOK
<1>9. \A j \in Settings \ Ran : j # i => i < j
  <2> SUFFICES ASSUME NEW j \in Settings \ Ran, j # i
               PROVE  i < j
    OBVIOUS
  <2>1. CASE j \in Handed
    <3>1. j \in inbox
      BY <1>5, <2>1 DEF InOrder, RunOnce
    <3> QED
      BY <1>1, <1>2, <1>8, <3>1
  <2>2. CASE j \notin Handed
    BY <1>8, <2>2 DEF OldestFirst
  <2> QED
    BY <2>1, <2>2
<1>10. \A r \in Ran, j \in Settings \ Ran : r < j
  BY DEF InOrder, RunInOrder
<1>11. RunInOrder'
  <2>1. \A r \in Ran', j \in Settings' \ Ran' : r < j
    BY <1>6, <1>7, <1>9, <1>10
  <2>2. \A r \in Ran' : r <= i
    BY <1>2, <1>6, <1>7, <1>8, <1>10
  <2>3. exports_paused' <=> commands'[i].kind = "pause_exports"
    BY <1>1
  <2> QED
    BY <1>7, <2>1, <2>2, <2>3 DEF RunInOrder
<1>12. InStep'
  BY <1>3, <1>4, ZenonT(30) DEF InStep
<1>13. RunOnce'
  <2>1. \A r \in Ran : terminal(r)'
    BY <1>1, <1>5 DEF InOrder, RunOnce, terminal
  <2>2. \A r \in Ran' : terminal(r)' \/ (call'.op = "ack" /\ call'.of = r /\ call'.stage # "done")
    BY <1>4, <1>7, <2>1
  <2>3. \A r \in Settings : <<r, FALSE>> \notin executed'
    BY <1>3, ZenonT(30) DEF InOrder, RunOnce
  <2>4. (Settings \cap Handed) \ Ran' \subseteq inbox' /\ Ran' \cap inbox' = {}
    BY <1>1, <1>5, <1>7 DEF InOrder, RunOnce
  <2> QED
    BY <1>4, <1>6, <2>2, <2>3, <2>4, ZenonT(30) DEF RunOnce
<1> QED
  BY <1>1, <1>11, <1>12, <1>13 DEF InOrder

\* A command of another kind is no setting.
LEMMA OtherKinds ==
  ASSUME NEW i, commands[i].kind \in {"reload_config", "drain_and_restart"}
  PROVE  i \notin Settings
BY DEF Settings

LEMMA WorkerOrder ==
  ASSUME IInv, Accounted, OldestFirst, ExecutedHanded, InOrder, Worker,
         AckReturns => at # "exit"
  PROVE  InOrder'
<1>1. InStep /\ calls = {} /\ 0 \notin Settings
  BY Numbered DEF InOrder, Settings
<1>2. call.op # "heartbeat" => call.got = {}
  BY <1>1 DEF InStep
<1>3. CASE Tick
  <2>1. /\ at = "tick" /\ at' = "call" /\ UNCHANGED <<commands, exports_paused, calls, inbox, executed, current>>
        /\ call' \in {heartbeat, register}
    BY <1>3 DEF Tick, Sends, server_vars
  <2>2. call'.got = {} /\ call'.op \in {"register", "heartbeat"} /\ call'.stage = "sent"
    BY <2>1 DEF heartbeat, register, Call
  <2>3. call.op = "none" /\ inbox = {}
    BY <1>1, <2>1 DEF InStep
  <2>4. InStep'
    BY <2>1, <2>2, <2>3 DEF InStep
  <2> QED
    BY <1>2, <2>1, <2>2, <2>3, <2>4, WorkerKeepsOrder
<1>4. CASE RegisterReturns
  <2>1. /\ call.op = "register" /\ UNCHANGED <<commands, exports_paused, calls, inbox, executed, current>>
        /\ \/ at' = "call" /\ call' = heartbeat
           \/ at' = "tick" /\ call' = NoCall
    BY <1>4 DEF RegisterReturns, Returned, Sends, server_vars
  <2>2. /\ call'.got = {} /\ call'.op \in {"none", "heartbeat"}
        /\ at' = "tick" => call'.op = "none"
        /\ call'.op = "heartbeat" => call'.stage = "sent"
    BY <2>1 DEF heartbeat, NoCall, Call
  <2>3. inbox = {}
    BY <1>1, <2>1 DEF InStep
  <2>4. InStep'
    BY <2>1, <2>2, <2>3 DEF InStep
  <2> QED
    BY <1>2, <2>1, <2>2, <2>4, WorkerKeepsOrder
<1>5. CASE HeartbeatReturns
  <2>1. call.op = "heartbeat" /\ call.stage = "done" /\ call.ok /\ inbox = {}
    BY <1>1, <1>5 DEF HeartbeatReturns, Returned, InStep
  <2>2. /\ UNCHANGED <<commands, exports_paused, calls, executed, current>>
        /\ at' = "commands" /\ inbox' = call.got /\ call' = NoCall
    BY <1>5, <2>1 DEF HeartbeatReturns, Sends, server_vars
  <2>3. call'.got = {} /\ call'.op = "none"
    BY <2>2, FreshCalls
  <2>4. InStep'
    BY <2>2, <2>3 DEF InStep
  <2> QED
    BY <2>1, <2>2, <2>3, <2>4, WorkerKeepsOrder
<1>6. ASSUME NEW i \in {0} \cup DOMAIN commands, ReloadConfig(i)
      PROVE  InOrder'
  <2>1. /\ at = "commands" /\ at' = "call" /\ current' = i /\ inbox' = inbox \ {i} /\ call' = config_update
        /\ i = 0 \/ commands[i].kind = "reload_config"
        /\ UNCHANGED <<commands, exports_paused, calls, executed>>
    BY <1>6 DEF ReloadConfig, Sends, server_vars
  <2>2. call.op = "none" /\ i \notin Settings
    BY <1>1, <2>1, OtherKinds DEF InStep
  <2>3. call'.got = {} /\ call'.op = "config"
    BY <2>1, FreshCalls DEF config_update
  <2>4. InStep'
    BY <2>1, <2>3 DEF InStep
  <2> QED
    BY <1>2, <2>1, <2>2, <2>3, <2>4, WorkerKeepsOrder
<1>7. ASSUME NEW i \in DOMAIN commands, DrainAndRestart(i)
      PROVE  InOrder'
  <2>1. /\ at = "commands" /\ at' = "drain" /\ current' = i /\ inbox' = inbox \ {i}
        /\ commands[i].kind = "drain_and_restart"
        /\ UNCHANGED <<commands, exports_paused, calls, executed, call>>
    BY <1>7 DEF DrainAndRestart, server_vars
  <2>2. call.op = "none" /\ i \notin Settings
    BY <1>1, <2>1, OtherKinds DEF InStep
  <2>3. InStep'
    BY <1>2, <2>1, <2>2 DEF InStep
  <2> QED
    BY <2>1, <2>2, <2>3, WorkerKeepsOrder
<1>8. ASSUME NEW ok, Conclude(current, ok), call.op \in {"none", "config"}, current \notin Settings,
             UNCHANGED <<commands, exports_paused, calls, inbox, current>>
      PROVE  InOrder'
  <2>1. /\ at' \in {"commands", "call"} /\ executed' \subseteq executed \cup {<<current, ok>>}
        /\ executed \subseteq executed'
        /\ at' = "commands" => call' = NoCall
    BY <1>8 DEF Conclude, Sends
  <2>2. call'.got = {} /\ call'.op \in {"none", "ack"}
    BY <1>8, ConcludeCall
  <2>3. at' = "commands" => call'.op = "none"
    BY <2>1, FreshCalls
  <2>4. InStep'
    BY <2>1, <2>2, <2>3 DEF InStep
  <2>5. \A i \in Settings : \A b \in BOOLEAN : <<i, b>> \in executed' <=> <<i, b>> \in executed
    BY <1>8, <2>1
  <2> QED
    BY <1>2, <1>8, <2>2, <2>4, <2>5, WorkerKeepsOrder
<1>9. CASE ConfigReturns
  <2>1. call.op = "config" /\ UNCHANGED <<commands, exports_paused, calls, inbox, current>>
    BY <1>9 DEF ConfigReturns, Returned, server_vars
  <2>2. current \notin Settings
    BY <1>1, <2>1, OtherKinds DEF InStep
  <2> QED
    BY <1>8, <1>9, <2>1, <2>2 DEF ConfigReturns
<1>10. CASE DrainFails
  <2>1. at = "drain" /\ UNCHANGED <<commands, exports_paused, calls, inbox, current>>
    BY <1>10 DEF DrainFails, server_vars
  <2>2. call.op = "none" /\ current \notin Settings
    BY <1>1, <2>1, OtherKinds DEF InStep
  <2> QED
    BY <1>8, <1>10, <2>1, <2>2, ZenonT(30) DEF DrainFails
<1>11. CASE DrainCompletes
  <2>1. /\ at = "drain" /\ at' = "exit" /\ call' = ack_command(current, TRUE)
        /\ executed' = executed \cup {<<current, TRUE>>}
        /\ UNCHANGED <<commands, exports_paused, calls, inbox, current>>
    BY <1>11 DEF DrainCompletes, Sends, server_vars
  <2>2. call.op = "none" /\ commands[current].kind = "drain_and_restart" /\ current \notin Settings
    BY <1>1, <2>1, OtherKinds DEF InStep
  <2>3. call'.got = {} /\ call'.op = "ack"
    BY <2>1 DEF ack_command, Call
  <2>4. InStep'
    BY <2>1, <2>2, <2>3, ZenonT(30) DEF InStep
  <2>5. \A i \in Settings : \A b \in BOOLEAN : <<i, b>> \in executed' <=> <<i, b>> \in executed
    BY <2>1, <2>2, ZenonT(30)
  <2> QED
    BY <1>2, <2>1, <2>2, <2>3, <2>4, <2>5, WorkerKeepsOrder, ZenonT(30)
<1>12. CASE AckReturns
  <2>1. /\ call.op = "ack" /\ call.stage = "done" /\ at' = "commands" /\ call' = NoCall
        /\ UNCHANGED <<commands, exports_paused, calls, inbox, current, executed>>
    BY <1>12 DEF AckReturns, Returned, Sends, server_vars
  <2>2. call'.got = {} /\ call'.op = "none"
    BY <2>1, FreshCalls
  <2>3. InStep'
    BY <2>1, <2>2 DEF InStep
  <2> QED
    BY <1>2, <2>1, <2>2, <2>3, WorkerKeepsOrder
<1>13. CASE EndOfCommands
  <2>1. /\ at = "commands" /\ at' = "tick" /\ inbox = {}
        /\ UNCHANGED <<commands, exports_paused, calls, inbox, current, executed, call>>
    BY <1>13 DEF EndOfCommands, server_vars
  <2>2. call.op = "none"
    BY <1>1, <2>1 DEF InStep
  <2>3. InStep'
    BY <1>2, <2>1, <2>2 DEF InStep
  <2> QED
    BY <2>1, <2>2, <2>3, WorkerKeepsOrder
<1> QED
  BY <1>3, <1>4, <1>5, <1>6, <1>7, <1>9, <1>10, <1>11, <1>12, <1>13, PauseOrder DEF Worker

\* Nothing has happened so far if nothing has happened after this step.
LEMMA CalmBefore ==
  ASSUME IInv, Accounted, Next, Calm'
  PROVE  /\ Calm
         /\ AckReturns => at # "exit"
         /\ ~(CallFails \/ CallSilent \/ ServerRestarts \/ AgentRestarts)
<1>1. /\ faults \in Nat /\ exits \in [1..MaxCommands -> Nat] /\ DOMAIN commands \subseteq 1..MaxCommands
      /\ faults' = 0 /\ \A i \in DOMAIN exits' : exits'[i] = 0
  BY DEF Accounted, ExitsCounted, Calm
<1>2. ~(CallFails \/ CallSilent \/ ServerRestarts \/ AgentRestarts)
  BY <1>1 DEF CallFails, CallSilent, ServerRestarts, AgentRestarts, Fault
<1>3. AckReturns => at # "exit"
  <2> SUFFICES ASSUME AckReturns, at = "exit"
               PROVE  FALSE
    OBVIOUS
  <2>1. exits' = [exits EXCEPT ![current] = @ + 1] /\ call.of = current /\ call.op = "ack"
    BY DEF AckReturns, Accounted, Exiting
  <2>2. current \in 1..MaxCommands
    BY <1>1, <2>1, ZenonT(30) DEF IInv, CallsOK, CallOK, Handed
  <2>3. exits[current] \in Nat /\ current \in DOMAIN exits' /\ exits'[current] = exits[current] + 1
    BY <1>1, <2>1, <2>2
  <2> QED
    BY <1>1, <2>3
<1>4. UNCHANGED <<faults, exits>>
  BY <1>2, <1>3, ZenonT(30) DEF Next, EnqueueCommand, PutPipeline, LeaseExpires, Server, RegisterAgent, HeartbeatAgent,
     DrainCommands, LatestConfigVersion, FetchConfig, AckCommand, Worker, Tick, RegisterReturns,
     HeartbeatReturns, SetPaused, ReloadConfig, DrainAndRestart, ConfigReturns, DrainFails, DrainCompletes,
     AckReturns, EndOfCommands, CallLost
<1> QED
  BY <1>1, <1>2, <1>3, <1>4 DEF Calm

LEMMA InitOrderly ==
  ASSUME Init
  PROVE  Orderly
<1>1. DOMAIN commands = {} /\ executed = {} /\ calls = {} /\ inbox = {} /\ at = "tick" /\ call = NoCall
  BY DEF Init
<1>2. Settings = {} /\ Ran = {} /\ Handed = {}
  BY <1>1 DEF Settings, Ran, Handed
<1>3. call.op = "none" /\ call.got = {}
  BY <1>1, FreshCalls
<1> QED
  BY <1>1, <1>2, <1>3 DEF Orderly, OldestFirst, ExecutedHanded, InOrder, InStep, RunOnce, RunInOrder

LEMMA NextOrderly ==
  ASSUME "id_reuse" \notin Faults, IInv, Accounted, Orderly, IInv', [Next]_vars
  PROVE  Orderly'
<1>1. CASE UNCHANGED vars
  <2>1. UNCHANGED <<commands, executed, faults, exits, calls, call, at, inbox, current, exports_paused>>
    BY <1>1 DEF vars, server_vars, worker_vars
  <2>2. Settings' = Settings /\ Ran' = Ran /\ Handed' = Handed /\ (Calm' => Calm)
    BY <2>1 DEF Settings, Ran, Handed, Calm
  <2>3. OldestFirst' /\ ExecutedHanded'
    BY <2>1, <2>2 DEF Orderly, OldestFirst, ExecutedHanded
  <2>4. ASSUME InOrder
        PROVE  InOrder'
    <3>1. InStep'
      BY <2>1, <2>4 DEF InOrder, InStep
    <3>2. RunOnce'
      BY <2>1, <2>2, <2>4, ZenonT(30) DEF InOrder, RunOnce, terminal
    <3>3. RunInOrder'
      BY <2>1, <2>2, <2>4 DEF InOrder, RunInOrder
    <3> QED
      BY <2>1, <2>4, <3>1, <3>2, <3>3 DEF InOrder
  <2> QED
    BY <2>2, <2>3, <2>4 DEF Orderly
<1>2. CASE Next
  <2>1. SettledStay
    BY <1>2, StaysSettled DEF SettledStay
  <2>2. OldestFirst /\ ExecutedHanded
    BY DEF Orderly
  <2>3. CASE (\E k \in Kinds : EnqueueCommand(k)) \/ PutPipeline \/ LeaseExpires
    BY <2>1, <2>3, OutsideOrder
  <2>4. ASSUME NEW c \in calls \cup {call}, Server(c)
        PROVE  Orderly'
    <3>1. OldestFirst' /\ ExecutedHanded'
      BY <2>2, <2>4, ServerHands
    <3>2. ASSUME Calm'
          PROVE  InOrder'
      <4>1. Calm /\ c = call
        BY <1>2, <3>2, CalmBefore DEF Orderly, InOrder
      <4> QED
        BY <2>1, <2>4, <4>1, ServerOrder
    <3> QED
      BY <3>1, <3>2 DEF Orderly
  <2>5. CASE Worker
    <3>1. OldestFirst' /\ ExecutedHanded'
      BY <2>2, <2>5, WorkerHands
    <3>2. ASSUME Calm'
          PROVE  InOrder'
      <4>1. InOrder /\ (AckReturns => at # "exit")
        BY <1>2, <3>2, CalmBefore DEF Orderly
      <4> QED
        BY <2>2, <2>5, <4>1, WorkerOrder
    <3> QED
      BY <3>1, <3>2 DEF Orderly
  <2>6. CASE CallFails \/ CallLost \/ CallSilent \/ ServerRestarts \/ AgentRestarts
    <3>1. UNCHANGED <<commands, executed>>
      BY <2>6 DEF CallFails, CallLost, CallSilent, ServerRestarts, AgentRestarts, server_vars
    <3>2. OldestFirst' /\ ExecutedHanded'
      BY <2>2, <3>1 DEF OldestFirst, ExecutedHanded, Handed
    <3>3. ~Calm'
      BY <1>2, <2>6, CalmBefore DEF Orderly, InOrder, CallLost
    <3> QED
      BY <3>2, <3>3 DEF Orderly
  <2> QED
    BY <1>2, <2>3, <2>4, <2>5, <2>6 DEF Next
<1> QED
  BY <1>1, <1>2

\* While nothing comes in between, exports are paused exactly if the newest pause
\* or resume says so once all are settled: the queue hands commands out oldest
\* first, and the worker executes each once, in that order, and has it settled
\* before it looks at the next.
THEOREM TheLastCommandWins ==
  ASSUME "id_reuse" \notin Faults
  PROVE  Spec => []LastCommandWins
<1>1. Init => Accounted /\ Orderly
  BY InitAccounted, InitOrderly
<1>2. IInv /\ Accounted /\ Orderly /\ IInv' /\ [Next]_vars => Accounted' /\ Orderly'
  BY NextAccounted, NextOrderly
<1>3. IInv /\ Orderly => LastCommandWins
  <2> SUFFICES ASSUME IInv, Orderly, Settings # {}, \A i \in Settings : terminal(i), Calm
               PROVE  \E i \in Settings : /\ \A j \in Settings : j <= i
                                          /\ exports_paused <=> commands[i].kind = "pause_exports"
    BY DEF LastCommandWins, Settings, Calm
  <2>1. RunOnce /\ RunInOrder
    BY DEF Orderly, InOrder
  <2>2. \A i \in Settings : <<i, TRUE>> \in executed
    BY <2>1, ZenonT(30) DEF RunOnce, terminal, IInv, OutcomeTrue, Settings
  <2>3. Ran = Settings
    BY <2>2, ZenonT(30) DEF Ran
  <2> QED
    BY <2>1, <2>3 DEF RunInOrder
<1>4. Spec => []IInv
  BY Invariance
<1> QED
  BY <1>1, <1>2, <1>3, <1>4, PTL DEF Spec
=============================================================================
