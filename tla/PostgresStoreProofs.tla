------------------------- MODULE PostgresStoreProofs -------------------------
(***************************************************************************)
(* The PostgreSQL store for any number of requests: the version a request  *)
(* was answered with is its own, a settled command stays settled, and a    *)
(* command is handed out once per lease.  And the copy in PostgreSQL for   *)
(* any number of commands: what it has of a command is audited in it.      *)
(*                                                                         *)
(* The first rests on the primary key alone: what a transaction has        *)
(* inserted and not committed is the next version, and one transaction at  *)
(* a time holds it (OneInserts).  The second rests on the row locks: rows  *)
(* a drain has found deliverable are locked by it and stay unsettled until *)
(* it commits (Held).  So does the third: they also stay deliverable, and  *)
(* a deliverable command was handed out no more often than its leases ran  *)
(* out (HandedCounted).                                                    *)
(*                                                                         *)
(* The last rests on the order of the four reads: commands are read before *)
(* the log, so what was read of them is audited by the log that is read    *)
(* next (SnapshotAudited).                                                 *)
(***************************************************************************)
EXTENDS MCPostgres, SequenceTheorems, FiniteSetTheorems, WellFoundedInduction, TLAPS

Statuses == {"pending", "delivered", "succeeded", "failed"}

States == {"idle", "ensure_tenant", "target", "next_version", "insert", "inserted", "select",
           "lock", "lock_one", "ack", "ok", "error"}

Tx == [at : States, op : {"none", "put", "rollback", "drain", "ack"}, of : Nat, version : Nat,
       ids : SUBSET Nat, pending : SUBSET Nat]

Types ==
  /\ versions \in Seq(Requests \cup {0})
  /\ commands \in Seq([status : Statuses, leased : BOOLEAN])
  /\ Len(commands) <= MaxCommands
  /\ locks \in [1..MaxCommands -> {{}} \cup {{r} : r \in Requests}]
  /\ tenant \in {{}} \cup {{r} : r \in Requests}
  /\ tx \in [Requests -> Tx]

\* The operation a state belongs to.
OpOK(r) ==
  /\ tx[r].at \in {"select", "lock"} => tx[r].op = "drain"
  /\ tx[r].at \in {"lock_one", "ack"} => tx[r].op = "ack"

\* A version that was computed is at most the next one; inserted, it is the next.
OneInserts ==
  /\ \A r \in Requests :
       /\ tx[r].at = "insert" => tx[r].version \in 1..(Len(versions) + 1)
       /\ tx[r].at = "inserted" => tx[r].version = Len(versions) + 1
  /\ \A q, r \in Requests : tx[q].at = "inserted" /\ tx[r].at = "inserted" => q = r

\* What a transaction holds, and what it may rely on meanwhile.
Held(r) ==
  /\ tx[r].at = "select" => tx[r].pending = {}
  /\ tx[r].at = "lock" =>
       /\ tx[r].ids \subseteq DOMAIN commands
       /\ tx[r].pending \subseteq DOMAIN commands
       /\ \A c \in tx[r].pending : locks[c] = {r} /\ ~terminal(c)
  /\ tx[r].at \in {"lock_one", "ack"} => tx[r].of \in DOMAIN commands
  /\ tx[r].at = "ack" => locks[tx[r].of] = {r}

\* A settled command has no lease that could run out.
Unleased == \A c \in DOMAIN commands : terminal(c) => ~commands[c].leased

IInv ==
  /\ Types
  /\ Unleased
  /\ \A r \in Requests : OpOK(r)
  /\ OneInserts
  /\ PublishedKept
  /\ \A r \in Requests : Held(r)

-----------------------------------------------------------------------------
USE StoreAssumption
\* The provers, and the seconds each may take, for a step that names none.
USE SMTT(30), Z3T(30), ZenonT(30)

\* Rows are locked in the order of their numbers, and there is a first one.
LEMMA MinIn ==
  ASSUME NEW S, S \subseteq Nat, S # {}
  PROVE  Min(S) \in S
<1>1. PICK x \in S : \A y \in S : ~(<<y, x>> \in OpToRel(<, Nat))
  BY WFMin, NatLessThanWellFounded, ZenonT(30)
<1>2. \A y \in S : ~(y < x)
  BY <1>1, ZenonT(30) DEF OpToRel
<1>3. \A y \in S : x <= y
  BY <1>2
<1> QED
  BY <1>3, ZenonT(30) DEF Min

\* Giving up a lock leaves at most one holder.
LEMMA OneHolder ==
  ASSUME NEW r \in Requests, NEW S \in {{}} \cup {{q} : q \in Requests}
  PROVE  S \ {r} \in {{}} \cup {{q} : q \in Requests}
OBVIOUS

LEMMA QuietLeases ==
  ASSUME IInv, commands' = commands
  PROVE  Unleased'
BY DEF IInv, Unleased, terminal

\* A step of one request that publishes nothing.
LEMMA RequestStep ==
  ASSUME IInv, Types', Unleased', versions' = versions, NEW r \in Requests, OpOK(r)', Held(r)',
         \A q \in Requests : q # r => tx'[q] = tx[q] /\ Held(q)',
         tx'[r].at = "insert" => tx'[r].version \in 1..(Len(versions) + 1),
         tx'[r].at = "inserted" => /\ tx'[r].version = Len(versions) + 1
                                   /\ \A q \in Requests : q # r => tx[q].at # "inserted",
         tx'[r].at = "ok" => tx'[r].op \notin {"put", "rollback"}
  PROVE  IInv'
<1>1. \A q \in Requests : OpOK(q)' /\ Held(q)'
  BY DEF IInv, OpOK
<1>2. OneInserts'
  BY DEF IInv, OneInserts
<1>3. PublishedKept'
  BY DEF IInv, PublishedKept
<1> QED
  BY <1>1, <1>2, <1>3 DEF IInv

\* A request that has just begun or only moves on to its next statement.
LEMMA QuietStep ==
  ASSUME IInv, NEW r \in Requests, NEW t \in Tx, tx' = [tx EXCEPT ![r] = t],
         UNCHANGED <<versions, commands, locks>>,
         tenant' = tenant \/ tenant' = tenant \ {r} \/ tenant' = {r},
         t.at \notin {"inserted", "ok", "lock", "ack"},
         t.at = "insert" => t.version \in 1..(Len(versions) + 1),
         t.at = "select" => t.op = "drain" /\ t.pending = {},
         t.at = "lock_one" => t.op = "ack" /\ t.of \in DOMAIN commands
  PROVE  IInv'
<1>1. tx'[r] = t /\ \A q \in Requests : q # r => tx'[q] = tx[q]
  BY DEF IInv, Types
<1>2. Types'
  BY DEF IInv, Types
<1>3. \A q \in Requests : q # r => Held(q)'
  BY <1>1 DEF IInv, Held, terminal
<1>4. OpOK(r)' /\ Held(r)'
  BY <1>1 DEF OpOK, Held
<1> QED
  BY <1>1, <1>2, <1>3, <1>4, QuietLeases, RequestStep

LEMMA BeginSteps ==
  ASSUME IInv, NEW r \in Requests,
         \/ BeginPut(r) \/ BeginDrain(r)
         \/ \E v \in 1..(Len(versions) + 1) : BeginRollback(r, v)
         \/ \E c \in DOMAIN commands : BeginAck(r, c)
  PROVE  IInv'
<1> DEFINE Began(op, of, at) == [Idle EXCEPT !.at = at, !.op = op, !.of = of]
<1>0. DOMAIN commands \subseteq Nat /\ 1..(Len(versions) + 1) \subseteq Nat
  BY LenProperties DEF IInv, Types
<1>1. CASE BeginPut(r)
  <2>1. Began("put", 0, "ensure_tenant") \in Tx
    BY ZenonT(30) DEF Tx, States, Idle
  <2> QED
    BY <1>1, <2>1, QuietStep, ZenonT(30) DEF BeginPut, Begin, Idle
<1>2. CASE BeginDrain(r)
  <2>1. Began("drain", 0, "select") \in Tx
    BY ZenonT(30) DEF Tx, States, Idle
  <2> QED
    BY <1>2, <2>1, QuietStep, ZenonT(30) DEF BeginDrain, Begin, Idle
<1>3. ASSUME NEW v \in 1..(Len(versions) + 1), BeginRollback(r, v)
      PROVE  IInv'
  <2>1. Began("rollback", v, "target") \in Tx
    BY <1>0, ZenonT(30) DEF Tx, States, Idle
  <2> QED
    BY <1>3, <2>1, QuietStep, ZenonT(30) DEF BeginRollback, Begin, Idle
<1>4. ASSUME NEW c \in DOMAIN commands, BeginAck(r, c)
      PROVE  IInv'
  <2>1. Began("ack", c, "lock_one") \in Tx
    BY <1>0, ZenonT(30) DEF Tx, States, Idle
  <2> QED
    BY <1>4, <2>1, QuietStep, ZenonT(30) DEF BeginAck, Begin, Idle
<1> QED
  BY <1>1, <1>2, <1>3, <1>4

-----------------------------------------------------------------------------
(* Versions.                                                               *)

LEMMA VersionSteps ==
  ASSUME IInv, NEW r \in Requests,
         ensure_tenant(r) \/ FindTarget(r) \/ NextVersion(r) \/ SelectCommands(r)
  PROVE  IInv'
<1>0. tx \in [Requests -> Tx] /\ tx[r] \in Tx /\ Len(versions) \in Nat
  BY LenProperties DEF IInv, Types
<1>1. CASE ensure_tenant(r)
  <2> DEFINE t == [tx[r] EXCEPT !.at = "next_version"]
  <2>1. t \in Tx /\ t.at = "next_version"
    BY <1>0, ZenonT(30) DEF Tx, States
  <2>2. tx' = [tx EXCEPT ![r] = t]
    BY <1>0, <1>1 DEF ensure_tenant
  <2> HIDE DEF t
  <2> QED
    BY <1>1, <2>1, <2>2, QuietStep, ZenonT(30) DEF ensure_tenant
<1>2. CASE FindTarget(r)
  <2> DEFINE t == [tx[r] EXCEPT !.at =
                     IF tx[r].of \in DOMAIN versions THEN "next_version" ELSE "error"]
  <2>1. t \in Tx /\ t.at \in {"next_version", "error"}
    BY <1>0, ZenonT(30) DEF Tx, States
  <2>2. tx' = [tx EXCEPT ![r] = t]
    BY <1>0, <1>2 DEF FindTarget
  <2> HIDE DEF t
  <2> QED
    BY <1>2, <2>1, <2>2, QuietStep, ZenonT(30) DEF FindTarget
<1>3. CASE NextVersion(r)
  <2> DEFINE next == Len(versions) + 1
             t == [tx[r] EXCEPT !.at = "insert", !.version = next]
  <2>0. next \in Nat /\ next \in 1..(Len(versions) + 1)
    BY <1>0
  <2> HIDE DEF next
  <2>1. t \in Tx /\ t.at = "insert" /\ t.version \in 1..(Len(versions) + 1)
    BY <1>0, <2>0, ZenonT(30) DEF Tx, States
  <2>2. tx' = [tx EXCEPT ![r] = t]
    BY <1>0, <1>3, ZenonT(30) DEF NextVersion, next_pipeline_version, next
  <2> HIDE DEF t
  <2> QED
    BY <1>3, <2>1, <2>2, QuietStep, ZenonT(30) DEF NextVersion
<1>4. CASE SelectCommands(r)
  <2> DEFINE found == {c \in DOMAIN commands : deliverable(c)}
             t == [tx[r] EXCEPT !.at = "lock", !.ids = found]
  <2>0. found \subseteq DOMAIN commands /\ found \subseteq Nat
    BY LenProperties DEF IInv, Types
  <2> HIDE DEF found
  <2>1. /\ t \in Tx /\ t.at = "lock" /\ t.op = tx[r].op /\ t.ids = found
        /\ t.pending = tx[r].pending
    BY <1>0, <2>0, ZenonT(30) DEF Tx, States
  <2>2. tx' = [tx EXCEPT ![r] = t]
    BY <1>0, <1>4, ZenonT(30) DEF SelectCommands, found
  <2> HIDE DEF t
  <2>3. tx'[r] = t /\ \A q \in Requests : q # r => tx'[q] = tx[q]
    BY <1>0, <2>2
  <2>4. Types'
    BY <1>4, <2>1, <2>2, ZenonT(30) DEF IInv, Types, SelectCommands
  <2>5. \A q \in Requests : q # r => Held(q)'
    BY <1>4, <2>3, ZenonT(30) DEF IInv, Held, terminal, SelectCommands
  <2>6. tx[r].pending = {} /\ tx[r].op = "drain"
    BY <1>4 DEF IInv, Held, OpOK, SelectCommands
  <2>7. OpOK(r)' /\ Held(r)'
    BY <1>4, <2>0, <2>1, <2>3, <2>6, ZenonT(30) DEF OpOK, Held, SelectCommands
  <2>8. UNCHANGED <<versions, commands>>
    BY <1>4 DEF SelectCommands
  <2> QED
    BY <2>1, <2>3, <2>4, <2>5, <2>7, <2>8, QuietLeases, RequestStep
<1> QED
  BY <1>1, <1>2, <1>3, <1>4

\* The primary key lets one transaction at a time insert the next version.
LEMMA InsertStep ==
  ASSUME IInv, NEW r \in Requests, insert_pipeline_version(r)
  PROVE  IInv'
<1>0. /\ tx \in [Requests -> Tx] /\ tx[r] \in Tx
      /\ Len(versions) \in Nat /\ DOMAIN versions = 1..Len(versions)
  BY LenProperties DEF IInv, Types
<1> DEFINE t == [tx[r] EXCEPT !.at = insert_result(r)]
<1>1. /\ t \in Tx /\ t.at = insert_result(r) /\ t.at \in {"error", "inserted"}
      /\ t.version = tx[r].version
  BY <1>0, ZenonT(30) DEF Tx, States, insert_result
<1>2. tx' = [tx EXCEPT ![r] = t]
  BY <1>0 DEF insert_pipeline_version
<1> HIDE DEF t
<1>3. tx'[r] = t /\ \A q \in Requests : q # r => tx'[q] = tx[q]
  BY <1>0, <1>2
<1>4. Types'
  <2>1. tenant' \in {{}} \cup {{q} : q \in Requests}
    BY OneHolder, ZenonT(30) DEF IInv, Types, insert_pipeline_version
  <2> QED
    BY <1>1, <1>2, <2>1 DEF IInv, Types, insert_pipeline_version
<1>5. \A q \in Requests : q # r => Held(q)'
  BY <1>3 DEF IInv, Held, terminal, insert_pipeline_version
<1>6. OpOK(r)' /\ Held(r)'
  BY <1>1, <1>3 DEF OpOK, Held
<1>7. tx[r].version \in 1..(Len(versions) + 1)
  BY DEF IInv, OneInserts, insert_pipeline_version
<1>8. t.at = "inserted" => /\ t.version = Len(versions) + 1
                           /\ \A q \in Requests : q # r => tx[q].at # "inserted"
  <2>1. t.at = "inserted" => t.version = Len(versions) + 1
    BY <1>0, <1>1, <1>7 DEF insert_result
  <2>2. \A q \in Requests : tx[q].at = "inserted" => tx[q].version # tx[r].version
    BY DEF insert_pipeline_version, Contended
  <2> QED
    BY <1>1, <2>1, <2>2 DEF IInv, OneInserts
<1>9. versions' = versions /\ commands' = commands
  BY DEF insert_pipeline_version
<1> QED
  BY <1>1, <1>3, <1>4, <1>5, <1>6, <1>8, <1>9, QuietLeases, RequestStep

LEMMA CommitVersionStep ==
  ASSUME IInv, NEW r \in Requests, CommitVersion(r)
  PROVE  IInv'
<1>0. /\ tx \in [Requests -> Tx] /\ tx[r] \in Tx
      /\ versions \in Seq(Requests \cup {0}) /\ r \in Requests \cup {0}
  BY DEF IInv, Types
<1> DEFINE t == [tx[r] EXCEPT !.at = "ok"]
<1>1. t \in Tx /\ t.at = "ok" /\ t.version = tx[r].version
  BY <1>0, ZenonT(30) DEF Tx, States
<1>2. tx' = [tx EXCEPT ![r] = t] /\ UNCHANGED <<commands, locks>>
  BY <1>0 DEF CommitVersion
<1> HIDE DEF t
<1>3. tx'[r] = t /\ \A q \in Requests : q # r => tx'[q] = tx[q]
  BY <1>0, <1>2
<1>4. tx[r].at = "inserted" /\ tx[r].version = Len(versions) + 1
  BY DEF CommitVersion, IInv, OneInserts
<1>5. versions' = Append(versions, r)
  BY <1>4 DEF CommitVersion
<1>6. /\ versions' \in Seq(Requests \cup {0})
      /\ Len(versions) \in Nat
      /\ Len(versions') = Len(versions) + 1
      /\ DOMAIN versions = 1..Len(versions) /\ DOMAIN versions' = 1..(Len(versions) + 1)
      /\ \A i \in 1..Len(versions) : versions'[i] = versions[i]
      /\ versions'[Len(versions) + 1] = r
  BY <1>0, <1>5, AppendProperties, LenProperties
<1>7. Types'
  <2>1. tenant' \in {{}} \cup {{q} : q \in Requests}
    BY OneHolder, ZenonT(30) DEF IInv, Types, CommitVersion
  <2> QED
    BY <1>1, <1>2, <1>6, <2>1, ZenonT(30) DEF IInv, Types
<1>8. \A q \in Requests : OpOK(q)' /\ Held(q)'
  <2>1. OpOK(r)' /\ Held(r)'
    BY <1>1, <1>3 DEF OpOK, Held
  <2>2. ASSUME NEW q \in Requests, q # r
        PROVE  OpOK(q)' /\ Held(q)'
    BY <1>2, <1>3, <2>2 DEF IInv, OpOK, Held, terminal
  <2> QED
    BY <2>1, <2>2
<1>9. OneInserts'
  <2>1. \A q \in Requests : tx'[q].at # "inserted"
    BY <1>1, <1>3, <1>4 DEF IInv, OneInserts
  <2>2. \A q \in Requests : tx'[q].at = "insert" => tx'[q].version \in 1..(Len(versions) + 1)
    BY <1>1, <1>3 DEF IInv, OneInserts
  <2> QED
    BY <1>6, <2>1, <2>2 DEF OneInserts
<1>10. PublishedKept'
  <2>1. t.version \in DOMAIN versions' /\ versions'[t.version] = r
    BY <1>1, <1>4, <1>6
  <2> QED
    BY <1>3, <1>6, <2>1 DEF IInv, PublishedKept
<1> QED
  BY <1>2, <1>7, <1>8, <1>9, <1>10, QuietLeases DEF IInv

-----------------------------------------------------------------------------
(* Commands.                                                               *)

Locks == [1..MaxCommands -> {{}} \cup {{r} : r \in Requests}]

LEMMA Facts ==
  ASSUME IInv, NEW r \in Requests
  PROVE  /\ tx \in [Requests -> Tx] /\ tx[r] \in Tx
         /\ locks \in Locks
         /\ commands \in Seq([status : Statuses, leased : BOOLEAN])
         /\ DOMAIN commands \subseteq 1..MaxCommands
         /\ OpOK(r) /\ Held(r)
BY LenProperties DEF IInv, Types, Locks

\* The end of a transaction leaves the locks of the others.
LEMMA Unlocked ==
  ASSUME NEW r \in Requests, locks \in Locks
  PROVE  /\ Unlock(r) \in Locks
         /\ \A c \in 1..MaxCommands, q \in Requests :
              q # r /\ locks[c] = {q} => Unlock(r)[c] = {q}
<1>1. \A c \in 1..MaxCommands : locks[c] \ {r} \in {{}} \cup {{q} : q \in Requests}
  BY OneHolder DEF Locks
<1> QED
  BY <1>1 DEF Unlock, Locks

\* A step of one request that may lock, unlock and write rows: the others keep
\* their locks, and rows they hold are not settled.
LEMMA RowStep ==
  ASSUME IInv, NEW r \in Requests, NEW t \in Tx, tx' = [tx EXCEPT ![r] = t],
         UNCHANGED <<versions, tenant>>, locks' \in Locks,
         commands' \in Seq([status : Statuses, leased : BOOLEAN]),
         DOMAIN commands' = DOMAIN commands, Len(commands') = Len(commands),
         \A c \in 1..MaxCommands, q \in Requests :
           q # r /\ locks[c] = {q} => locks'[c] = {q},
         \A c \in DOMAIN commands : \A q \in Requests :
           q # r /\ locks[c] = {q} => commands'[c] = commands[c],
         t.at \in {"lock", "ok", "ack"},
         t.op \in {"drain", "ack"}, OpOK(r)', Held(r)', Unleased'
  PROVE  IInv'
<1>0. DOMAIN commands \subseteq 1..MaxCommands
  BY LenProperties DEF IInv, Types
<1>1. tx'[r] = t /\ \A q \in Requests : q # r => tx'[q] = tx[q]
  BY DEF IInv, Types
<1>2. Types'
  BY ZenonT(30) DEF IInv, Types, Locks
<1>3. ASSUME NEW q \in Requests, q # r
      PROVE  Held(q)'
  <2>1. Held(q) /\ tx'[q] = tx[q]
    BY <1>1, <1>3 DEF IInv
  <2>2. \A c \in DOMAIN commands :
          locks[c] = {q} => locks'[c] = {q} /\ commands'[c] = commands[c]
    BY <1>0, <1>3
  <2> QED
    BY <2>1, <2>2, ZenonT(30) DEF Held, terminal
<1> QED
  BY <1>1, <1>2, <1>3, RequestStep

LEMMA LockNextStep ==
  ASSUME IInv, NEW r \in Requests, LockNext(r)
  PROVE  IInv'
<1> DEFINE c == Min(tx[r].ids)
           t == [tx[r] EXCEPT !.ids = @ \ {c},
                              !.pending = IF still_wanted(c) THEN @ \cup {c} ELSE @]
<1>0. /\ tx \in [Requests -> Tx] /\ tx[r] \in Tx /\ tx[r].at = "lock" /\ tx[r].op = "drain"
      /\ locks \in Locks /\ Held(r)
      /\ DOMAIN commands \subseteq 1..MaxCommands
  BY Facts DEF LockNext, OpOK
<1>1. c \in tx[r].ids
  BY <1>0, MinIn DEF LockNext, Tx
<1>2. c \in DOMAIN commands /\ c \in Nat
  BY <1>0, <1>1 DEF Held, Tx
<1>3. /\ locks[c] \subseteq {r}
      /\ locks' = [locks EXCEPT ![c] = IF still_wanted(c) THEN {r} ELSE @]
      /\ UNCHANGED <<versions, commands, tenant>>
  BY DEF LockNext, Free
<1>4. tx' = [tx EXCEPT ![r] = t]
  BY <1>0, ZenonT(30) DEF LockNext
<1> HIDE DEF c
<1>5. /\ t \in Tx /\ t.at = "lock" /\ t.op = "drain" /\ t.ids = tx[r].ids \ {c}
      /\ t.pending = IF still_wanted(c) THEN tx[r].pending \cup {c} ELSE tx[r].pending
  BY <1>0, <1>2, ZenonT(30) DEF Tx
<1> HIDE DEF t
<1>6. locks' \in Locks
  BY <1>0, <1>3, ZenonT(30) DEF Locks
<1>7. tx'[r] = t
  BY <1>0, <1>4
<1>8. \A d \in 1..MaxCommands, q \in Requests :
        q # r /\ locks[d] = {q} => locks'[d] = {q}
  BY <1>0, <1>3, ZenonT(30) DEF Locks
<1>9. Held(r)' /\ OpOK(r)'
  <2>1. \A d \in t.pending : d \in DOMAIN commands /\ locks'[d] = {r} /\ ~terminal(d)
    <3>1. \A d \in tx[r].pending : d \in DOMAIN commands /\ locks'[d] = {r} /\ ~terminal(d)
      BY <1>0, <1>3 DEF Held, Locks
    <3>2. still_wanted(c) => locks'[c] = {r} /\ ~terminal(c)
      BY <1>0, <1>2, <1>3 DEF still_wanted, deliverable, terminal, Locks
    <3> QED
      BY <1>2, <1>5, <3>1, <3>2
  <2>2. t.ids \subseteq DOMAIN commands
    BY <1>0, <1>5 DEF Held
  <2> QED
    BY <1>3, <1>5, <1>7, <2>1, <2>2 DEF Held, OpOK, terminal
<1>10. commands \in Seq([status : Statuses, leased : BOOLEAN])
  BY DEF IInv, Types
<1> QED
  BY <1>3, <1>4, <1>5, <1>6, <1>8, <1>9, <1>10, QuietLeases, RowStep, ZenonT(30)

LEMMA LockOneStep ==
  ASSUME IInv, NEW r \in Requests, LockOne(r)
  PROVE  IInv'
<1> DEFINE c == tx[r].of
           t == [tx[r] EXCEPT !.at = "ack"]
<1>0. /\ tx \in [Requests -> Tx] /\ tx[r] \in Tx /\ tx[r].op = "ack"
      /\ locks \in Locks /\ c \in DOMAIN commands
      /\ DOMAIN commands \subseteq 1..MaxCommands
      /\ commands \in Seq([status : Statuses, leased : BOOLEAN])
  BY Facts, ZenonT(30) DEF LockOne, OpOK, Held
<1>1. /\ locks[c] \subseteq {r}
      /\ locks' = [locks EXCEPT ![c] = {r}]
      /\ UNCHANGED <<versions, commands, tenant>>
  BY DEF LockOne, Free
<1>2. t \in Tx /\ t.at = "ack" /\ t.op = "ack" /\ t.of = c
  BY <1>0, ZenonT(30) DEF Tx, States
<1>3. tx' = [tx EXCEPT ![r] = t] /\ tx'[r] = t
  BY <1>0 DEF LockOne
<1> HIDE DEF t, c
<1>4. locks' \in Locks /\ locks'[c] = {r}
  BY <1>0, <1>1, ZenonT(30) DEF Locks
<1>5. \A d \in 1..MaxCommands, q \in Requests :
        q # r /\ locks[d] = {q} => locks'[d] = {q}
  BY <1>0, <1>1, ZenonT(30) DEF Locks
<1>6. Held(r)' /\ OpOK(r)'
  BY <1>0, <1>1, <1>2, <1>3, <1>4 DEF Held, OpOK
<1> QED
  BY <1>0, <1>1, <1>2, <1>3, <1>4, <1>5, <1>6, QuietLeases, RowStep, ZenonT(30)

\* The rows a drain takes are its own, and none of them is settled.
LEMMA CommitDrainStep ==
  ASSUME IInv, NEW r \in Requests, CommitDrain(r)
  PROVE  IInv' /\ \A c \in DOMAIN commands : terminal(c) => commands'[c] = commands[c]
<1> DEFINE t == [tx[r] EXCEPT !.at = "ok"]
           taken == [status |-> "delivered", leased |-> TRUE]
           RowType == [status : Statuses, leased : BOOLEAN]
<1>0. /\ tx \in [Requests -> Tx] /\ tx[r] \in Tx /\ tx[r].op = "drain"
      /\ locks \in Locks
      /\ commands \in Seq(RowType)
      /\ DOMAIN commands \subseteq 1..MaxCommands
      /\ \A c \in tx[r].pending : locks[c] = {r} /\ ~terminal(c)
  BY Facts, ZenonT(30) DEF CommitDrain, OpOK, Held
<1>1. /\ commands' = [c \in DOMAIN commands |->
                       IF c \in tx[r].pending THEN taken ELSE commands[c]]
      /\ locks' = Unlock(r)
      /\ UNCHANGED <<versions, tenant>>
  BY DEF CommitDrain
<1>2. t \in Tx /\ t.at = "ok" /\ t.op = "drain"
  BY <1>0, ZenonT(30) DEF Tx, States
<1>3. tx' = [tx EXCEPT ![r] = t] /\ tx'[r] = t
  BY <1>0 DEF CommitDrain
<1>4. taken \in RowType /\ taken.status = "delivered"
  BY DEF Statuses
<1> HIDE DEF t, taken, RowType
<1>5. /\ commands' \in Seq(RowType)
      /\ DOMAIN commands' = DOMAIN commands /\ Len(commands') = Len(commands)
  <2>1. Len(commands) \in Nat /\ commands \in [1..Len(commands) -> RowType]
        /\ DOMAIN commands = 1..Len(commands)
    BY <1>0, LenProperties
  <2>2. commands' \in [1..Len(commands) -> RowType]
    BY <1>1, <1>4, <2>1
  <2>3. commands' \in Seq(RowType)
    BY <2>1, <2>2, SeqDef
  <2> QED
    BY <2>1, <2>2, <2>3, LenProperties
<1>6. \A c \in DOMAIN commands :
        /\ terminal(c) => commands'[c] = commands[c]
        /\ \A q \in Requests : q # r /\ locks[c] = {q} => commands'[c] = commands[c]
  BY <1>0, <1>1, ZenonT(30)
<1>7. Unleased'
  BY <1>1, <1>4, <1>5 DEF IInv, Unleased, terminal
<1>8. Held(r)' /\ OpOK(r)'
  BY <1>2, <1>3 DEF Held, OpOK
<1>9. /\ locks' \in Locks
      /\ \A d \in 1..MaxCommands, q \in Requests : q # r /\ locks[d] = {q} => locks'[d] = {q}
  BY <1>0, <1>1, Unlocked
<1>10. IInv'
  BY <1>1, <1>2, <1>3, <1>5, <1>6, <1>7, <1>8, <1>9, RowStep, ZenonT(30) DEF RowType
<1> QED
  BY <1>6, <1>10

LEMMA CommitAckStep ==
  ASSUME IInv, NEW r \in Requests, NEW success \in BOOLEAN, CommitAck(r, success)
  PROVE  IInv' /\ \A c \in DOMAIN commands : terminal(c) => commands'[c] = commands[c]
<1> DEFINE t == [tx[r] EXCEPT !.at = "ok"]
           c == tx[r].of
           answered == [status |-> ack_status(success), leased |-> FALSE]
           RowType == [status : Statuses, leased : BOOLEAN]
<1>0. /\ tx \in [Requests -> Tx] /\ tx[r] \in Tx /\ tx[r].op = "ack"
      /\ locks \in Locks
      /\ commands \in Seq(RowType)
      /\ DOMAIN commands \subseteq 1..MaxCommands
      /\ c \in DOMAIN commands /\ locks[c] = {r}
  BY Facts, ZenonT(30) DEF CommitAck, OpOK, Held
<1>1. /\ commands' = IF terminal(c) THEN commands ELSE [commands EXCEPT ![c] = answered]
      /\ locks' = Unlock(r)
      /\ UNCHANGED <<versions, tenant>>
  BY DEF CommitAck
<1>2. t \in Tx /\ t.at = "ok" /\ t.op = "ack"
  BY <1>0, ZenonT(30) DEF Tx, States
<1>3. tx' = [tx EXCEPT ![r] = t] /\ tx'[r] = t
  BY <1>0 DEF CommitAck
<1>4. answered \in RowType /\ ~answered.leased
  BY DEF Statuses, ack_status
<1> HIDE DEF t, c, answered, RowType
<1>5. /\ commands' \in Seq(RowType)
      /\ DOMAIN commands' = DOMAIN commands /\ Len(commands') = Len(commands)
      /\ \A d \in DOMAIN commands : d # c \/ terminal(c) => commands'[d] = commands[d]
      /\ ~terminal(c) => commands'[c] = answered
  <2>1. DOMAIN commands = 1..Len(commands)
    BY <1>0, LenProperties
  <2> QED
    BY <1>0, <1>1, <1>4, <2>1, ExceptSeq
<1>6. \A d \in DOMAIN commands :
        /\ terminal(d) => commands'[d] = commands[d]
        /\ \A q \in Requests : q # r /\ locks[d] = {q} => commands'[d] = commands[d]
  BY <1>0, <1>5, ZenonT(30)
<1>7. Unleased'
  <2>1. ASSUME NEW d \in DOMAIN commands, terminal(d)'
        PROVE  ~commands'[d].leased
    <3>1. CASE d # c \/ terminal(c)
      BY <1>5, <2>1, <3>1 DEF IInv, Unleased, terminal
    <3>2. CASE d = c /\ ~terminal(c)
      BY <1>4, <1>5, <3>2
    <3> QED
      BY <3>1, <3>2
  <2> QED
    BY <1>5, <2>1 DEF Unleased
<1>8. Held(r)' /\ OpOK(r)'
  BY <1>2, <1>3 DEF Held, OpOK
<1>9. /\ locks' \in Locks
      /\ \A d \in 1..MaxCommands, q \in Requests : q # r /\ locks[d] = {q} => locks'[d] = {q}
  BY <1>0, <1>1, Unlocked
<1>10. IInv'
  BY <1>1, <1>2, <1>3, <1>5, <1>6, <1>7, <1>8, <1>9, RowStep, ZenonT(30) DEF RowType
<1> QED
  BY <1>6, <1>10

LEMMA AbortStep ==
  ASSUME IInv, NEW r \in Requests, Abort(r)
  PROVE  IInv'
<1> DEFINE t == [tx[r] EXCEPT !.at = "error"]
<1>0. /\ tx \in [Requests -> Tx] /\ tx[r] \in Tx /\ locks \in Locks
      /\ DOMAIN commands \subseteq 1..MaxCommands
  BY Facts
<1>1. t \in Tx /\ t.at = "error"
  BY <1>0 DEF Tx, States
<1>2. /\ tx' = [tx EXCEPT ![r] = t] /\ tx'[r] = t
      /\ \A q \in Requests : q # r => tx'[q] = tx[q]
  BY <1>0 DEF Abort
<1> HIDE DEF t
<1>3. UNCHANGED <<versions, commands>> /\ locks' = Unlock(r)
  BY DEF Abort
<1>4. /\ locks' \in Locks
      /\ \A c \in 1..MaxCommands, q \in Requests : q # r /\ locks[c] = {q} => locks'[c] = {q}
  BY <1>0, <1>3, Unlocked
<1>5. tenant' \in {{}} \cup {{q} : q \in Requests}
  BY OneHolder, ZenonT(30) DEF IInv, Types, Abort
<1>6. Types'
  BY <1>1, <1>2, <1>3, <1>4, <1>5, ZenonT(30) DEF IInv, Types, Locks
<1>7. ASSUME NEW q \in Requests, q # r
      PROVE  Held(q)'
  <2>1. Held(q) /\ tx'[q] = tx[q]
    BY <1>2, <1>7 DEF IInv
  <2>2. \A c \in DOMAIN commands : locks[c] = {q} => locks'[c] = {q}
    BY <1>0, <1>4, <1>7
  <2> QED
    BY <1>3, <2>1, <2>2 DEF Held, terminal
<1>8. Held(r)' /\ OpOK(r)'
  BY <1>1, <1>2 DEF Held, OpOK
<1> QED
  BY <1>1, <1>2, <1>3, <1>6, <1>7, <1>8, QuietLeases, RequestStep

LEMMA EnqueueStep ==
  ASSUME IInv, EnqueueCommand
  PROVE  IInv' /\ \A c \in DOMAIN commands : commands'[c] = commands[c]
<1> DEFINE row == [status |-> "pending", leased |-> FALSE]
           RowType == [status : Statuses, leased : BOOLEAN]
<1>0. commands \in Seq(RowType) /\ row \in RowType
  BY DEF IInv, Types, Statuses
<1>1. /\ commands' = Append(commands, row) /\ Len(commands) < MaxCommands
      /\ UNCHANGED <<versions, locks, tenant, tx>>
  BY DEF EnqueueCommand
<1>2. row.status = "pending"
  OBVIOUS
<1> HIDE DEF row, RowType
<1>3. /\ commands' \in Seq(RowType)
      /\ Len(commands) \in Nat /\ Len(commands') = Len(commands) + 1
      /\ DOMAIN commands = 1..Len(commands) /\ DOMAIN commands' = 1..(Len(commands) + 1)
      /\ \A c \in DOMAIN commands : commands'[c] = commands[c]
      /\ commands'[Len(commands) + 1] = row
  BY <1>0, <1>1, AppendProperties, LenProperties
<1>4. Types'
  <2>1. Len(commands') <= MaxCommands
    BY <1>1, <1>3
  <2> QED
    BY <1>1, <1>3, <2>1 DEF IInv, Types, RowType
<1>5. Unleased'
  <2>1. \A c \in DOMAIN commands' : c \in DOMAIN commands \/ commands'[c] = row
    BY <1>3
  <2> QED
    BY <1>2, <1>3, <2>1 DEF IInv, Unleased, terminal
<1>6. ASSUME NEW r \in Requests
      PROVE  OpOK(r)' /\ Held(r)'
  <2>1. OpOK(r) /\ Held(r) /\ DOMAIN commands \subseteq DOMAIN commands'
    BY <1>3 DEF IInv
  <2> QED
    BY <1>1, <1>3, <2>1 DEF OpOK, Held, terminal
<1>7. OneInserts' /\ PublishedKept'
  BY <1>1 DEF IInv, OneInserts, PublishedKept
<1> QED
  BY <1>3, <1>4, <1>5, <1>6, <1>7 DEF IInv

LEMMA LeaseStep ==
  ASSUME IInv, NEW c \in DOMAIN commands, LeaseExpires(c)
  PROVE  IInv' /\ \A d \in DOMAIN commands : terminal(d) => commands'[d] = commands[d]
<1> DEFINE row == [commands[c] EXCEPT !.leased = FALSE]
           RowType == [status : Statuses, leased : BOOLEAN]
<1>0. /\ commands \in Seq(RowType) /\ DOMAIN commands = 1..Len(commands)
      /\ commands[c] \in RowType
  <2>1. commands \in Seq(RowType)
    BY DEF IInv, Types
  <2> HIDE DEF RowType
  <2> QED
    BY <2>1, LenProperties
<1>1. /\ commands' = [commands EXCEPT ![c] = row] /\ commands[c].leased
      /\ UNCHANGED <<versions, locks, tenant, tx>>
  BY <1>0 DEF LeaseExpires
<1>2. row \in RowType /\ row.status = commands[c].status /\ ~row.leased
  BY <1>0, ZenonT(30)
<1> HIDE DEF row, RowType
<1>3. /\ commands' \in Seq(RowType) /\ Len(commands') = Len(commands)
      /\ DOMAIN commands' = DOMAIN commands
      /\ \A d \in DOMAIN commands : commands'[d] = IF d = c THEN row ELSE commands[d]
  BY <1>0, <1>1, <1>2, ExceptSeq
<1>4. ~terminal(c)
  BY <1>1 DEF IInv, Unleased
<1>5. Types'
  BY <1>1, <1>3, ZenonT(30) DEF IInv, Types, RowType
<1>6. Unleased'
  BY <1>2, <1>3, <1>4 DEF IInv, Unleased, terminal
<1>7. \A r \in Requests : OpOK(r)' /\ Held(r)'
  BY <1>1, <1>2, <1>3 DEF IInv, OpOK, Held, terminal
<1>8. OneInserts' /\ PublishedKept'
  BY <1>1 DEF IInv, OneInserts, PublishedKept
<1> QED
  BY <1>3, <1>4, <1>5, <1>6, <1>7, <1>8 DEF IInv

-----------------------------------------------------------------------------
(* The invariant, and what follows from it.                                *)

LEMMA InitIInv == Init => IInv
<1> SUFFICES ASSUME Init
             PROVE  IInv
  OBVIOUS
<1>1. Idle \in Tx /\ Idle.at = "idle"
  BY DEF Idle, Tx, States
<1>2. <<0>> \in Seq(Requests \cup {0})
  OBVIOUS
<1>3. commands = <<>> /\ DOMAIN commands = {} /\ Len(commands) = 0
  BY DEF Init
<1>4. Types
  BY <1>1, <1>2, <1>3, EmptySeq DEF Init, Types
<1>5. \A r \in Requests : tx[r].at = "idle"
  BY <1>1 DEF Init
<1> QED
  BY <1>3, <1>4, <1>5 DEF IInv, Unleased, OpOK, OneInserts, PublishedKept, Held

Settled == \A c \in DOMAIN commands : terminal(c) => commands'[c] = commands[c]

LEMMA NextIInv ==
  ASSUME IInv, [Next]_vars
  PROVE  IInv' /\ Settled
<1>1. CASE EnqueueCommand
  BY <1>1, EnqueueStep DEF Settled
<1>2. CASE \E c \in DOMAIN commands : LeaseExpires(c)
  BY <1>2, LeaseStep DEF Settled
<1>3. ASSUME NEW r \in Requests,
             \/ BeginPut(r) \/ BeginDrain(r)
             \/ \E v \in 1..(Len(versions) + 1) : BeginRollback(r, v)
             \/ \E c \in DOMAIN commands : BeginAck(r, c)
      PROVE  IInv' /\ Settled
  BY <1>3, BeginSteps DEF Settled, BeginPut, BeginDrain, BeginRollback, BeginAck
<1>4. ASSUME NEW r \in Requests, Serve(r)
      PROVE  IInv' /\ Settled
  <2>1. CASE ensure_tenant(r) \/ FindTarget(r) \/ NextVersion(r) \/ SelectCommands(r)
    BY <2>1, VersionSteps DEF Settled, ensure_tenant, FindTarget, NextVersion, SelectCommands
  <2>2. CASE insert_pipeline_version(r)
    BY <2>2, InsertStep, ZenonT(30) DEF Settled, insert_pipeline_version
  <2>3. CASE CommitVersion(r)
    BY <2>3, CommitVersionStep, ZenonT(30) DEF Settled, CommitVersion
  <2>4. CASE LockNext(r)
    BY <2>4, LockNextStep, ZenonT(30) DEF Settled, LockNext
  <2>5. CASE CommitDrain(r)
    BY <2>5, CommitDrainStep DEF Settled
  <2>6. CASE LockOne(r)
    BY <2>6, LockOneStep, ZenonT(30) DEF Settled, LockOne
  <2>7. CASE \E b \in BOOLEAN : CommitAck(r, b)
    BY <2>7, CommitAckStep DEF Settled
  <2> QED
    BY <1>4, <2>1, <2>2, <2>3, <2>4, <2>5, <2>6, <2>7 DEF Serve
<1>5. ASSUME NEW r \in Requests, Abort(r)
      PROVE  IInv' /\ Settled
  BY <1>5, AbortStep, ZenonT(30) DEF Settled, Abort
<1>6. CASE UNCHANGED vars
  <2>1. UNCHANGED <<versions, commands, locks, tenant, tx>>
    BY <1>6 DEF vars
  <2> QED
    BY <2>1 DEF IInv, Types, Unleased, OpOK, OneInserts, PublishedKept, Held, terminal, Settled
<1> QED
  BY <1>1, <1>2, <1>3, <1>4, <1>5, <1>6 DEF Next

LEMMA Invariance == Spec => []IInv
BY InitIInv, NextIInv, PTL DEF Spec

\* At most one transaction holds a row, and the published versions have no gap.
THEOREM StoreTypeOK == Spec => []TypeOK
<1>1. IInv => TypeOK
  <2> SUFFICES ASSUME IInv
               PROVE  TypeOK
    OBVIOUS
  <2>1. \A S \in {{}} \cup {{r} : r \in Requests} : Cardinality(S) <= 1
    <3>1. Cardinality({}) <= 1
      BY FS_EmptySet
    <3>2. ASSUME NEW r \in Requests
          PROVE  Cardinality({r}) <= 1
      <4>1. Cardinality({r}) = 1
        BY FS_Singleton, ZenonT(30)
      <4> QED
        BY <4>1
    <3> QED
      BY <3>1, <3>2
  <2>2. \A c \in DOMAIN commands : commands[c].status \in Statuses
    <3> DEFINE RowType == [status : Statuses, leased : BOOLEAN]
    <3>1. commands \in Seq(RowType)
      BY DEF IInv, Types
    <3>2. \A c \in DOMAIN commands : commands[c] \in RowType
      <4> HIDE DEF RowType
      <4> QED
        BY <3>1, LenProperties
    <3> QED
      BY <3>2
  <2> QED
    BY <2>1, <2>2, ZenonT(30) DEF IInv, Types, TypeOK, Statuses
<1> QED
  BY <1>1, Invariance, PTL

\* However many requests compute the same next version: the one a put or a
\* rollback was answered with is the version that this request made.
THEOREM PublishedIsKept == Spec => []PublishedKept
<1>1. IInv => PublishedKept
  BY DEF IInv
<1> QED
  BY <1>1, Invariance, PTL

\* However drains, acknowledgements, aborts and expiring leases interleave, a
\* settled command is never taken back.
THEOREM SettledCommandsStay == Spec => SettledStays
<1>1. IInv /\ [Next]_vars => [Settled]_vars
  BY NextIInv
<1> QED
  BY <1>1, Invariance, PTL DEF Spec, SettledStays, Settled

-----------------------------------------------------------------------------
(* How often a command is handed out.                                      *)

\* The rows a drain has locked are still to be handed out.
FoundDeliverable == \A r \in Requests : tx[r].at = "lock" => \A c \in tx[r].pending : deliverable(c)

\* A command that can be handed out has had a lease run out for every time it was.
HandedCounted ==
  /\ handed \in [1..MaxCommands -> Nat] /\ expired \in [1..MaxCommands -> Nat]
  /\ \A c \in 1..MaxCommands :
       /\ handed[c] <= 1 + expired[c]
       /\ c \notin DOMAIN commands \/ deliverable(c) => handed[c] <= expired[c]

Counting == FoundDeliverable /\ HandedCounted

\* A step of one request that hands out nothing and leaves the commands alone.
LEMMA QuietCount ==
  ASSUME IInv, Counting, NEW r \in Requests, UNCHANGED <<commands, handed, expired>>,
         \A q \in Requests : q # r => tx'[q] = tx[q],
         tx'[r].at = "lock" => \A c \in tx'[r].pending : deliverable(c)
  PROVE  Counting'
<1>1. FoundDeliverable'
  BY DEF Counting, FoundDeliverable, deliverable
<1>2. HandedCounted'
  BY DEF Counting, HandedCounted, deliverable
<1> QED
  BY <1>1, <1>2 DEF Counting

LEMMA RequestCount ==
  ASSUME IInv, Counting, NEW r \in Requests,
         \/ BeginPut(r) \/ BeginDrain(r)
         \/ \E v \in 1..(Len(versions) + 1) : BeginRollback(r, v)
         \/ \E c \in DOMAIN commands : BeginAck(r, c)
         \/ ensure_tenant(r) \/ FindTarget(r) \/ NextVersion(r) \/ insert_pipeline_version(r)
         \/ CommitVersion(r) \/ LockOne(r) \/ Abort(r)
  PROVE  Counting'
<1>1. tx \in [Requests -> Tx]
  BY DEF IInv, Types
<1>2. CASE BeginPut(r) \/ BeginDrain(r) \/ (\E v \in 1..(Len(versions) + 1) : BeginRollback(r, v))
           \/ (\E c \in DOMAIN commands : BeginAck(r, c))
  <2>1. \E op, of : \E at \in States \ {"lock"} :
          tx' = [tx EXCEPT ![r] = [Idle EXCEPT !.at = at, !.op = op, !.of = of]]
    BY <1>2, ZenonT(30) DEF BeginPut, BeginDrain, BeginRollback, BeginAck, Begin, States
  <2>2. tx'[r].at # "lock" /\ \A q \in Requests : q # r => tx'[q] = tx[q]
    BY <1>1, <2>1 DEF Idle
  <2>3. UNCHANGED <<commands, handed, expired>>
    BY <1>2, ZenonT(30) DEF BeginPut, BeginDrain, BeginRollback, BeginAck
  <2> QED
    BY <2>2, <2>3, QuietCount
<1>3. CASE ensure_tenant(r) \/ FindTarget(r) \/ LockOne(r) \/ CommitVersion(r) \/ Abort(r)
           \/ insert_pipeline_version(r)
  <2>1. PICK s \in States \ {"lock"} : tx' = [tx EXCEPT ![r].at = s]
    BY <1>3, ZenonT(30) DEF ensure_tenant, FindTarget, LockOne, CommitVersion, Abort, insert_pipeline_version,
                insert_result, States
  <2>2. tx'[r].at = s /\ \A q \in Requests : q # r => tx'[q] = tx[q]
    BY <1>1, <2>1 DEF Tx
  <2>3. UNCHANGED <<commands, handed, expired>>
    BY <1>3 DEF ensure_tenant, FindTarget, LockOne, CommitVersion, Abort, insert_pipeline_version
  <2> QED
    BY <2>2, <2>3, QuietCount, ZenonT(30)
<1>4. CASE NextVersion(r)
  <2>1. tx'[r].at = "insert" /\ \A q \in Requests : q # r => tx'[q] = tx[q]
    BY <1>1, <1>4 DEF NextVersion, Tx
  <2> QED
    BY <1>4, <2>1, QuietCount, ZenonT(30) DEF NextVersion
<1> QED
  BY <1>2, <1>3, <1>4

\* The row of a command a drain locks is looked at again.
LEMMA LockingCount ==
  ASSUME IInv, Counting, NEW r \in Requests, SelectCommands(r) \/ LockNext(r)
  PROVE  Counting'
<1>1. tx \in [Requests -> Tx] /\ tx[r] \in Tx
  BY DEF IInv, Types
<1>2. CASE SelectCommands(r)
  <2>1. tx'[r].pending = tx[r].pending /\ \A q \in Requests : q # r => tx'[q] = tx[q]
    BY <1>1, <1>2 DEF SelectCommands, Tx
  <2>2. tx[r].pending = {}
    BY <1>2 DEF SelectCommands, IInv, Held
  <2> QED
    BY <1>2, <2>1, <2>2, QuietCount, ZenonT(30) DEF SelectCommands
<1>3. CASE LockNext(r)
  <2> DEFINE c == Min(tx[r].ids)
             t == [tx[r] EXCEPT !.ids = @ \ {c},
                                !.pending = IF still_wanted(c) THEN @ \cup {c} ELSE @]
  <2>1. tx' = [tx EXCEPT ![r] = t] /\ tx[r].at = "lock" /\ UNCHANGED <<commands, handed, expired>>
    BY <1>3, ZenonT(30) DEF LockNext
  <2>2. t.pending = IF still_wanted(c) THEN tx[r].pending \cup {c} ELSE tx[r].pending
    BY <1>1 DEF Tx
  <2> HIDE DEF c, t
  <2>3. tx'[r] = t /\ \A q \in Requests : q # r => tx'[q] = tx[q]
    BY <1>1, <2>1
  <2>4. \A d \in t.pending : deliverable(d)
    BY <2>1, <2>2 DEF Counting, FoundDeliverable, still_wanted
  <2> QED
    BY <2>1, <2>3, <2>4, QuietCount
<1> QED
  BY <1>2, <1>3

\* What a drain commits is locked by it and was still to be handed out, so no
\* other drain hands it out and no lease of it is running.
LEMMA DrainCount ==
  ASSUME IInv, Counting, NEW r \in Requests, CommitDrain(r)
  PROVE  Counting'
<1>1. /\ tx \in [Requests -> Tx] /\ tx[r] \in Tx /\ tx[r].at = "lock"
      /\ handed \in [1..MaxCommands -> Nat] /\ expired \in [1..MaxCommands -> Nat]
      /\ expired' = expired
      /\ handed' = [c \in DOMAIN handed |-> handed[c] + IF c \in tx[r].pending THEN 1 ELSE 0]
  BY DEF IInv, Types, Counting, HandedCounted, CommitDrain
<1>2. /\ DOMAIN commands' = DOMAIN commands
      /\ \A c \in DOMAIN commands :
           commands'[c] = IF c \in tx[r].pending THEN [status |-> "delivered", leased |-> TRUE]
                                                 ELSE commands[c]
  BY DEF CommitDrain
<1>3. tx'[r].at = "ok" /\ \A q \in Requests : q # r => tx'[q] = tx[q]
  BY <1>1 DEF CommitDrain, Tx
<1>4. tx[r].pending \subseteq DOMAIN commands /\ \A c \in tx[r].pending : locks[c] = {r} /\ deliverable(c)
  BY <1>1 DEF IInv, Held, Counting, FoundDeliverable
<1>5. FoundDeliverable'
  <2> SUFFICES ASSUME NEW q \in Requests, tx'[q].at = "lock", NEW c \in tx'[q].pending
               PROVE  deliverable(c)'
    BY DEF FoundDeliverable
  <2>1. q # r /\ tx[q].at = "lock" /\ c \in tx[q].pending
    BY <1>3
  <2>2. locks[c] = {q} /\ c \in DOMAIN commands /\ deliverable(c)
    BY <2>1 DEF IInv, Held, Counting, FoundDeliverable
  <2>3. c \notin tx[r].pending
    BY <1>4, <2>1, <2>2
  <2> QED
    BY <1>2, <2>2, <2>3 DEF deliverable
<1>6. \A c \in tx[r].pending : ~deliverable(c)'
  BY <1>2, <1>4 DEF deliverable
<1>7. \A c \in 1..MaxCommands : c \notin tx[r].pending /\ (c \notin DOMAIN commands' \/ deliverable(c)') =>
        c \notin DOMAIN commands \/ deliverable(c)
  BY <1>2 DEF deliverable
<1>8. ASSUME NEW c \in 1..MaxCommands
      PROVE  /\ handed'[c] <= 1 + expired[c]
             /\ c \notin DOMAIN commands' \/ deliverable(c)' => handed'[c] <= expired[c]
  <2>1. CASE c \in tx[r].pending
    <3>1. handed[c] <= expired[c]
      BY <1>4, <2>1 DEF Counting, HandedCounted
    <3>2. c \in DOMAIN commands' /\ ~deliverable(c)' /\ handed'[c] = handed[c] + 1
      BY <1>1, <1>2, <1>4, <1>6, <2>1
    <3> QED
      BY <1>1, <3>1, <3>2
  <2>2. CASE c \notin tx[r].pending
    <3>1. handed'[c] = handed[c]
      BY <1>1, <2>2
    <3> QED
      BY <1>7, <2>2, <3>1 DEF Counting, HandedCounted
  <2> QED
    BY <2>1, <2>2
<1>9. HandedCounted'
  <2>1. handed' \in [1..MaxCommands -> Nat]
    BY <1>1
  <2> QED
    BY <1>1, <1>8, <2>1, ZenonT(30) DEF HandedCounted
<1> QED
  BY <1>5, <1>9 DEF Counting

LEMMA AckCount ==
  ASSUME IInv, Counting, NEW r \in Requests, NEW success \in BOOLEAN, CommitAck(r, success)
  PROVE  Counting'
<1> DEFINE of == tx[r].of
<1>1. tx \in [Requests -> Tx] /\ tx[r] \in Tx /\ tx[r].at = "ack" /\ UNCHANGED <<handed, expired>>
  BY DEF IInv, Types, CommitAck
<1>2. of \in DOMAIN commands /\ locks[of] = {r}
  BY <1>1 DEF IInv, Held
<1>3. /\ DOMAIN commands' = DOMAIN commands
      /\ \A c \in DOMAIN commands : c # of => commands'[c] = commands[c]
      /\ commands'[of].status \in {"succeeded", "failed"}
  BY <1>2 DEF CommitAck, terminal, ack_status
<1>4. tx'[r].at = "ok" /\ \A q \in Requests : q # r => tx'[q] = tx[q]
  BY <1>1 DEF CommitAck, Tx
<1>5. FoundDeliverable'
  <2> SUFFICES ASSUME NEW q \in Requests, tx'[q].at = "lock", NEW c \in tx'[q].pending
               PROVE  deliverable(c)'
    BY DEF FoundDeliverable
  <2>1. q # r /\ tx[q].at = "lock" /\ c \in tx[q].pending
    BY <1>4
  <2>2. locks[c] = {q} /\ c \in DOMAIN commands /\ deliverable(c)
    BY <2>1 DEF IInv, Held, Counting, FoundDeliverable
  <2>3. c # of
    BY <1>2, <2>1, <2>2
  <2> QED
    BY <1>3, <2>2, <2>3 DEF deliverable
<1>6. \A c \in 1..MaxCommands : c \notin DOMAIN commands' \/ deliverable(c)' =>
        c \notin DOMAIN commands \/ deliverable(c)
  BY <1>3 DEF deliverable
<1>7. HandedCounted'
  BY <1>1, <1>6 DEF Counting, HandedCounted
<1> QED
  BY <1>5, <1>7 DEF Counting

LEMMA OutsideCount ==
  ASSUME IInv, Counting,
         EnqueueCommand \/ \E c \in DOMAIN commands : LeaseExpires(c)
  PROVE  Counting'
<1>1. /\ handed \in [1..MaxCommands -> Nat] /\ expired \in [1..MaxCommands -> Nat]
      /\ commands \in Seq([status : Statuses, leased : BOOLEAN])
      /\ DOMAIN commands \subseteq 1..MaxCommands
      /\ \A r \in Requests : tx[r].at = "lock" => tx[r].pending \subseteq DOMAIN commands
  <2>1. /\ commands \in Seq([status : Statuses, leased : BOOLEAN]) /\ Len(commands) <= MaxCommands
        /\ handed \in [1..MaxCommands -> Nat] /\ expired \in [1..MaxCommands -> Nat]
    BY DEF IInv, Types, Counting, HandedCounted
  <2>2. DOMAIN commands = 1..Len(commands) /\ Len(commands) \in Nat
    BY <2>1, LenProperties
  <2>3. \A r \in Requests : tx[r].at = "lock" => tx[r].pending \subseteq DOMAIN commands
    BY DEF IInv, Held
  <2> QED
    BY <2>1, <2>2, <2>3
<1>2. CASE EnqueueCommand
  <2>1. \A c \in DOMAIN commands : c \in DOMAIN commands' /\ commands'[c] = commands[c]
    BY <1>1, <1>2, AppendProperties DEF EnqueueCommand
  <2>2. UNCHANGED <<tx, handed, expired>>
    BY <1>2 DEF EnqueueCommand
  <2>3. FoundDeliverable'
    BY <1>1, <2>1, <2>2 DEF Counting, FoundDeliverable, deliverable
  <2>4. \A c \in 1..MaxCommands : c \notin DOMAIN commands' \/ deliverable(c)' =>
          c \notin DOMAIN commands \/ deliverable(c)
    BY <2>1 DEF deliverable
  <2>5. HandedCounted'
    BY <2>2, <2>4 DEF Counting, HandedCounted
  <2> QED
    BY <2>3, <2>5 DEF Counting
<1>3. ASSUME NEW d \in DOMAIN commands, LeaseExpires(d)
      PROVE  Counting'
  <2>1. /\ DOMAIN commands' = DOMAIN commands
        /\ \A c \in DOMAIN commands : c # d => commands'[c] = commands[c]
        /\ commands'[d].status = commands[d].status /\ commands'[d].leased = FALSE
    <3> DEFINE RowType == [status : Statuses, leased : BOOLEAN]
    <3>1. commands[d] \in RowType
      <4>1. commands \in Seq(RowType)
        BY <1>1
      <4> HIDE DEF RowType
      <4> QED
        BY <4>1, LenProperties
    <3>2. commands' = [commands EXCEPT ![d] = [commands[d] EXCEPT !.leased = FALSE]]
      BY <1>3 DEF LeaseExpires
    <3> QED
      BY <3>1, <3>2
  <2>2. UNCHANGED <<tx, handed>> /\ expired' = [expired EXCEPT ![d] = @ + 1]
    BY <1>3 DEF LeaseExpires
  <2>3. FoundDeliverable'
    <3>1. \A c \in DOMAIN commands : deliverable(c) => deliverable(c)'
      BY <2>1 DEF deliverable
    <3> QED
      BY <1>1, <2>2, <3>1 DEF Counting, FoundDeliverable
  <2>4. \A c \in 1..MaxCommands : c # d /\ (c \notin DOMAIN commands' \/ deliverable(c)') =>
          c \notin DOMAIN commands \/ deliverable(c)
    BY <2>1 DEF deliverable
  <2>5. ASSUME NEW c \in 1..MaxCommands
        PROVE  /\ handed[c] <= 1 + expired'[c]
               /\ c \notin DOMAIN commands' \/ deliverable(c)' => handed[c] <= expired'[c]
    <3>1. handed[c] \in Nat /\ expired[c] \in Nat /\ handed[c] <= 1 + expired[c]
      BY DEF Counting, HandedCounted
    <3>2. CASE c = d
      BY <1>1, <2>2, <3>1, <3>2
    <3>3. CASE c # d
      <4>1. expired'[c] = expired[c]
        BY <1>1, <2>2, <3>3
      <4> QED
        BY <2>4, <3>3, <4>1 DEF Counting, HandedCounted
    <3> QED
      BY <3>2, <3>3
  <2>6. HandedCounted'
    <3>1. expired' \in [1..MaxCommands -> Nat]
      BY <1>1, <2>2
    <3> QED
      BY <1>1, <2>2, <2>5, <3>1, ZenonT(30) DEF HandedCounted
  <2> QED
    BY <2>3, <2>6 DEF Counting
<1> QED
  BY <1>2, <1>3

LEMMA InitCounting == Init => Counting
<1> SUFFICES ASSUME Init
             PROVE  Counting
  OBVIOUS
<1>1. FoundDeliverable
  <2>1. \A r \in Requests : tx[r].at = "idle"
    BY DEF Init, Idle
  <2> QED
    BY <2>1 DEF FoundDeliverable
<1>2. HandedCounted
  <2>1. /\ handed \in [1..MaxCommands -> Nat] /\ expired \in [1..MaxCommands -> Nat]
        /\ \A c \in 1..MaxCommands : handed[c] = 0 /\ expired[c] = 0
    BY DEF Init
  <2> QED
    BY <2>1 DEF HandedCounted
<1> QED
  BY <1>1, <1>2 DEF Counting

LEMMA NextCounting ==
  ASSUME IInv, Counting, [Next]_vars
  PROVE  Counting'
<1>1. CASE UNCHANGED vars
  BY <1>1 DEF vars, Counting, FoundDeliverable, HandedCounted, deliverable
<1>2. CASE EnqueueCommand \/ \E c \in DOMAIN commands : LeaseExpires(c)
  BY <1>2, OutsideCount
<1>3. ASSUME NEW r \in Requests,
             \/ BeginPut(r) \/ BeginDrain(r)
             \/ \E v \in 1..(Len(versions) + 1) : BeginRollback(r, v)
             \/ \E c \in DOMAIN commands : BeginAck(r, c)
             \/ Serve(r) \/ Abort(r)
      PROVE  Counting'
  BY <1>3, RequestCount, LockingCount, DrainCount, AckCount DEF Serve
<1> QED
  BY <1>1, <1>2, <1>3 DEF Next

\* However many heartbeats of the agent are served at the same time, one of them
\* hands a command out, and another only after its lease ran out.
THEOREM HandedOutOncePerLease == Spec => []HandedOncePerLease
<1>1. Counting => HandedOncePerLease
  BY DEF Counting, HandedCounted, HandedOncePerLease
<1>2. IInv /\ Counting /\ [Next]_vars => Counting'
  BY NextCounting
<1> QED
  BY <1>1, <1>2, InitCounting, Invariance, PTL DEF Spec

-----------------------------------------------------------------------------
(* The copy.                                                               *)

CopiedStatuses == {"pending", "delivered", "succeeded"}

FileCommand == [id : Nat, agent : Agents, status : CopiedStatuses]

EventNames == CopiedStatuses \cup {"agent.registered", "pipeline.updated"}

LogEntry == [id : Nat, what : [number : Nat, status : EventNames]]

CopyTypes ==
  /\ agents \subseteq Agents
  /\ file_versions \in Nat
  /\ file_commands \in Seq(FileCommand)
  /\ events \in Seq(LogEntry)
  /\ last_id \in Nat
  /\ step \in {"agents", "versions", "commands", "events", "write"}
  /\ snapshot \in [agents : SUBSET Agents, versions : Nat, commands : Seq(FileCommand),
                   events : Seq(LogEntry)]

\* The log has the event of every status a command of these rows has had.
Audited(rows, log) ==
  \A n \in DOMAIN rows : \A s \in Sync!UpTo[rows[n].status] :
    \E i \in DOMAIN log : log[i].what = Sync!Event(n, s)

\* These rows are of commands the queue has.
OfQueue(rows) ==
  \A n \in DOMAIN rows : n \in DOMAIN file_commands /\ rows[n].id = file_commands[n].id

OfLog(log) == \A i \in DOMAIN log : i \in DOMAIN events /\ log[i] = events[i]

\* What has been read is audited by what is still to be read, or was read.
SnapshotAudited ==
  /\ step \in {"events", "write"} => OfQueue(snapshot.commands)
  /\ step = "events" => Audited(snapshot.commands, events)
  /\ step = "write" => Audited(snapshot.commands, snapshot.events) /\ OfLog(snapshot.events)

\* A row of the log's table is an event with this id.
EventRows ==
  \A id \in DOMAIN db.events : \E i \in DOMAIN events :
    events[i].id = id /\ events[i] = db.events[id]

AuditInv ==
  /\ CopyTypes
  /\ Audited(file_commands, events)
  /\ SnapshotAudited
  /\ EventRows
  /\ \A id \in DOMAIN db.commands : db.commands[id].status \in CopiedStatuses
  /\ RowsAudited

\* What RowsAudited says when the events have ids of their own.
CopyAudited(log, rows, queue) ==
  \A id \in DOMAIN rows : \A s \in Sync!UpTo[rows[id].status] :
    \E e \in Sync!Range(log) :
      /\ e.what.status = s
      /\ e.what.number \in DOMAIN queue
      /\ queue[e.what.number].id = id

LEMMA RowsAuditedMeans ==
  /\ RowsAudited <=>
       (Sync!Distinct(events) => CopyAudited(db.events, db.commands, file_commands))
  /\ RowsAudited' <=>
       (Sync!Distinct(events') => CopyAudited(db'.events, db'.commands, file_commands'))
BY ZenonT(30) DEF RowsAudited, Sync!RowsAudited, CopyAudited

\* The stores only add events and commands, and keep the ids.
LEMMA StoreStep ==
  ASSUME AuditInv, CopyTypes', UNCHANGED <<step, snapshot, db>>,
         \A i \in DOMAIN events : i \in DOMAIN events' /\ events'[i] = events[i],
         \A n \in DOMAIN file_commands :
           n \in DOMAIN file_commands' /\ file_commands'[n].id = file_commands[n].id,
         Audited(file_commands, events)'
  PROVE  AuditInv'
<1>1. ASSUME NEW rows, Audited(rows, events) PROVE Audited(rows, events')
  <2> SUFFICES ASSUME NEW n \in DOMAIN rows, NEW s \in Sync!UpTo[rows[n].status]
               PROVE  \E i \in DOMAIN events' : events'[i].what = Sync!Event(n, s)
    BY ZenonT(30) DEF Audited
  <2>1. PICK i \in DOMAIN events : events[i].what = Sync!Event(n, s)
    BY <1>1, ZenonT(30) DEF Audited
  <2> QED BY <2>1, ZenonT(30)
<1>2. SnapshotAudited'
  BY <1>1, ZenonT(30) DEF AuditInv, SnapshotAudited, OfQueue, OfLog
<1>3. EventRows'
  <2>1. ASSUME NEW id \in DOMAIN db.events
        PROVE  \E i \in DOMAIN events' : events'[i].id = id /\ events'[i] = db.events[id]
    <3>1. PICK i \in DOMAIN events : events[i].id = id /\ events[i] = db.events[id]
      BY ZenonT(30) DEF AuditInv, EventRows
    <3> QED BY <3>1, ZenonT(30)
  <2> QED BY <2>1, ZenonT(30) DEF EventRows
<1>4. RowsAudited'
  <2>1. SUFFICES ASSUME Sync!Distinct(events')
                 PROVE  CopyAudited(db.events, db.commands, file_commands')
    BY RowsAuditedMeans, ZenonT(30)
  <2>2. Sync!Distinct(events)
    BY <2>1, ZenonT(30) DEF Sync!Distinct
  <2>3. CopyAudited(db.events, db.commands, file_commands)
    BY <2>2, RowsAuditedMeans, ZenonT(30) DEF AuditInv
  <2>4. ASSUME NEW id \in DOMAIN db.commands, NEW s \in Sync!UpTo[db.commands[id].status]
        PROVE  \E e \in Sync!Range(db.events) :
                 /\ e.what.status = s
                 /\ e.what.number \in DOMAIN file_commands'
                 /\ file_commands'[e.what.number].id = id
    <3>1. PICK e \in Sync!Range(db.events) :
            /\ e.what.status = s
            /\ e.what.number \in DOMAIN file_commands /\ file_commands[e.what.number].id = id
      BY <2>3, ZenonT(30) DEF CopyAudited
    <3> QED BY <3>1, ZenonT(30)
  <2> QED BY <2>4, ZenonT(30) DEF CopyAudited
<1> QED
  BY <1>2, <1>3, <1>4, ZenonT(30) DEF AuditInv

\* Events that follow the ones there are.
LEMMA Appended ==
  ASSUME CopyTypes, NEW id \in Nat, NEW things \in Seq([number : Nat, status : EventNames]),
         Sync!append_events(id, things)
  PROVE  /\ events' \in Seq(LogEntry)
         /\ last_id' \in Nat
         /\ \A i \in DOMAIN events : i \in DOMAIN events' /\ events'[i] = events[i]
         /\ \A i \in DOMAIN things :
              \E k \in DOMAIN events' : events'[k].what = things[i]
<1> DEFINE new == [i \in DOMAIN things |-> [id |-> id + i, what |-> things[i]]]
<1>1. new \in Seq(LogEntry) /\ Len(new) = Len(things)
  <2>1. \A i \in 1..Len(things) : [id |-> id + i, what |-> things[i]] \in LogEntry
    <3> SUFFICES ASSUME NEW i \in 1..Len(things)
                 PROVE  [id |-> id + i, what |-> things[i]] \in LogEntry
      OBVIOUS
    <3>1. things[i] \in [number : Nat, status : EventNames]
      BY ElementOfSeq, ZenonT(30)
    <3>2. id + i \in Nat
      OBVIOUS
    <3> QED BY <3>1, <3>2, ZenonT(30) DEF LogEntry
  <2>2. Len(things) \in Nat /\ DOMAIN things = 1..Len(things)
    BY LenProperties, ZenonT(30)
  <2> QED BY <2>1, <2>2
<1>2. events \in Seq(LogEntry)
  BY DEF CopyTypes
<1>3. events' = events \o new
  BY ZenonT(30) DEF Sync!append_events
<1>4. last_id' \in Nat
  BY DEF Sync!append_events
<1>5. events' \in Seq(LogEntry) /\ Len(events') = Len(events) + Len(new)
  BY <1>1, <1>2, <1>3
<1>6. \A i \in DOMAIN events : i \in DOMAIN events' /\ events'[i] = events[i]
  BY <1>1, <1>2, <1>3
<1>7. ASSUME NEW i \in DOMAIN things
      PROVE  \E k \in DOMAIN events' : events'[k].what = things[i]
  <2>1. i \in 1..Len(new) /\ new[i].what = things[i]
    BY <1>1
  <2>2. Len(events) + i \in DOMAIN events' /\ events'[Len(events) + i] = new[i]
    BY <1>1, <1>2, <1>3, <2>1
  <2> QED BY <2>1, <2>2, ZenonT(30)
<1> QED BY <1>4, <1>5, <1>6, <1>7, ZenonT(30)

\* A call that adds these events: of a command it leaves or makes in a status,
\* the events of every status up to it are there or among them.
LEMMA CallStep ==
  ASSUME AuditInv, NEW id \in Nat, NEW things \in Seq([number : Nat, status : EventNames]),
         Sync!append_events(id, things), UNCHANGED <<step, snapshot, db>>,
         agents' \subseteq Agents, file_versions' \in Nat, file_commands' \in Seq(FileCommand),
         \A n \in DOMAIN file_commands :
           n \in DOMAIN file_commands' /\ file_commands'[n].id = file_commands[n].id,
         \A n \in DOMAIN file_commands' : \A s \in Sync!UpTo[file_commands'[n].status] :
           \/ n \in DOMAIN file_commands /\ s \in Sync!UpTo[file_commands[n].status]
           \/ \E i \in DOMAIN things : things[i] = Sync!Event(n, s)
  PROVE  AuditInv'
<1>1. CopyTypes
  BY ZenonT(30) DEF AuditInv
<1>2. /\ events' \in Seq(LogEntry)
      /\ last_id' \in Nat
      /\ \A i \in DOMAIN events : i \in DOMAIN events' /\ events'[i] = events[i]
      /\ \A i \in DOMAIN things : \E k \in DOMAIN events' : events'[k].what = things[i]
  BY <1>1, Appended, ZenonT(30)
<1>3. CopyTypes'
  BY <1>1, <1>2, ZenonT(30) DEF CopyTypes
<1>4. Audited(file_commands, events)'
  <2> SUFFICES ASSUME NEW n \in DOMAIN file_commands',
                      NEW s \in Sync!UpTo[file_commands'[n].status]
               PROVE  \E k \in DOMAIN events' : events'[k].what = Sync!Event(n, s)
    BY ZenonT(30) DEF Audited
  <2>1. CASE n \in DOMAIN file_commands /\ s \in Sync!UpTo[file_commands[n].status]
    <3>1. PICK k \in DOMAIN events : events[k].what = Sync!Event(n, s)
      BY <2>1, ZenonT(30) DEF Audited, AuditInv
    <3> QED BY <1>2, <3>1, ZenonT(30)
  <2>2. CASE \E i \in DOMAIN things : things[i] = Sync!Event(n, s)
    BY <1>2, <2>2, ZenonT(30)
  <2> QED BY <2>1, <2>2, ZenonT(30)
<1> QED BY <1>2, <1>3, <1>4, StoreStep, ZenonT(30)

\* Registering and publishing leave the commands alone.
LEMMA OtherStep ==
  ASSUME AuditInv,
         Sync!PutPipeline \/ \E a \in Agents : Sync!RegisterAgent(a)
  PROVE  AuditInv'
<1>1. PICK name \in {"agent.registered", "pipeline.updated"} :
        Sync!append_events(last_id, <<Sync!Event(0, name)>>)
  BY ZenonT(30) DEF Sync!PutPipeline, Sync!RegisterAgent
<1>2. <<Sync!Event(0, name)>> \in Seq([number : Nat, status : EventNames])
  BY DEF Sync!Event, EventNames, CopiedStatuses
<1>3. last_id \in Nat /\ file_commands \in Seq(FileCommand)
  BY ZenonT(30) DEF AuditInv, CopyTypes
<1>4. UNCHANGED <<file_commands, step, snapshot, db>>
  BY ZenonT(30) DEF Sync!PutPipeline, Sync!RegisterAgent
<1>5. agents' \subseteq Agents /\ file_versions' \in Nat
  BY DEF AuditInv, CopyTypes, Sync!PutPipeline, Sync!RegisterAgent
<1> QED
  BY <1>1, <1>2, <1>3, <1>4, <1>5, CallStep, ZenonT(30)

LEMMA EnqueueAudited ==
  ASSUME AuditInv, NEW a \in Agents, Sync!EnqueueCommand(a)
  PROVE  AuditInv'
<1> DEFINE row == [id |-> last_id + 1, agent |-> a, status |-> "pending"]
           number == Len(file_commands) + 1
           things == <<Sync!Event(number, "pending")>>
<1>1. file_commands \in Seq(FileCommand) /\ last_id + 1 \in Nat
  BY DEF AuditInv, CopyTypes
<1>2. /\ file_commands' = Append(file_commands, row)
      /\ Sync!append_events(last_id + 1, things)
      /\ UNCHANGED <<agents, file_versions, step, snapshot, db>>
  BY ZenonT(30) DEF Sync!EnqueueCommand
<1>3. row \in FileCommand
  BY <1>1 DEF FileCommand, CopiedStatuses
<1>4. number \in Nat
  BY <1>1
<1>5. things \in Seq([number : Nat, status : EventNames])
  <2> HIDE DEF number
  <2>1. Sync!Event(number, "pending") \in [number : Nat, status : EventNames]
    BY <1>4 DEF Sync!Event, EventNames, CopiedStatuses
  <2> QED BY <2>1
<1>6. agents' \subseteq Agents /\ file_versions' \in Nat
  BY <1>2 DEF AuditInv, CopyTypes
<1> HIDE DEF row
<1>7. file_commands' \in Seq(FileCommand)
  BY <1>1, <1>2, <1>3
<1>8. /\ \A n \in DOMAIN file_commands :
           n \in DOMAIN file_commands' /\ file_commands'[n] = file_commands[n]
      /\ \A n \in DOMAIN file_commands' : n \in DOMAIN file_commands \/ n = number
      /\ file_commands'[number] = row
  BY <1>1, <1>2, <1>3
<1>9. Sync!UpTo[row.status] = {"pending"}
  BY DEF row, Sync!UpTo
<1>10. 1 \in DOMAIN things /\ things[1] = Sync!Event(number, "pending")
  OBVIOUS
<1> HIDE DEF number, things
<1>11. ASSUME NEW n \in DOMAIN file_commands', NEW s \in Sync!UpTo[file_commands'[n].status]
       PROVE  \/ n \in DOMAIN file_commands /\ s \in Sync!UpTo[file_commands[n].status]
              \/ \E i \in DOMAIN things : things[i] = Sync!Event(n, s)
  <2>1. CASE n \in DOMAIN file_commands
    BY <1>8, <2>1, ZenonT(30)
  <2>2. CASE n = number
    <3>1. s = "pending"
      BY <1>8, <1>9, <2>2, ZenonT(30)
    <3> QED BY <1>10, <2>2, <3>1, ZenonT(30)
  <2> QED BY <1>8, <2>1, <2>2, ZenonT(30)
<1> QED
  BY <1>1, <1>2, <1>5, <1>6, <1>7, <1>8, <1>11, CallStep, ZenonT(30)

\* What is drained was pending, or has the id of a command that was: either way
\* it was enqueued.
LEMMA DrainStep ==
  ASSUME AuditInv, NEW a \in Agents, Sync!DrainCommands(a)
  PROVE  AuditInv'
<1> DEFINE drained == Sync!delivered(a)
<1>1. /\ file_commands' = [n \in DOMAIN file_commands |->
           IF n \in drained THEN [file_commands[n] EXCEPT !.status = "delivered"]
           ELSE file_commands[n]]
      /\ UNCHANGED <<agents, file_versions, step, snapshot, db>>
  BY ZenonT(30) DEF Sync!DrainCommands
<1>2. PICK numbers \in Sync!Bijection(1..Sync!Cardinality(drained), drained) :
        Sync!append_events(last_id, [i \in DOMAIN numbers |-> Sync!Event(numbers[i], "delivered")])
  BY ZenonT(30) DEF Sync!DrainCommands
<1>3. drained \subseteq DOMAIN file_commands
  BY ZenonT(30) DEF Sync!delivered
<1> HIDE DEF drained
<1>4. /\ file_commands \in Seq(FileCommand)
      /\ last_id \in Nat
      /\ agents' \subseteq Agents
      /\ file_versions' \in Nat
  BY <1>1, ZenonT(30) DEF AuditInv, CopyTypes
<1>5. DOMAIN file_commands = 1..Len(file_commands) /\ Len(file_commands) \in Nat
  BY <1>4, LenProperties, ZenonT(30)
<1>6. \A n \in DOMAIN file_commands : file_commands[n] \in FileCommand
  BY <1>4, <1>5, ElementOfSeq, ZenonT(30)
<1>7. \A n \in DOMAIN file_commands : file_commands'[n] \in FileCommand
  BY <1>1, <1>6 DEF FileCommand, CopiedStatuses
<1>8. /\ DOMAIN file_commands' = DOMAIN file_commands
      /\ file_commands' \in Seq(FileCommand)
  BY <1>1, <1>5, <1>7
<1>9. \A n \in DOMAIN file_commands : file_commands'[n].id = file_commands[n].id
  BY <1>1, <1>6 DEF FileCommand
<1> DEFINE k == Sync!Cardinality(drained)
           things == [i \in DOMAIN numbers |-> Sync!Event(numbers[i], "delivered")]
<1>10. k \in Nat
  <2>1. IsFiniteSet(1..Len(file_commands))
    BY <1>5, FS_Interval
  <2>2. IsFiniteSet(drained)
    BY <1>3, <1>5, <2>1, FS_Subset, ZenonT(30)
  <2>3. Cardinality(drained) \in Nat
    BY <2>2, FS_CardinalityType, ZenonT(30)
  <2> QED BY <2>3, ZenonT(30) DEF Cardinality, Sync!Cardinality
<1>11. /\ numbers \in [1..k -> drained]
       /\ \A n \in drained : \E i \in 1..k : numbers[i] = n
  BY <1>2, ZenonT(30) DEF Sync!Bijection, Sync!Injection, Sync!Surjection
<1> HIDE DEF k
<1>12. things \in Seq([number : Nat, status : EventNames])
  <2>1. \A i \in 1..k : Sync!Event(numbers[i], "delivered") \in [number : Nat, status : EventNames]
    BY <1>3, <1>5, <1>11 DEF Sync!Event, EventNames, CopiedStatuses
  <2> QED BY <1>10, <1>11, <2>1
<1>13. \A n \in drained : \E i \in DOMAIN things : things[i] = Sync!Event(n, "delivered")
  BY <1>11, ZenonT(30)
<1>14. Sync!append_events(last_id, things)
  BY <1>2, ZenonT(30)
<1> HIDE DEF things
<1>15. ASSUME NEW n \in DOMAIN file_commands', NEW s \in Sync!UpTo[file_commands'[n].status]
       PROVE  \/ n \in DOMAIN file_commands /\ s \in Sync!UpTo[file_commands[n].status]
              \/ \E i \in DOMAIN things : things[i] = Sync!Event(n, s)
  <2>1. CASE n \in drained
    <3>1. file_commands'[n].status = "delivered"
      BY <1>1, <1>6, <1>8, <2>1 DEF FileCommand
    <3>2. s \in {"pending", "delivered"}
      BY <3>1 DEF Sync!UpTo
    <3>3. "pending" \in Sync!UpTo[file_commands[n].status]
      <4>1. file_commands[n].status \in CopiedStatuses
        BY <1>6, <1>8 DEF FileCommand
      <4> QED BY <4>1 DEF CopiedStatuses, Sync!UpTo
    <3> QED BY <1>8, <1>13, <2>1, <3>2, <3>3, ZenonT(30)
  <2>2. CASE n \notin drained
    BY <1>1, <1>8, <2>2, ZenonT(30)
  <2> QED BY <2>1, <2>2, ZenonT(30)
<1> QED
  BY <1>1, <1>4, <1>8, <1>9, <1>12, <1>14, <1>15, CallStep, ZenonT(30)

LEMMA AckStep ==
  ASSUME AuditInv, NEW m \in DOMAIN file_commands, Sync!AckCommand(m)
  PROVE  AuditInv'
<1> DEFINE things == <<Sync!Event(m, "succeeded")>>
<1>1. /\ file_commands[m].status = "delivered"
      /\ file_commands' = [file_commands EXCEPT ![m].status = "succeeded"]
      /\ Sync!append_events(last_id, things)
      /\ UNCHANGED <<agents, file_versions, step, snapshot, db>>
  BY ZenonT(30) DEF Sync!AckCommand
<1>2. /\ file_commands \in Seq(FileCommand)
      /\ last_id \in Nat
      /\ agents' \subseteq Agents
      /\ file_versions' \in Nat
  BY <1>1, ZenonT(30) DEF AuditInv, CopyTypes
<1>3. DOMAIN file_commands = 1..Len(file_commands) /\ Len(file_commands) \in Nat
  BY <1>2, LenProperties, ZenonT(30)
<1>4. \A n \in DOMAIN file_commands : file_commands[n] \in FileCommand
  BY <1>2, <1>3, ElementOfSeq, ZenonT(30)
<1>5. /\ DOMAIN file_commands' = DOMAIN file_commands
      /\ \A n \in DOMAIN file_commands : n # m => file_commands'[n] = file_commands[n]
      /\ file_commands'[m] = [file_commands[m] EXCEPT !.status = "succeeded"]
  BY <1>1, ZenonT(30)
<1>6. /\ file_commands'[m] \in FileCommand
      /\ file_commands'[m].id = file_commands[m].id
      /\ file_commands'[m].status = "succeeded"
  BY <1>4, <1>5 DEF FileCommand, CopiedStatuses
<1>7. file_commands' \in Seq(FileCommand)
  <2>1. \A n \in 1..Len(file_commands) : file_commands'[n] \in FileCommand
    BY <1>3, <1>4, <1>5, <1>6, ZenonT(30)
  <2>2. file_commands' = [n \in 1..Len(file_commands) |-> file_commands'[n]]
    BY <1>1, <1>3, ZenonT(30)
  <2> QED BY <1>3, <2>1, <2>2
<1>8. things \in Seq([number : Nat, status : EventNames])
  <2>1. Sync!Event(m, "succeeded") \in [number : Nat, status : EventNames]
    BY <1>3 DEF Sync!Event, EventNames, CopiedStatuses
  <2> QED BY <2>1
<1>9. 1 \in DOMAIN things /\ things[1] = Sync!Event(m, "succeeded")
  OBVIOUS
<1> HIDE DEF things
<1>10. ASSUME NEW n \in DOMAIN file_commands', NEW s \in Sync!UpTo[file_commands'[n].status]
       PROVE  \/ n \in DOMAIN file_commands /\ s \in Sync!UpTo[file_commands[n].status]
              \/ \E i \in DOMAIN things : things[i] = Sync!Event(n, s)
  <2>1. CASE n = m
    <3>1. s \in Sync!UpTo["delivered"] \/ s = "succeeded"
      BY <1>6, <2>1 DEF Sync!UpTo
    <3> QED BY <1>1, <1>5, <1>9, <2>1, <3>1, ZenonT(30)
  <2>2. CASE n # m
    BY <1>5, <2>2, ZenonT(30)
  <2> QED BY <2>1, <2>2, ZenonT(30)
<1>11. \A n \in DOMAIN file_commands :
         n \in DOMAIN file_commands' /\ file_commands'[n].id = file_commands[n].id
  BY <1>5, <1>6, ZenonT(30)
<1> QED
  BY <1>1, <1>2, <1>7, <1>8, <1>10, <1>11, CallStep, ZenonT(30)

LEMMA StoresUnmoved ==
  ASSUME AuditInv, UNCHANGED <<file_commands, events, db>>, CopyTypes', SnapshotAudited'
  PROVE  AuditInv'
<1>1. Audited(file_commands, events)' /\ EventRows'
  BY ZenonT(30) DEF AuditInv, Audited, EventRows
<1>2. RowsAudited'
  BY RowsAuditedMeans, ZenonT(30) DEF AuditInv
<1> QED
  BY <1>1, <1>2, ZenonT(30) DEF AuditInv

\* Reading keeps what the next step needs: the commands are audited by the log
\* that is read after them.
LEMMA CollectStep ==
  ASSUME AuditInv, Sync!Collect
  PROVE  AuditInv'
<1>1. UNCHANGED <<agents, file_versions, file_commands, events, last_id, db>>
  BY ZenonT(30) DEF Sync!Collect, Sync!stores
<1>2. CopyTypes
  BY ZenonT(30) DEF AuditInv
<1>3. SUFFICES CopyTypes' /\ SnapshotAudited'
  BY <1>1, StoresUnmoved, ZenonT(30)
<1>4. CASE step = "agents"
  <2>1. step' = "versions" /\ snapshot' = [snapshot EXCEPT !.agents = agents]
    BY <1>4, ZenonT(30) DEF Sync!Collect, Sync!collect_order
  <2> QED BY <1>1, <1>2, <2>1, ZenonT(30) DEF CopyTypes, SnapshotAudited
<1>5. CASE step = "versions"
  <2>1. step' = "commands" /\ snapshot' = [snapshot EXCEPT !.versions = file_versions]
    BY <1>5, ZenonT(30) DEF Sync!Collect, Sync!collect_order
  <2> QED BY <1>1, <1>2, <2>1, ZenonT(30) DEF CopyTypes, SnapshotAudited
<1>6. CASE step = "commands"
  <2>1. step' = "events" /\ snapshot' = [snapshot EXCEPT !.commands = file_commands]
    BY <1>6, ZenonT(30) DEF Sync!Collect, Sync!collect_order
  <2>2. CopyTypes' /\ snapshot'.commands = file_commands
    BY <1>1, <1>2, <2>1, ZenonT(30) DEF CopyTypes
  <2>3. step' # "write"
    BY <2>1
  <2> QED BY <1>1, <2>1, <2>2, <2>3, ZenonT(30) DEF AuditInv, SnapshotAudited, OfQueue
<1>7. CASE step = "events"
  <2>1. step' = "write" /\ snapshot' = [snapshot EXCEPT !.events = events]
    BY <1>7, ZenonT(30) DEF Sync!Collect, Sync!collect_order
  <2>2. CopyTypes' /\ snapshot'.commands = snapshot.commands /\ snapshot'.events = events
    BY <1>1, <1>2, <2>1, ZenonT(30) DEF CopyTypes
  <2>3. step' # "events"
    BY <2>1
  <2>4. OfQueue(snapshot.commands) /\ Audited(snapshot.commands, events)
    BY <1>7, ZenonT(30) DEF AuditInv, SnapshotAudited
  <2> QED BY <1>1, <2>1, <2>2, <2>3, <2>4, ZenonT(30) DEF SnapshotAudited, OfQueue, OfLog
<1> QED
  BY <1>2, <1>4, <1>5, <1>6, <1>7, ZenonT(30) DEF CopyTypes, Sync!Collect

\* The next sync starts afresh.
LEMMA AgainStep ==
  ASSUME AuditInv, Sync!Again, last_id' \in Nat,
         UNCHANGED <<agents, file_versions, file_commands, events, db>>
  PROVE  AuditInv'
<1>1. /\ step' = "agents"
      /\ snapshot' \in [agents : SUBSET Agents, versions : Nat, commands : Seq(FileCommand),
                        events : Seq(LogEntry)]
  BY DEF Sync!Again, Sync!EmptySnapshot
<1>2. step' \notin {"events", "write"}
  BY <1>1
<1>3. CopyTypes' /\ SnapshotAudited'
  BY <1>1, <1>2, ZenonT(30) DEF AuditInv, CopyTypes, SnapshotAudited
<1> QED
  BY <1>3, StoresUnmoved, ZenonT(30)

\* The greatest of a set of numbers up to some n.
LEMMA MaxIn ==
  ASSUME NEW n \in Nat, NEW S, S \subseteq 1..n, S # {}
  PROVE  Max(S) \in S
<1> DEFINE D == {n - x : x \in S}
<1>1. D \subseteq Nat /\ D # {}
  <2>1. \A x \in S : n - x \in Nat
    OBVIOUS
  <2> QED BY <2>1, ZenonT(30)
<1>2. PICK d \in D : \A y \in D : ~(<<y, d>> \in OpToRel(<, Nat))
  BY <1>1, WFMin, NatLessThanWellFounded, ZenonT(30)
<1>3. \A y \in D : ~(y < d)
  BY <1>1, <1>2, ZenonT(30) DEF OpToRel
<1>4. PICK x \in S : d = n - x
  BY <1>2, ZenonT(30)
<1>5. ASSUME NEW y \in S PROVE x >= y
  <2>1. ~(n - y < n - x)
    BY <1>3, <1>4, ZenonT(30)
  <2>2. x \in Nat /\ y \in Nat
    OBVIOUS
  <2> QED BY <2>1, <2>2
<1> QED
  BY <1>5, ZenonT(30) DEF Max

\* One of the rows with this id.
LEMMA FirstRow ==
  ASSUME NEW R, NEW rows \in Seq(R), NEW id \in Sync!Ids(rows)
  PROVE  \E i \in DOMAIN rows : Sync!First(rows, id) = rows[i] /\ rows[i].id = id
<1> DEFINE I == {i \in DOMAIN rows : rows[i].id = id}
<1>1. I # {}
  BY ZenonT(30) DEF Sync!Ids
<1>2. Len(rows) \in Nat /\ I \subseteq 1..Len(rows)
  BY LenProperties, ZenonT(30)
<1>3. Max(I) \in I
  BY <1>1, <1>2, MaxIn, ZenonT(30)
<1>4. Sync!First(rows, id) = rows[Max(I)]
  BY ZenonT(30) DEF Sync!First, Sync!Max, Max
<1> QED BY <1>3, <1>4, ZenonT(30)

\* What is written of a command is audited by what is written of the log, or was
\* there: an event's row holds that event, every id being one event's.
LEMMA WriteStep ==
  ASSUME AuditInv, Sync!Write
  PROVE  AuditInv'
<1> DEFINE E == Sync!insert_or_nothing(db.events, snapshot.events)
           C == Sync!insert_command_rows(db.commands, snapshot.commands)
<1>1. /\ step = "write"
      /\ Sync!Again
      /\ UNCHANGED <<agents, file_versions, file_commands, events, last_id>>
  BY ZenonT(30) DEF Sync!Write, Sync!stores
<1>2. db'.events = E /\ db'.commands = C
  BY ZenonT(30) DEF Sync!Write
<1>3. /\ CopyTypes
      /\ OfQueue(snapshot.commands)
      /\ Audited(snapshot.commands, snapshot.events)
      /\ OfLog(snapshot.events)
  BY <1>1, ZenonT(30) DEF AuditInv, SnapshotAudited
<1>4. snapshot.commands \in Seq(FileCommand) /\ snapshot.events \in Seq(LogEntry)
  BY <1>3 DEF CopyTypes
<1>5. /\ DOMAIN E = DOMAIN db.events \cup Sync!Ids(snapshot.events)
      /\ \A id \in DOMAIN E :
           E[id] = IF id \in DOMAIN db.events THEN db.events[id]
                   ELSE Sync!First(snapshot.events, id)
  BY ZenonT(30) DEF Sync!insert_or_nothing
<1>6. /\ DOMAIN C = DOMAIN db.commands \cup Sync!Ids(snapshot.commands)
      /\ \A id \in DOMAIN C :
           C[id] = IF id \notin Sync!Ids(snapshot.commands) THEN db.commands[id]
                   ELSE IF id \in DOMAIN db.commands
                        THEN [Sync!First(snapshot.commands, id)
                                EXCEPT !.agent = db.commands[id].agent]
                        ELSE Sync!First(snapshot.commands, id)
  BY ZenonT(30) DEF Sync!insert_command_rows
<1> HIDE DEF E, C
<1>7. CopyTypes' /\ SnapshotAudited'
  <2>1. /\ step' = "agents"
        /\ snapshot' \in [agents : SUBSET Agents, versions : Nat, commands : Seq(FileCommand),
                          events : Seq(LogEntry)]
    BY <1>1 DEF Sync!Again, Sync!EmptySnapshot
  <2>2. step' \notin {"events", "write"}
    BY <2>1
  <2> QED BY <1>1, <1>3, <2>1, <2>2, ZenonT(30) DEF CopyTypes, SnapshotAudited
<1>8. ASSUME NEW id \in DOMAIN E
      PROVE  \E i \in DOMAIN events : events[i].id = id /\ events[i] = E[id]
  <2>1. CASE id \in DOMAIN db.events
    BY <1>5, <2>1, ZenonT(30) DEF AuditInv, EventRows
  <2>2. CASE id \notin DOMAIN db.events
    <3>1. id \in Sync!Ids(snapshot.events) /\ E[id] = Sync!First(snapshot.events, id)
      BY <1>5, <2>2, ZenonT(30)
    <3>2. PICK i \in DOMAIN snapshot.events :
            /\ Sync!First(snapshot.events, id) = snapshot.events[i]
            /\ snapshot.events[i].id = id
      BY <1>4, <3>1, FirstRow, ZenonT(30)
    <3> QED BY <1>3, <3>1, <3>2, ZenonT(30) DEF OfLog
  <2> QED BY <2>1, <2>2, ZenonT(30)
<1>9. ASSUME NEW id \in Sync!Ids(snapshot.commands)
      PROVE  \E n \in DOMAIN snapshot.commands :
               /\ snapshot.commands[n].id = id
               /\ C[id].status = snapshot.commands[n].status
               /\ C[id].status \in CopiedStatuses
  <2>1. PICK n \in DOMAIN snapshot.commands :
          /\ Sync!First(snapshot.commands, id) = snapshot.commands[n]
          /\ snapshot.commands[n].id = id
    BY <1>4, FirstRow, ZenonT(30)
  <2>2. snapshot.commands[n] \in FileCommand
    BY <1>4, <2>1, ElementOfSeq, LenProperties, ZenonT(30)
  <2>3. \/ C[id] = snapshot.commands[n]
        \/ C[id] = [snapshot.commands[n] EXCEPT !.agent = db.commands[id].agent]
    BY <1>6, <2>1, ZenonT(30)
  <2>4. /\ C[id].status = snapshot.commands[n].status
        /\ snapshot.commands[n].status \in CopiedStatuses
    BY <2>2, <2>3 DEF FileCommand
  <2> QED BY <2>1, <2>4, ZenonT(30)
<1>10. ASSUME NEW id \in DOMAIN C PROVE C[id].status \in CopiedStatuses
  BY <1>6, <1>9, ZenonT(30) DEF AuditInv
<1>11. ASSUME Sync!Distinct(events), NEW id \in DOMAIN C, NEW s \in Sync!UpTo[C[id].status]
       PROVE  \E e \in Sync!Range(E) :
                /\ e.what.status = s
                /\ e.what.number \in DOMAIN file_commands
                /\ file_commands[e.what.number].id = id
  <2>1. CASE id \notin Sync!Ids(snapshot.commands)
    <3>1. id \in DOMAIN db.commands /\ C[id] = db.commands[id]
      BY <1>6, <2>1, ZenonT(30)
    <3>2. CopyAudited(db.events, db.commands, file_commands)
      BY <1>11, RowsAuditedMeans, ZenonT(30) DEF AuditInv
    <3>3. s \in Sync!UpTo[db.commands[id].status]
      BY <3>1, ZenonT(30)
    <3>4. PICK e \in Sync!Range(db.events) :
            /\ e.what.status = s
            /\ e.what.number \in DOMAIN file_commands
            /\ file_commands[e.what.number].id = id
      BY <3>1, <3>2, <3>3, ZenonT(30) DEF CopyAudited
    <3>5. e \in Sync!Range(E)
      BY <1>5, ZenonT(30) DEF Sync!Range
    <3> QED BY <3>4, <3>5, ZenonT(30)
  <2>2. CASE id \in Sync!Ids(snapshot.commands)
    <3>1. PICK n \in DOMAIN snapshot.commands :
            /\ snapshot.commands[n].id = id
            /\ C[id].status = snapshot.commands[n].status
      BY <1>9, <2>2, ZenonT(30)
    <3>2. s \in Sync!UpTo[snapshot.commands[n].status]
      BY <3>1, ZenonT(30)
    <3>3. PICK i \in DOMAIN snapshot.events : snapshot.events[i].what = Sync!Event(n, s)
      BY <1>3, <3>2, ZenonT(30) DEF Audited
    <3>4. snapshot.events[i].id \in DOMAIN E
      BY <1>5, <3>3, ZenonT(30) DEF Sync!Ids
    <3>5. PICK j \in DOMAIN events :
            events[j].id = snapshot.events[i].id /\ events[j] = E[snapshot.events[i].id]
      BY <1>8, <3>4, ZenonT(30)
    <3>6. i \in DOMAIN events /\ events[i] = snapshot.events[i]
      BY <1>3, <3>3, ZenonT(30) DEF OfLog
    <3>7. j = i
      BY <1>11, <3>5, <3>6, ZenonT(30) DEF Sync!Distinct
    <3>8. E[snapshot.events[i].id] \in Sync!Range(E)
      BY <3>4, ZenonT(30) DEF Sync!Range
    <3>9. E[snapshot.events[i].id].what = Sync!Event(n, s)
      BY <3>3, <3>5, <3>6, <3>7, ZenonT(30)
    <3>10. Sync!Event(n, s).status = s /\ Sync!Event(n, s).number = n
      BY DEF Sync!Event
    <3>11. n \in DOMAIN file_commands /\ file_commands[n].id = id
      BY <1>3, <3>1, ZenonT(30) DEF OfQueue
    <3> QED BY <3>8, <3>9, <3>10, <3>11, ZenonT(30)
  <2> QED BY <2>1, <2>2, ZenonT(30)
<1>12. RowsAudited'
  <2>1. Sync!Distinct(events) => CopyAudited(E, C, file_commands)
    BY <1>11, ZenonT(30) DEF CopyAudited
  <2> QED BY <1>1, <1>2, <2>1, RowsAuditedMeans, ZenonT(30)
<1>13. EventRows'
  BY <1>1, <1>2, <1>8, ZenonT(30) DEF EventRows
<1>14. Audited(file_commands, events)'
  BY <1>1, ZenonT(30) DEF AuditInv, Audited
<1> QED
  BY <1>2, <1>7, <1>10, <1>12, <1>13, <1>14, ZenonT(30) DEF AuditInv

LEMMA InitAudit == Sync!Init => AuditInv
<1> SUFFICES ASSUME Sync!Init PROVE AuditInv
  OBVIOUS
<1>1. CopyTypes
  BY DEF Sync!Init, CopyTypes, Sync!EmptySnapshot
<1>2. DOMAIN file_commands = {} /\ DOMAIN db.events = {} /\ DOMAIN db.commands = {}
  BY DEF Sync!Init
<1>3. step \notin {"events", "write"}
  BY DEF Sync!Init
<1>4. RowsAudited
  BY <1>2, RowsAuditedMeans, ZenonT(30) DEF CopyAudited
<1> QED
  BY <1>1, <1>2, <1>3, <1>4, ZenonT(30) DEF AuditInv, SnapshotAudited, Audited, EventRows

LEMMA NextAudit == AuditInv /\ [Sync!Next]_(Sync!vars) => AuditInv'
<1> SUFFICES ASSUME AuditInv, [Sync!Next]_(Sync!vars) PROVE AuditInv'
  OBVIOUS
<1>1. last_id \in Nat
  BY ZenonT(30) DEF AuditInv, CopyTypes
<1>2. CASE Sync!Stores
  BY <1>2, OtherStep, EnqueueAudited, DrainStep, AckStep, ZenonT(30) DEF Sync!Stores
<1>3. CASE Sync!Collect
  BY <1>3, CollectStep, ZenonT(30)
<1>4. CASE Sync!Write
  BY <1>4, WriteStep, ZenonT(30)
<1>5. CASE Sync!WriteRefused \/ Sync!WriteFails
  BY <1>1, <1>5, AgainStep, ZenonT(30) DEF Sync!WriteRefused, Sync!WriteFails, Sync!stores
<1>6. CASE Sync!Restart
  BY <1>6, AgainStep DEF Sync!Restart
<1>7. CASE UNCHANGED Sync!vars
  <2>1. UNCHANGED <<agents, file_versions, file_commands, events, last_id, step, snapshot, db>>
    BY <1>7, ZenonT(30) DEF Sync!vars, Sync!stores
  <2>2. CopyTypes' /\ SnapshotAudited'
    BY <2>1, ZenonT(30) DEF AuditInv, CopyTypes, SnapshotAudited, Audited, OfQueue, OfLog
  <2> QED BY <2>1, <2>2, StoresUnmoved, ZenonT(30)
<1> QED
  BY <1>2, <1>3, <1>4, <1>5, <1>6, <1>7, ZenonT(30) DEF Sync!Next, Sync!Sync

\* What the copy has of a command is audited in the copy, however the stores go
\* on while the four of them are read, transactions fail and the control plane
\* restarts, for any number of agents, commands and versions.
THEOREM CopyIsAudited == Sync!Spec => []RowsAudited
<1>1. AuditInv => RowsAudited
  BY ZenonT(30) DEF AuditInv
<1> QED
  BY <1>1, InitAudit, NextAudit, PTL DEF Sync!Spec
=============================================================================
