----------------------------- MODULE AccessProofs -----------------------------
(***************************************************************************)
(* What a request can reach, and on whose authority.                       *)
(*                                                                         *)
(* Theorems of Tenancy, for every set of tenants, projects, requests and   *)
(* connections; and of Authority, for every set of users, token lifetime   *)
(* and delay: no access token, and no request let in with one, carries a   *)
(* role for longer than the lifetime of a token and the delays of the      *)
(* handlers.                                                               *)
(***************************************************************************)
EXTENDS Tenancy, Authority, TLAPS

LEMMA Apart ==
  /\ None \notin Tenants /\ None \notin Conns /\ None \notin Projects
  /\ "gone" \notin Tenants /\ None # "gone"
BY NoneAssumption DEF None

\* The messages, field by field.
LEMMA MessageFields ==
  ASSUME NEW m \in Message
  PROVE  /\ m.kind \in Reads \cup Writes
         /\ m.tenant \in Tenants
         /\ m.project \in Projects \cup {None}
         /\ m.kind \in {"get", "update", "delete"} => m.project \in Projects
BY DEF Message, Reads, Writes

-----------------------------------------------------------------------------
(* The pool: which connection a request has and what is set on it.         *)

Pool ==
  /\ TypeOK
  /\ ConnectionsComeBack /\ InsideHolds /\ SettingIsTenant /\ SessionsUnset /\ IdleConnectionsAreClean

\* The rows: what a request may have read and is about to change.
Rows ==
  /\ Unread /\ ReadsOwnRows
  /\ OwnRowHeld /\ NewRow /\ ProjectsApart /\ DeletedIsGone /\ DeletedOnce

LEMMA TInvParts == TInv <=> Pool /\ Rows
BY DEF TInv, Pool, Rows

\* A request in its transaction: its message, its connection.
LEMMA InsideFacts ==
  ASSUME Pool, NEW r \in Requests, pc[r] \in Inside
  PROVE  /\ msg[r] \in Message
         /\ msg[r].tenant \in Tenants
         /\ conn[r] \in Conns
         /\ \A q \in Requests : conn[q] = conn[r] => q = r
<1>1. msg[r] \in Message
  BY DEF Pool, TypeOK, Inside
<1>2. conn[r] \in Conns /\ conn[r] # None
  BY DEF Pool, TypeOK, InsideHolds
<1> QED BY <1>1, <1>2, MessageFields DEF Pool, ConnectionsComeBack

\* A step of r that leaves the connections as they are, and r in or out of its
\* transaction.
LEMMA PoolKept ==
  ASSUME Pool, TypeOK', UNCHANGED pool, NEW r \in Requests, NEW to \in Pc, GoTo(r, to),
         pc[r] \in Inside \ {"begun"} <=> to \in Inside \ {"begun"},
         pc[r] \in Inside <=> to \in Inside,
         \A q \in Requests : pc[q] \in Inside => msg'[q].tenant = msg[q].tenant
  PROVE  Pool'
<1>1. \A q \in Requests : pc'[q] = IF q = r THEN to ELSE pc[q]
  BY DEF Pool, TypeOK, GoTo
<1> QED BY <1>1 DEF Pool, pool, ConnectionsComeBack, InsideHolds, SettingIsTenant, SessionsUnset,
             IdleConnectionsAreClean

\* The transaction ends: nobody else had its connection, and nothing stays set on it.
LEMMA PoolEnd ==
  ASSUME Pool, TypeOK', NEW r \in Requests, pc[r] \in Inside, NEW reply \in Reply, End(r, reply)
  PROVE  Pool'
<1>1. \A q \in Requests : pc'[q] = IF q = r THEN reply ELSE pc[q]
  BY DEF Pool, TypeOK, End, GoTo
<1>2. \A q \in Requests : conn'[q] = IF q = r THEN None ELSE conn[q]
  BY DEF Pool, TypeOK, End
<1>3. /\ conn[r] \in Conns
      /\ \A q \in Requests : conn[q] = conn[r] => q = r
  BY InsideFacts
<1>4. \A c \in Conns : setting'[c] = IF c = conn[r] THEN None ELSE setting[c]
  BY <1>3 DEF Pool, TypeOK, End, SessionsUnset
<1>5. reply \notin Inside
  BY DEF Reply, Inside
<1>6. ConnectionsComeBack' /\ InsideHolds'
  BY <1>1, <1>2, <1>5 DEF Pool, ConnectionsComeBack, InsideHolds
<1>7. SettingIsTenant'
  <2> SUFFICES ASSUME NEW q \in Requests, pc'[q] \in Inside \ {"begun"}
               PROVE  setting'[conn'[q]] = msg'[q].tenant
    BY DEF SettingIsTenant
  <2>1. q # r /\ pc[q] \in Inside \ {"begun"}
    BY <1>1, <1>5
  <2>2. conn[q] \in Conns /\ conn[q] # conn[r]
    BY <2>1, <1>3, InsideFacts
  <2>3. setting[conn[q]] = msg[q].tenant
    BY <2>1 DEF Pool, SettingIsTenant
  <2> QED BY <2>1, <2>2, <2>3, <1>2, <1>4 DEF End
<1>8. SessionsUnset'
  BY DEF Pool, SessionsUnset, End
<1>9. IdleConnectionsAreClean'
  BY <1>2, <1>4 DEF Pool, IdleConnectionsAreClean
<1> QED BY <1>6, <1>7, <1>8, <1>9 DEF Pool

-----------------------------------------------------------------------------
(* The rows.                                                               *)

\* A step of r that leaves the tables as they are, and changes nothing at COMMIT either.
LEMMA RowsKept ==
  ASSUME TypeOK, Rows, UNCHANGED <<tables, msg, hit, seen>>, NEW r \in Requests, NEW to \in Pc, GoTo(r, to),
         to = "ok" => msg[r].kind \notin {"create", "update", "delete"},
         to = "204" => msg[r].kind # "delete",
         pc[r] \in {"idle", "sent", "begun", "ready"} \/ to \notin {"idle", "sent", "begun", "ready"}
  PROVE  Rows'
<1>1. \A q \in Requests : pc'[q] = IF q = r THEN to ELSE pc[q]
  BY DEF TypeOK, GoTo
<1>2. Unread' /\ ReadsOwnRows'
  BY <1>1 DEF TypeOK, Rows, Unread, ReadsOwnRows
<1>3. OwnRowHeld'
  BY <1>1 DEF Rows, OwnRowHeld, Changes, tables
<1>4. NewRow' /\ ProjectsApart'
  BY <1>1 DEF Rows, NewRow, ProjectsApart, At, tables
<1>5. DeletedIsGone' /\ DeletedOnce'
  BY <1>1 DEF Rows, DeletedIsGone, DeletedOnce, At, tables
<1> QED BY <1>2, <1>3, <1>4, <1>5 DEF Rows

\* What a transaction sees is of its own tenant.
LEMMA QueryReads ==
  ASSUME Pool, NEW r \in Requests, pc[r] = "ready", NEW rows, NEW to, Query(r, rows, to)
  PROVE  \E s \in SUBSET {msg[r].tenant} : seen' = [seen EXCEPT ![r] = s]
<1>1. setting[conn[r]] = msg[r].tenant
  BY DEF Pool, SettingIsTenant, Inside
<1>2. {t \in rows : Policy(r, t)} \in SUBSET {msg[r].tenant}
  BY <1>1 DEF Policy
<1> QED BY <1>2 DEF Query

-----------------------------------------------------------------------------
(* One lemma per kind of step.                                             *)

LEMMA InitStep == Init => TInv
<1> SUFFICES ASSUME Init PROVE TInv
  OBVIOUS
<1>1. TypeOK
  BY DEF Init, TypeOK, Pc
<1>2. \A r \in Requests : pc[r] = "idle" /\ conn[r] = None /\ seen[r] = {} /\ msg[r] = NoMessage
  BY DEF Init
<1>3. Pool
  BY <1>1, <1>2 DEF Init, Pool, ConnectionsComeBack, InsideHolds, SettingIsTenant, SessionsUnset,
            IdleConnectionsAreClean, Inside
<1>4. Rows
  BY <1>2, Apart DEF Rows, Unread, ReadsOwnRows, OwnRowHeld, NewRow, ProjectsApart, DeletedIsGone,
            DeletedOnce, Changes, At, NoMessage, None
<1> QED BY <1>3, <1>4, TInvParts

LEMMA SendStep ==
  ASSUME TInv, NEW r \in Requests, NEW m \in Message, Send(r, m)
  PROVE  TInv'
<1>1. Pool /\ Rows /\ TypeOK
  BY TInvParts DEF Pool
<1>2. /\ \A q \in Requests : pc'[q] = IF q = r THEN "sent" ELSE pc[q]
      /\ \A q \in Requests : msg'[q] = IF q = r THEN m ELSE msg[q]
      /\ pc[r] = "idle"
  BY <1>1 DEF Send, GoTo, TypeOK
<1>3. TypeOK'
  BY <1>1, <1>2 DEF Send, GoTo, TypeOK, Pc, tables, pool
<1>4. Pool'
  <2>1. \A q \in Requests : pc[q] \in Inside => msg'[q].tenant = msg[q].tenant
    BY <1>2 DEF Inside
  <2> QED BY <1>1, <1>2, <1>3, <2>1, PoolKept DEF Send, Pc, Inside
<1>5. Unread' /\ ReadsOwnRows'
  BY <1>1, <1>2 DEF Rows, Unread, ReadsOwnRows, Send
<1>6. OwnRowHeld' /\ NewRow'
  BY <1>1, <1>2 DEF Rows, OwnRowHeld, NewRow, Changes, At, Send, tables
<1>7. ProjectsApart'
  BY <1>1, <1>2 DEF Rows, ProjectsApart, Send
<1>8. DeletedIsGone' /\ DeletedOnce'
  BY <1>1, <1>2 DEF Rows, DeletedIsGone, DeletedOnce, At, Send, tables
<1> QED BY <1>4, <1>5, <1>6, <1>7, <1>8 DEF TInv, Pool, Rows

LEMMA BeginStep ==
  ASSUME TInv, NEW r \in Requests, Begin(r)
  PROVE  TInv'
<1>1. Pool /\ Rows /\ TypeOK
  BY TInvParts DEF Pool
<1>2. PICK c \in Conns : (\A q \in Requests : conn[q] # c) /\ conn' = [conn EXCEPT ![r] = c]
  BY DEF Begin
<1>3. /\ \A q \in Requests : pc'[q] = IF q = r THEN "begun" ELSE pc[q]
      /\ \A q \in Requests : conn'[q] = IF q = r THEN c ELSE conn[q]
      /\ pc[r] = "sent" /\ conn[r] = None
  BY <1>1, <1>2 DEF Begin, GoTo, TypeOK, Pool, ConnectionsComeBack, Inside
<1>4. TypeOK'
  BY <1>1, <1>2, <1>3 DEF Begin, GoTo, TypeOK, Pc, Inside, tables
<1>5. Pool'
  <2>1. ConnectionsComeBack' /\ InsideHolds'
    BY <1>1, <1>2, <1>3, Apart DEF Pool, ConnectionsComeBack, InsideHolds, Inside
  <2>2. SettingIsTenant' /\ SessionsUnset' /\ IdleConnectionsAreClean'
    BY <1>1, <1>2, <1>3, Apart DEF Begin, Pool, SettingIsTenant, SessionsUnset,
            IdleConnectionsAreClean, Inside
  <2> QED BY <1>4, <2>1, <2>2 DEF Pool
<1>6. Rows'
  BY <1>1, <1>3, RowsKept DEF Begin, Pc, Inside
<1> QED BY <1>5, <1>6 DEF TInv, Pool, Rows

LEMMA SetTenantStep ==
  ASSUME TInv, NEW r \in Requests, SetTenant(r)
  PROVE  TInv'
<1>1. Pool /\ Rows /\ TypeOK
  BY TInvParts DEF Pool
<1>2. pc[r] = "begun" /\ pc[r] \in Inside
  BY DEF SetTenant, Inside
<1>3. /\ conn[r] \in Conns /\ msg[r].tenant \in Tenants
      /\ \A q \in Requests : conn[q] = conn[r] => q = r
  BY <1>1, <1>2, InsideFacts
<1>4. /\ \A q \in Requests : pc'[q] = IF q = r THEN "ready" ELSE pc[q]
      /\ \A c \in Conns : setting'[c] = IF c = conn[r] THEN msg[r].tenant ELSE setting[c]
  BY <1>1 DEF SetTenant, GoTo, TypeOK
<1>5. TypeOK'
  BY <1>1, <1>3 DEF SetTenant, GoTo, TypeOK, Pc, Inside, tables
<1>6. Pool'
  <2>1. ConnectionsComeBack' /\ InsideHolds' /\ SessionsUnset' /\ IdleConnectionsAreClean'
    BY <1>1, <1>2, <1>4 DEF SetTenant, Pool, ConnectionsComeBack, InsideHolds, SessionsUnset,
            IdleConnectionsAreClean, Inside
  <2>2. SettingIsTenant'
    <3> SUFFICES ASSUME NEW q \in Requests, pc'[q] \in Inside \ {"begun"}
                 PROVE  setting'[conn[q]] = msg[q].tenant
      BY DEF SettingIsTenant, SetTenant
    <3>1. CASE q = r
      BY <1>3, <1>4, <3>1
    <3>2. CASE q # r
      <4>1. pc[q] \in Inside \ {"begun"}
        BY <1>4, <3>2
      <4>2. conn[q] \in Conns /\ conn[q] # conn[r]
        BY <1>1, <1>3, <3>2, <4>1, InsideFacts
      <4>3. setting[conn[q]] = msg[q].tenant
        BY <1>1, <4>1 DEF Pool, SettingIsTenant
      <4> QED BY <1>4, <4>2, <4>3
    <3> QED BY <3>1, <3>2
  <2> QED BY <1>5, <2>1, <2>2 DEF Pool
<1>7. Rows'
  BY <1>1, <1>2, RowsKept DEF SetTenant, Pc, Inside
<1> QED BY <1>6, <1>7 DEF TInv, Pool, Rows

\* BEGIN, a statement, or COMMIT after a refusal fails or ends the transaction, and
\* nothing is written.
LEMMA NothingWritten ==
  ASSUME TInv, NEW r \in Requests, NEW reply \in Reply,
         UNCHANGED <<tables, msg, hit, seen>>,
         reply = "204" => msg[r].kind # "delete",
         \/ pc[r] = "sent" /\ GoTo(r, reply) /\ UNCHANGED pool
         \/ pc[r] \in Inside /\ End(r, reply)
  PROVE  TInv'
<1>1. Pool /\ Rows /\ TypeOK
  BY TInvParts DEF Pool
<1>2. GoTo(r, reply) /\ reply \in Pc /\ reply \notin {"idle", "sent", "begun", "ready", "ok"}
  BY DEF End, Pc, Reply
<1>3. TypeOK'
  <2>1. setting' \in [Conns -> Tenants \cup {None}] /\ session' = session
        /\ conn' \in [Requests -> Conns \cup {None}]
    BY <1>1, InsideFacts DEF End, pool, Pool, TypeOK
  <2>2. pc' \in [Requests -> Pc] /\ \A q \in Requests : pc'[q] # "idle" => pc[q] # "idle"
    BY <1>1, <1>2 DEF GoTo, TypeOK, Inside
  <2> QED BY <1>1, <2>1, <2>2 DEF TypeOK, tables
<1>4. Pool'
  <2>1. CASE pc[r] = "sent" /\ UNCHANGED pool
    <3>1. pc[r] \notin Inside /\ reply \notin Inside
      BY <2>1 DEF Inside, Reply
    <3> QED BY <1>1, <1>2, <1>3, <2>1, <3>1, PoolKept
  <2>2. CASE pc[r] \in Inside /\ End(r, reply)
    BY <1>1, <1>3, <2>2, PoolEnd
  <2> QED BY <2>1, <2>2
<1>5. Rows'
  BY <1>1, <1>2, RowsKept
<1> QED BY <1>4, <1>5 DEF TInv, Pool, Rows

LEMMA FailsStep ==
  ASSUME TInv, NEW r \in Requests, BeginFails(r) \/ Fails(r) \/ CommitRefusal(r)
  PROVE  TInv'
<1>1. ErrorReply(r) \in Reply /\ (ErrorReply(r) = "204" => msg[r].kind # "delete")
  BY DEF ErrorReply, Reply
<1>2. CASE BeginFails(r)
  BY <1>1, <1>2, NothingWritten DEF BeginFails
<1>3. CASE Fails(r)
  BY <1>1, <1>3, NothingWritten DEF Fails, End, Inside
<1>4. CASE CommitRefusal(r)
  BY <1>4, NothingWritten DEF CommitRefusal, End, Inside, Reply
<1> QED BY <1>2, <1>3, <1>4

\* A statement that reads, or that finds nothing to change, or a body without a name.
LEMMA StatementStep ==
  ASSUME TInv, NEW r \in Requests, pc[r] = "ready", NEW to \in {"ok", "refused", "invalid"}, GoTo(r, to),
         UNCHANGED <<tables, pool, msg>>,
         to = "ok" => msg[r].kind \notin {"create", "update", "delete"},
         \E b \in BOOLEAN : hit' = hit \/ hit' = [hit EXCEPT ![r] = b],
         seen' = seen \/ \E s \in SUBSET {msg[r].tenant} : seen' = [seen EXCEPT ![r] = s]
  PROVE  TInv'
<1>1. Pool /\ Rows /\ TypeOK
  BY TInvParts DEF Pool
<1>2. /\ \A q \in Requests : pc'[q] = IF q = r THEN to ELSE pc[q]
      /\ to \in Pc /\ to \in Inside \ {"begun"} /\ pc[r] \in Inside \ {"begun"}
      /\ \A q \in Requests : q # r => hit'[q] = hit[q]
  BY <1>1 DEF GoTo, TypeOK, Pc, Inside
<1>3. msg[r].tenant \in Tenants
  BY <1>1, <1>2, InsideFacts
<1>4. TypeOK'
  BY <1>1, <1>2, <1>3 DEF GoTo, TypeOK, tables, pool
<1>5. Pool'
  BY <1>1, <1>2, <1>4, PoolKept
<1>6. Unread' /\ ReadsOwnRows'
  BY <1>1, <1>2 DEF TypeOK, Rows, Unread, ReadsOwnRows
<1>7. OwnRowHeld'
  BY <1>1, <1>2 DEF Rows, OwnRowHeld, Changes, tables
<1>8. NewRow' /\ ProjectsApart' /\ DeletedIsGone' /\ DeletedOnce'
  BY <1>1, <1>2 DEF Rows, NewRow, ProjectsApart, DeletedIsGone, DeletedOnce, At, tables
<1> QED BY <1>5, <1>6, <1>7, <1>8 DEF TInv, Pool, Rows

LEMMA ReadStep ==
  ASSUME TInv, NEW r \in Requests, BadRequest(r) \/ List(r) \/ ListAudit(r) \/ Get(r) \/ InsertAudit(r)
  PROVE  TInv'
<1>1. Pool
  BY TInvParts
<1>2. CASE BadRequest(r)
  BY <1>2, StatementStep DEF BadRequest, At
<1>3. CASE InsertAudit(r)
  BY <1>3, StatementStep DEF InsertAudit, At
<1>4. CASE List(r) \/ ListAudit(r)
  <2>1. pc[r] = "ready" /\ msg[r].kind \notin {"create", "update", "delete"}
        /\ \E rows : Query(r, rows, "ok")
    BY <1>4 DEF List, ListAudit, At
  <2> QED BY <1>1, <2>1, QueryReads, StatementStep DEF Query
<1>5. CASE Get(r)
  <2>1. pc[r] = "ready" /\ msg[r].kind \notin {"create", "update", "delete"}
        /\ \E rows, to : to \in {"ok", "refused"} /\ Query(r, rows, to)
    BY <1>5 DEF Get, At
  <2> QED BY <1>1, <2>1, QueryReads, StatementStep DEF Query
<1> QED BY <1>2, <1>3, <1>4, <1>5

\* The INSERT of a project: a new id, which nobody else has.
LEMMA InsertStep ==
  ASSUME TInv, NEW r \in Requests, Insert(r)
  PROVE  TInv'
<1>1. Pool /\ Rows /\ TypeOK
  BY TInvParts DEF Pool
<1>2. PICK p \in Projects : /\ row[p] = None
                            /\ \A q \in Requests : msg[q].kind = "create" => msg[q].project # p
                            /\ msg' = [msg EXCEPT ![r].project = p]
  BY DEF Insert
<1>3. pc[r] = "ready" /\ msg[r].kind = "create" /\ msg[r] \in Message
  BY <1>1 DEF Insert, At, TypeOK
<1>4. msg' = [msg EXCEPT ![r] = [msg[r] EXCEPT !.project = p]]
  BY <1>2
<1>5. /\ [msg[r] EXCEPT !.project = p] \in Message
      /\ [msg[r] EXCEPT !.project = p].kind = "create"
      /\ [msg[r] EXCEPT !.project = p].tenant = msg[r].tenant
      /\ [msg[r] EXCEPT !.project = p].project = p
  BY <1>3 DEF Message
<1>6. \A q \in Requests :
        /\ q # r => msg'[q] = msg[q]
        /\ q = r => msg'[q].kind = "create" /\ msg'[q].tenant = msg[q].tenant /\ msg'[q].project = p
  BY <1>1, <1>4, <1>5 DEF TypeOK
<1>7. \A q \in Requests : pc'[q] = IF q = r THEN "ok" ELSE pc[q]
  BY <1>1 DEF Insert, GoTo, TypeOK
<1>8. TypeOK'
  BY <1>1, <1>4, <1>5, <1>7 DEF Insert, GoTo, TypeOK, Pc, Inside, tables, pool
<1>9. Pool'
  <2>1. \A q \in Requests : msg'[q].tenant = msg[q].tenant
    BY <1>6
  <2> QED BY <1>1, <1>3, <1>8, <2>1, PoolKept DEF Insert, Pc, Inside
<1>10. Unread' /\ ReadsOwnRows'
  BY <1>1, <1>6, <1>7 DEF Rows, Unread, ReadsOwnRows, Insert
<1>11. OwnRowHeld'
  BY <1>1, <1>6, <1>7 DEF Rows, OwnRowHeld, Changes, Insert, tables
<1>12. NewRow'
  BY <1>1, <1>2, <1>6, <1>7 DEF Rows, NewRow, At, Insert, tables
<1>13. ProjectsApart'
  BY <1>1, <1>2, <1>6 DEF Rows, ProjectsApart
<1>14. DeletedIsGone' /\ DeletedOnce'
  BY <1>1, <1>6, <1>7 DEF Rows, DeletedIsGone, DeletedOnce, At, Insert, tables
<1> QED BY <1>9, <1>10, <1>11, <1>12, <1>13, <1>14 DEF TInv, Pool, Rows

\* UPDATE and DELETE: what they find is of their tenant, and nobody else's.
LEMMA ChangeStep ==
  ASSUME TInv, NEW r \in Requests, Change(r)
  PROVE  TInv'
<1> DEFINE p == msg[r].project
           found == row[p] # None /\ Policy(r, row[p])
<1>1. Pool /\ Rows /\ TypeOK
  BY TInvParts DEF Pool
<1>2. /\ pc[r] = "ready" /\ msg[r].kind \in {"update", "delete"}
      /\ ~Locked(p)
      /\ hit' = [hit EXCEPT ![r] = found]
      /\ GoTo(r, IF found THEN "ok" ELSE "refused")
      /\ UNCHANGED <<tables, pool, msg, seen>>
  BY DEF Change, At
<1>3. CASE ~found
  BY <1>2, <1>3, StatementStep
<1>4. CASE found
  <2>1. \A q \in Requests : /\ pc'[q] = IF q = r THEN "ok" ELSE pc[q]
                            /\ hit'[q] = IF q = r THEN TRUE ELSE hit[q]
    BY <1>1, <1>2, <1>4 DEF GoTo, TypeOK
  <2>2. row[p] = msg[r].tenant
    BY <1>1, <1>2, <1>4 DEF Policy, Pool, SettingIsTenant, Inside
  <2>3. \A q \in Requests : Changes(q) => msg[q].project # p
    BY <1>1, <1>2 DEF Locked, Changes, Rows, OwnRowHeld
  <2>4. TypeOK'
    BY <1>1, <1>2, <1>4, <2>1 DEF GoTo, TypeOK, Pc, Inside, tables, pool
  <2>5. Pool'
    BY <1>1, <1>2, <1>4, <2>4, PoolKept DEF Pc, Inside
  <2>6. Unread' /\ ReadsOwnRows'
    BY <1>1, <1>2, <2>1 DEF Rows, Unread, ReadsOwnRows
  <2>7. row' = row /\ msg' = msg
    BY <1>2 DEF tables
  <2>8. \A q \in Requests : Changes(q)' => q = r \/ Changes(q)
    BY <2>1, <2>7 DEF Changes
  <2>9. OwnRowHeld'
    <3> SUFFICES ASSUME NEW q \in Requests, Changes(q)'
                 PROVE  /\ hit'[q] /\ row[msg[q].project] = msg[q].tenant
                        /\ \A s \in Requests : Changes(s)' /\ msg[s].project = msg[q].project => s = q
      BY <2>7 DEF OwnRowHeld
    <3>1. CASE q = r
      BY <3>1, <2>1, <2>2, <2>3, <2>8
    <3>2. CASE q # r
      BY <3>2, <1>1, <2>1, <2>3, <2>8 DEF Rows, OwnRowHeld
    <3> QED BY <3>1, <3>2
  <2>10. ProjectsApart'
    BY <1>1, <2>7 DEF Rows, ProjectsApart
  <2>11. \A q \in Requests : At(q, "ok", "create")' => At(q, "ok", "create")
    BY <1>2, <2>1, <2>7 DEF At
  <2>12. \A q \in Requests : At(q, "204", "delete")' => At(q, "204", "delete")
    BY <2>1, <2>7 DEF At
  <2>13. NewRow'
    <3> SUFFICES ASSUME NEW q \in Requests, At(q, "ok", "create")'
                 PROVE  msg[q].project \in Projects /\ row[msg[q].project] = None
      BY <2>7 DEF NewRow
    <3> QED BY <1>1, <2>11 DEF Rows, NewRow
  <2>14. DeletedIsGone'
    <3> SUFFICES ASSUME NEW q \in Requests, At(q, "204", "delete")'
                 PROVE  row[msg[q].project] = "gone"
      BY <2>7 DEF DeletedIsGone
    <3> QED BY <1>1, <2>12 DEF Rows, DeletedIsGone
  <2>15. DeletedOnce'
    <3> SUFFICES ASSUME NEW q \in Requests, NEW s \in Requests,
                        At(q, "204", "delete")', At(s, "204", "delete")', msg[q].project = msg[s].project
                 PROVE  q = s
      BY <2>7 DEF DeletedOnce
    <3> QED BY <1>1, <2>12 DEF Rows, DeletedOnce
  <2> QED BY <2>5, <2>6, <2>9, <2>10, <2>13, <2>14, <2>15 DEF TInv, Pool, Rows
<1> QED BY <1>3, <1>4

-----------------------------------------------------------------------------
(* COMMIT.                                                                 *)

\* What a COMMIT changes: nothing but a row of the tenant's own, or a new one.
LEMMA Applied ==
  ASSUME TInv, NEW r \in Requests, pc[r] = "ok", Apply(r), NEW p \in Projects,
         row'[p] # row[p] \/ writer'[p] # writer[p]
  PROVE  /\ msg[r].project = p
         /\ IF msg[r].kind = "create" THEN row[p] = None /\ row'[p] = msg[r].tenant
            ELSE /\ row[p] = msg[r].tenant
                 /\ row'[p] = IF msg[r].kind = "delete" THEN "gone" ELSE row[p]
<1>1. Rows /\ TypeOK
  BY TInvParts DEF Pool
<1>2. CASE msg[r].kind = "create"
  BY <1>1, <1>2 DEF Apply, TypeOK, Rows, NewRow, At
<1>3. CASE msg[r].kind \in {"update", "delete"}
  BY <1>1, <1>3 DEF Apply, TypeOK, Rows, OwnRowHeld, Changes
<1>4. CASE msg[r].kind \notin {"create", "update", "delete"}
  BY <1>4 DEF Apply
<1> QED BY <1>2, <1>3, <1>4

LEMMA CommitStep ==
  ASSUME TInv, NEW r \in Requests, Commit(r)
  PROVE  TInv'
<1>1. Pool /\ Rows /\ TypeOK
  BY TInvParts DEF Pool
<1>2. PICK reply \in {OkReply(r), ErrorReply(r)} : End(r, reply)
  BY DEF Commit
<1>3. /\ pc[r] = "ok" /\ pc[r] \in Inside /\ Apply(r)
      /\ UNCHANGED <<session, msg, hit, seen>>
      /\ reply \in Reply
  BY <1>2 DEF Commit, End, Inside, OkReply, ErrorReply, Reply
<1>4. /\ msg[r] \in Message /\ msg[r].tenant \in Tenants /\ conn[r] \in Conns
      /\ \A q \in Requests : pc'[q] = IF q = r THEN reply ELSE pc[q]
  BY <1>1, <1>2, <1>3, InsideFacts DEF End, GoTo, TypeOK
<1>5. TypeOK'
  <2>1. /\ setting' \in [Conns -> Tenants \cup {None}]
        /\ conn' \in [Requests -> Conns \cup {None}]
        /\ pc' \in [Requests -> Pc]
    BY <1>1, <1>2, <1>3, <1>4 DEF End, GoTo, TypeOK, Pc
  <2>2. row' \in [Projects -> Tenants \cup {None, "gone"}]
    BY <1>1, <1>3, <1>4 DEF Apply, TypeOK
  <2>4. log' \subseteq Tenants \X Requests
    <3>1. <<msg[r].tenant, r>> \in Tenants \X Requests
      BY <1>4
    <3> QED BY <1>1, <1>3, <3>1 DEF Apply, TypeOK
  <2>3. writer' \in [Projects -> Requests \cup {None}]
    BY <1>1, <1>3 DEF Apply, TypeOK
  <2> QED BY <1>1, <1>3, <1>4, <2>1, <2>2, <2>3, <2>4 DEF TypeOK
<1>6. Pool'
  BY <1>1, <1>2, <1>3, <1>5, PoolEnd
<1>7. Unread' /\ ReadsOwnRows'
  BY <1>1, <1>3, <1>4 DEF Rows, Unread, ReadsOwnRows, Reply
<1>8. OwnRowHeld'
  <2> SUFFICES ASSUME NEW q \in Requests, Changes(q)'
               PROVE  /\ hit[q] /\ row'[msg[q].project] = msg[q].tenant
                      /\ \A s \in Requests : Changes(s)' /\ msg[s].project = msg[q].project => s = q
    BY <1>3 DEF OwnRowHeld
  <2>1. \A s \in Requests : Changes(s)' => Changes(s) /\ s # r
    BY <1>3, <1>4 DEF Changes, Reply
  <2>2. /\ hit[q] /\ row[msg[q].project] = msg[q].tenant
        /\ \A s \in Requests : Changes(s) /\ msg[s].project = msg[q].project => s = q
    BY <1>1, <2>1 DEF Rows, OwnRowHeld
  <2>3. msg[q].project \in Projects /\ msg[q].tenant \in Tenants
    <3>1. msg[q] \in Message /\ msg[q].kind \in {"update", "delete"}
      BY <1>1, <2>1 DEF Changes, TypeOK
    <3> QED BY <3>1, MessageFields
  <2>4. row'[msg[q].project] = row[msg[q].project]
    <3>1. SUFFICES ASSUME row'[msg[q].project] # row[msg[q].project] PROVE FALSE
      OBVIOUS
    <3>2. msg[r].project = msg[q].project /\ msg[r].kind # "create"
      BY <1>3, <2>2, <2>3, <3>1, Applied, Apart
    <3>3. ~Changes(r)
      BY <2>1, <2>2, <3>2
    <3> QED BY <1>3, <3>1, <3>2, <3>3 DEF Apply, Changes
  <2> QED BY <2>1, <2>2, <2>4
<1>9. NewRow'
  <2> SUFFICES ASSUME NEW q \in Requests, At(q, "ok", "create")'
               PROVE  msg[q].project \in Projects /\ row'[msg[q].project] = None
    BY <1>3 DEF NewRow
  <2>1. q # r /\ At(q, "ok", "create")
    BY <1>3, <1>4 DEF At, Reply
  <2>2. msg[q].project \in Projects /\ row[msg[q].project] = None
    BY <1>1, <2>1 DEF Rows, NewRow
  <2>3. row'[msg[q].project] = row[msg[q].project]
    <3>1. SUFFICES ASSUME row'[msg[q].project] # row[msg[q].project] PROVE FALSE
      OBVIOUS
    <3>2. msg[r].project = msg[q].project /\ msg[r].kind = "create"
      BY <1>3, <1>4, <2>2, <3>1, Applied, Apart
    <3> QED BY <1>1, <2>1, <2>2, <3>2, Apart DEF Rows, ProjectsApart, At
  <2> QED BY <2>2, <2>3
<1>10. ProjectsApart'
  BY <1>1, <1>3 DEF Rows, ProjectsApart
<1>11. \A q \in Requests : At(q, "204", "delete")' =>
         \/ At(q, "204", "delete") /\ q # r
         \/ q = r /\ Changes(r) /\ msg[r].kind = "delete"
  BY <1>3, <1>4 DEF At, Changes
<1>12. Changes(r) => /\ hit[r] /\ row[msg[r].project] = msg[r].tenant
                     /\ msg[r].project \in Projects
  BY <1>1, <1>4, MessageFields DEF Rows, OwnRowHeld, Changes
<1>13. DeletedIsGone'
  <2> SUFFICES ASSUME NEW q \in Requests, At(q, "204", "delete")'
               PROVE  row'[msg[q].project] = "gone"
    BY <1>3 DEF DeletedIsGone
  <2>1. CASE q = r
    <3>1. Changes(r) /\ msg[r].kind = "delete"
      BY <1>11, <2>1
    <3> QED BY <1>1, <1>3, <1>12, <2>1, <3>1 DEF Apply, TypeOK
  <2>2. CASE q # r
    <3>1. row[msg[q].project] = "gone" /\ msg[q].project \in Projects
      <4>1. At(q, "204", "delete") /\ msg[q] \in Message
        BY <1>1, <1>11, <2>2 DEF At, TypeOK
      <4> QED BY <1>1, <4>1, MessageFields DEF Rows, DeletedIsGone, At
    <3> QED BY <1>3, <1>4, <3>1, Applied, Apart
  <2> QED BY <2>1, <2>2
<1>14. DeletedOnce'
  <2>1. \A q \in Requests : At(q, "204", "delete") /\ Changes(r) => msg[q].project # msg[r].project
    BY <1>1, <1>4, <1>12, Apart DEF Rows, DeletedIsGone
  <2> QED BY <1>1, <1>3, <1>11, <2>1 DEF Rows, DeletedOnce, At
<1> QED BY <1>6, <1>7, <1>8, <1>9, <1>10, <1>13, <1>14 DEF TInv, Pool, Rows
-----------------------------------------------------------------------------

LEMMA NextStep == TInv /\ [Next]_vars => TInv'
<1> SUFFICES ASSUME TInv, [Next]_vars PROVE TInv'
  OBVIOUS
<1>1. ASSUME NEW r \in Requests, NEW m \in Message, Send(r, m) PROVE TInv'
  BY <1>1, SendStep
<1>2. ASSUME NEW r \in Requests, Step(r) \/ BeginFails(r) \/ Fails(r) PROVE TInv'
  <2>1. CASE Begin(r)
    BY <2>1, BeginStep
  <2>2. CASE SetTenant(r)
    BY <2>2, SetTenantStep
  <2>3. CASE BadRequest(r) \/ List(r) \/ ListAudit(r) \/ Get(r) \/ InsertAudit(r)
    BY <2>3, ReadStep
  <2>4. CASE Insert(r)
    BY <2>4, InsertStep
  <2>5. CASE Change(r)
    BY <2>5, ChangeStep
  <2>6. CASE Commit(r)
    BY <2>6, CommitStep
  <2>7. CASE BeginFails(r) \/ Fails(r) \/ CommitRefusal(r)
    BY <2>7, FailsStep
  <2> QED BY <1>2, <2>1, <2>2, <2>3, <2>4, <2>5, <2>6, <2>7 DEF Step
<1>3. CASE UNCHANGED vars
  BY <1>3 DEF vars, tables, pool, TInv, TypeOK, ConnectionsComeBack, InsideHolds, SettingIsTenant, SessionsUnset,
          IdleConnectionsAreClean, Unread, ReadsOwnRows, OwnRowHeld, Changes, NewRow, ProjectsApart,
          DeletedIsGone, DeletedOnce, At
<1> QED BY <1>1, <1>2, <1>3 DEF Next

\* Every connection in use has one request, and every setting, read and pending change
\* is of the tenant of that request: TenantTx keeps the requests of several tenants,
\* which share one pool and one set of tables, apart.
THEOREM Inductive == Spec => []TInv
BY InitStep, NextStep, PTL DEF Spec

\* Whoever reads or changes a project does so in a transaction of their own tenant.
THEOREM TypesHold == Spec => []TypeOK
<1>1. TInv => TypeOK
  BY DEF TInv
<1> QED BY <1>1, Inductive, PTL

\* A connection that is handed on has no tenant set, from whichever path it came back.
THEOREM IdleIsClean == Spec => []IdleConnectionsAreClean
<1>1. TInv => IdleConnectionsAreClean
  BY DEF TInv
<1> QED BY <1>1, Inductive, PTL

\* What a handler reads is of its own tenant, for any interleaving over a shared pool.
THEOREM ReadsAreOwn == Spec => []ReadsOwnRows
<1>1. TInv => ReadsOwnRows
  BY DEF TInv
<1> QED BY <1>1, Inductive, PTL

\* Every path out of TenantTx gives the connection back, with no tenant left on it.
THEOREM PoolIsClean == Spec => [](ConnectionsComeBack /\ IdleConnectionsAreClean)
<1>1. TInv => ConnectionsComeBack /\ IdleConnectionsAreClean
  BY DEF TInv
<1> QED BY <1>1, Inductive, PTL

\* Two DELETEs of the same project are never both answered 204.
THEOREM DeletedByOne == Spec => []DeletedOnce
<1>1. TInv => DeletedOnce
  BY DEF TInv
<1> QED BY <1>1, Inductive, PTL

\* No handler creates, changes or deletes a row of another tenant.
THEOREM WritesAreOwn == Spec => WritesOwnRows
<1> DEFINE Own ==
      \A p \in Projects :
        row'[p] # row[p] \/ writer'[p] # writer[p] =>
          \E r \in Requests :
            /\ pc[r] = "ok" /\ pc'[r] # "ok"
            /\ msg[r].tenant = IF row[p] = None THEN row'[p] ELSE row[p]
<1>1. TInv /\ [Next]_vars => [Own]_vars
  <2> SUFFICES ASSUME TInv, Next, NEW p \in Projects, row'[p] # row[p] \/ writer'[p] # writer[p]
               PROVE  \E r \in Requests :
                        /\ pc[r] = "ok" /\ pc'[r] # "ok"
                        /\ msg[r].tenant = IF row[p] = None THEN row'[p] ELSE row[p]
    OBVIOUS
  <2>1. PICK r \in Requests : Commit(r)
    BY DEF Next, Step, Send, Begin, SetTenant, BadRequest, List, ListAudit, Get, Query, Insert, Change,
           InsertAudit, CommitRefusal, BeginFails, Fails, tables
  <2>2. pc[r] = "ok" /\ Apply(r) /\ msg[r] \in Message
    BY <2>1 DEF Commit, TInv, TypeOK
  <2>3. pc'[r] # "ok"
    BY <2>1 DEF Commit, End, GoTo, OkReply, ErrorReply, TInv, TypeOK
  <2>4. IF msg[r].kind = "create" THEN row[p] = None /\ row'[p] = msg[r].tenant
        ELSE row[p] = msg[r].tenant
    BY <2>2, Applied
  <2>5. msg[r].tenant # None
    BY <2>2, MessageFields, Apart
  <2> QED BY <2>2, <2>3, <2>4, <2>5
<1>2. Spec => [][Own]_vars
  BY <1>1, Inductive, PTL DEF Spec
<1> QED BY <1>2 DEF WritesOwnRows

-----------------------------------------------------------------------------
(* One table, pool and log for all implement a store and a log for each.   *)

Store == [t \in Tenants |-> {p \in Projects : row[p] = t}]
Gone == {p \in Projects : row[p] = "gone"}
Log == [t \in Tenants |-> {r \in Requests : <<t, r>> \in log}]

LEMMA StoresInit == Init => S!Init
BY Apart DEF Init, S!Init, Home

\* A request that has not come has no message, and so no home.
Unsent == \A r \in Requests : pc[r] = "idle" => msg[r] = NoMessage

LEMMA UnsentStep == TypeOK /\ Unsent /\ [Next]_vars => Unsent'
<1> SUFFICES ASSUME TypeOK, Unsent, [Next]_vars, NEW r \in Requests, pc'[r] = "idle"
             PROVE  msg'[r] = NoMessage
  BY DEF Unsent
<1>1. ASSUME NEW q \in Requests, NEW to, to # "idle", GoTo(q, to) PROVE r # q /\ pc[r] = "idle"
  BY <1>1 DEF GoTo, TypeOK
<1>2. CASE UNCHANGED vars
  BY <1>2 DEF vars, Unsent
<1>3. ASSUME NEW q \in Requests, NEW m \in Message, Send(q, m) PROVE msg'[r] = NoMessage
  BY <1>1, <1>3 DEF Send, Unsent, TypeOK
<1>4. ASSUME NEW q \in Requests, Insert(q) PROVE msg'[r] = NoMessage
  BY <1>1, <1>4 DEF Insert, Unsent, TypeOK
<1>5. ASSUME NEW q \in Requests,
             \/ Begin(q) \/ SetTenant(q) \/ BadRequest(q) \/ List(q) \/ ListAudit(q) \/ Get(q) \/ Change(q)
             \/ InsertAudit(q) \/ Commit(q) \/ CommitRefusal(q) \/ BeginFails(q) \/ Fails(q)
      PROVE  msg'[r] = NoMessage
  <2>1. UNCHANGED msg /\ \E to : to # "idle" /\ GoTo(q, to)
    BY <1>5 DEF Begin, SetTenant, BadRequest, List, ListAudit, Get, Query, Change, InsertAudit, Commit,
       CommitRefusal, BeginFails, Fails, End, OkReply, ErrorReply
  <2> QED BY <1>1, <2>1 DEF Unsent
<1> QED BY <1>2, <1>3, <1>4, <1>5 DEF Next, Step

LEMMA HomeOf ==
  ASSUME TypeOK, NEW r \in Requests, pc[r] # "idle"
  PROVE  Home[r] = msg[r].tenant /\ Home[r] \in Tenants
<1>1. msg[r] \in Message /\ NoMessage \notin Message
  BY MessageFields DEF TypeOK, NoMessage, Reads, Writes, None
<1> QED BY <1>1, MessageFields DEF Home

\* A COMMIT of r is a Create, an Update, a Delete or a Note of r in its own tenant.
LEMMA StoresCommit ==
  ASSUME TInv, NEW r \in Requests, Commit(r)
  PROVE  [S!Next]_(S!vars)
<1>1. Rows /\ TypeOK /\ pc[r] = "ok" /\ Apply(r) /\ UNCHANGED <<msg, seen>> /\ Home' = Home
  BY TInvParts DEF Commit, End, Pool, Home
<1>2. PICK t \in Tenants, p \in {msg[r].project} : t = msg[r].tenant /\ p = msg[r].project /\ Home[r] = t /\ t # "gone" /\ t # None
  BY <1>1, HomeOf, Apart
<1>3. \A q \in Projects : row[q] \in Tenants \cup {None, "gone"}
  BY <1>1 DEF TypeOK
<1>4. CASE msg[r].kind = "create"
  <2>1. /\ p \in Projects /\ row[p] = None /\ row' = [row EXCEPT ![p] = t]
        /\ writer' = [writer EXCEPT ![p] = r] /\ log' = log
    BY <1>1, <1>2, <1>4 DEF Apply, Rows, NewRow, At
  <2>2. \A q \in Projects : row'[q] = IF q = p THEN t ELSE row[q]
    BY <1>1, <2>1 DEF TypeOK
  <2>3. p \notin Gone /\ \A u \in Tenants : p \notin Store[u]
    BY <2>1, Apart DEF Gone, Store
  <2>4. Store' = [Store EXCEPT ![t] = @ \cup {p}]
    <3>1. \A u \in Tenants : {q \in Projects : row'[q] = u} =
                               IF u = t THEN {q \in Projects : row[q] = u} \cup {p} ELSE {q \in Projects : row[q] = u}
      BY <1>2, <2>1, <2>2, Apart
    <3> QED BY <3>1 DEF Store
  <2>5. Gone' = Gone /\ Log' = Log
    BY <1>2, <2>1, <2>2, Apart DEF Gone, Log
  <2>6. S!Create(r, t, p)
    BY <1>1, <1>2, <2>1, <2>3, <2>4, <2>5 DEF S!Create, Store, Gone, Log
  <2>7. S!Next
    BY <1>2, <2>1, <2>6 DEF S!Next
  <2> QED BY <2>7
<1>5. CASE msg[r].kind = "update"
  <2>1. /\ p \in Projects /\ row[p] = t /\ row' = row
        /\ writer' = [writer EXCEPT ![p] = r] /\ log' = log
    BY <1>1, <1>2, <1>5, MessageFields DEF Apply, Rows, OwnRowHeld, Changes, TypeOK
  <2>2. S!Update(r, t, p)
    BY <1>1, <1>2, <2>1 DEF S!Update
  <2> QED BY <1>2, <2>1, <2>2 DEF S!Next
<1>6. CASE msg[r].kind = "delete"
  <2>1. /\ p \in Projects /\ row[p] = t /\ row' = [row EXCEPT ![p] = "gone"]
        /\ writer' = writer /\ log' = log
    BY <1>1, <1>2, <1>6, MessageFields DEF Apply, Rows, OwnRowHeld, Changes, TypeOK
  <2>2. \A q \in Projects : row'[q] = IF q = p THEN "gone" ELSE row[q]
    BY <1>1, <2>1 DEF TypeOK
  <2>3. Store' = [Store EXCEPT ![t] = @ \ {p}] /\ Gone' = Gone \cup {p} /\ Log' = Log
    <3>1. \A u \in Tenants : {q \in Projects : row'[q] = u} =
                               IF u = t THEN {q \in Projects : row[q] = u} \ {p} ELSE {q \in Projects : row[q] = u}
      BY <1>2, <2>1, <2>2, Apart
    <3>2. Store' = [Store EXCEPT ![t] = @ \ {p}]
      BY <3>1 DEF Store
    <3>3. Gone' = Gone \cup {p}
      BY <1>2, <2>1, <2>2 DEF Gone
    <3>4. Log' = Log
      BY <2>1 DEF Log
    <3> QED BY <3>2, <3>3, <3>4
  <2>4. S!Delete(r, t, p)
    BY <1>1, <1>2, <2>1, <2>3 DEF S!Delete, Store, Gone, Log
  <2>5. S!Next
    BY <1>2, <2>1, <2>4 DEF S!Next
  <2> QED BY <2>5
<1>7. CASE msg[r].kind = "note"
  <2>1. row' = row /\ writer' = writer /\ log' = log \cup {<<t, r>>}
    BY <1>1, <1>2, <1>7 DEF Apply
  <2>2. Log' = [Log EXCEPT ![t] = @ \cup {r}]
    BY <1>2, <2>1 DEF Log
  <2>3. S!Note(r, t)
    BY <1>1, <1>2, <2>1, <2>2 DEF S!Note, Log
  <2>4. S!Next
    BY <1>2, <2>3 DEF S!Next
  <2> QED BY <2>4
<1>8. CASE msg[r].kind \in Reads
  <2>1. UNCHANGED <<row, writer, log>>
    BY <1>1, <1>8 DEF Apply, Reads
  <2> QED BY <1>1, <2>1 DEF S!vars
<1> QED BY <1>1, <1>4, <1>5, <1>6, <1>7, <1>8, MessageFields DEF Writes, TypeOK

\* A query of r shows rows of its own tenant, of which there are some, or nothing.
LEMMA StoresQuery ==
  ASSUME TInv, NEW r \in Requests, List(r) \/ ListAudit(r) \/ Get(r)
  PROVE  [S!Next]_(S!vars)
<1> DEFINE t == msg[r].tenant
<1>1. Pool /\ Rows /\ TypeOK /\ pc[r] = "ready" /\ UNCHANGED <<row, writer, log, msg>> /\ Home' = Home
  BY TInvParts DEF List, ListAudit, Get, Query, At, tables, Pool, Home
<1>2. Home[r] = t /\ t \in Tenants
  BY <1>1, HomeOf
<1>3. PICK rows, to : /\ Query(r, rows, to)
                      /\ \A u \in rows \cap Tenants : Store[u] # {} \/ Log[u] # {}
  <2>1. CASE List(r)
    <3>1. \A u \in {row[p] : p \in Projects} \ {None, "gone"} : u \in Tenants => Store[u] # {}
      BY DEF Store
    <3> QED BY <2>1, <3>1 DEF List
  <2>2. CASE ListAudit(r)
    <3>1. \A u \in {e[1] : e \in log} : u \in Tenants => Log[u] # {}
      <4> SUFFICES ASSUME NEW e \in log, e[1] \in Tenants PROVE Log[e[1]] # {}
        OBVIOUS
      <4>1. e[2] \in Requests /\ e = <<e[1], e[2]>>
        BY <1>1 DEF TypeOK
      <4> QED BY <4>1 DEF Log
    <3> QED BY <2>2, <3>1 DEF ListAudit
  <2>3. CASE Get(r)
    <3>1. msg[r].project \in Projects
      BY <1>1, <2>3, MessageFields DEF Get, At, TypeOK
    <3>2. \A u \in {row[msg[r].project]} \ {None, "gone"} : u \in Tenants => Store[u] # {}
      BY <3>1 DEF Store
    <3> QED BY <2>3, <3>2 DEF Get
  <2> QED BY <2>1, <2>2, <2>3
<1>4. \A u \in rows : Policy(r, u) => u = t
  BY <1>1 DEF Policy, Pool, SettingIsTenant, Inside
<1>5. CASE \E u \in rows : Policy(r, u)
  <2>1. t \in rows /\ {u \in rows : Policy(r, u)} = {t}
    BY <1>4, <1>5
  <2>2. seen' = [seen EXCEPT ![r] = {t}]
    BY <1>3, <2>1 DEF Query
  <2>3. S!Read(r, t)
    BY <1>1, <1>2, <1>3, <2>1, <2>2 DEF S!Read, Store, Log
  <2> QED BY <1>2, <2>3 DEF S!Next
<1>6. CASE ~\E u \in rows : Policy(r, u)
  <2>1. seen' = [seen EXCEPT ![r] = {}]
    BY <1>3, <1>6 DEF Query
  <2>2. seen[r] = {} /\ seen \in [Requests -> SUBSET Tenants]
    BY <1>1 DEF Rows, Unread, TypeOK
  <2>3. seen' = seen
    BY <2>1, <2>2
  <2> QED BY <1>1, <2>3 DEF S!vars
<1> QED BY <1>5, <1>6

LEMMA StoresStep == TInv /\ Unsent /\ [Next]_vars => [S!Next]_(S!vars)
<1> SUFFICES ASSUME TInv, Unsent, [Next]_vars PROVE [S!Next]_(S!vars)
  OBVIOUS
<1>0. TypeOK
  BY DEF TInv
<1>1. CASE UNCHANGED <<row, writer, log, msg, seen>>
  BY <1>1 DEF S!vars, Home
<1>2. ASSUME NEW r \in Requests, NEW m \in Message, Send(r, m) PROVE [S!Next]_(S!vars)
  <2>1. /\ msg[r] = NoMessage /\ m \in Message /\ m.tenant \in Tenants /\ m # NoMessage
        /\ msg' = [msg EXCEPT ![r] = m] /\ UNCHANGED <<row, writer, log, seen>>
    BY <1>2, MessageFields DEF Send, Unsent, tables, NoMessage, Reads, Writes, None
  <2>2. Home[r] = None /\ Home' = [Home EXCEPT ![r] = m.tenant]
    BY <1>0, <2>1 DEF Home, TypeOK
  <2>3. S!Come(r, m.tenant)
    BY <2>1, <2>2 DEF S!Come
  <2> QED BY <2>1, <2>3 DEF S!Next
<1>3. ASSUME NEW r \in Requests, Insert(r) PROVE [S!Next]_(S!vars)
  <2>1. PICK p \in Projects : msg' = [msg EXCEPT ![r].project = p]
    BY <1>3 DEF Insert
  <2>2. msg[r] \in Message /\ UNCHANGED <<row, writer, log, seen>>
    BY <1>0, <1>3 DEF Insert, At, TypeOK, tables
  <2>3. msg' = [msg EXCEPT ![r] = [msg[r] EXCEPT !.project = p]]
    BY <2>1
  <2>4. /\ [msg[r] EXCEPT !.project = p].tenant = msg[r].tenant
        /\ [msg[r] EXCEPT !.project = p] # NoMessage /\ msg[r] # NoMessage
    BY <2>2 DEF Message, NoMessage, None
  <2>5. Home' = Home
    BY <1>0, <2>3, <2>4 DEF Home, TypeOK
  <2> QED BY <2>2, <2>5 DEF S!vars
<1>4. CASE \E r \in Requests :
             \/ Begin(r) \/ SetTenant(r) \/ BadRequest(r) \/ Change(r) \/ InsertAudit(r)
             \/ CommitRefusal(r) \/ BeginFails(r) \/ Fails(r)
  <2>1. UNCHANGED <<row, writer, log, msg, seen>>
    BY <1>4 DEF Begin, SetTenant, BadRequest, Change, InsertAudit, CommitRefusal, BeginFails, Fails, End, tables
  <2> QED BY <1>1, <2>1
<1>5. CASE UNCHANGED vars
  BY <1>1, <1>5 DEF vars, tables
<1> QED BY <1>2, <1>3, <1>4, <1>5, StoresCommit, StoresQuery DEF Next, Step

\* For any number of tenants, the shared table behaves like a store for each of them.
THEOREM StoresImplemented == Spec => ImplementsStores
<1>1. ImplementsStores <=> S!Init /\ [][S!Next]_(S!vars)
  BY DEF ImplementsStores, S!Spec
<1>2. Init => Unsent
  BY DEF Init, Unsent
<1>3. TInv => TypeOK
  BY DEF TInv
<1>4. Spec => []Unsent
  BY <1>2, <1>3, UnsentStep, Inductive, PTL DEF Spec
<1> QED BY <1>1, <1>4, StoresInit, StoresStep, Inductive, PTL DEF Spec

-----------------------------------------------------------------------------
(* Authority.                                                              *)

LEMMA Constants ==
  TTL \in Nat /\ Delay \in Nat /\ Window \in Nat /\ Actors \subseteq Users /\ NoRole \notin Role
BY AuthorityAssumption DEF Window, NoRole

\* What AuthorityTypeOK says of each actor.
LEMMA ActorTypes ==
  ASSUME AuthorityTypeOK, NEW a \in Actors
  PROVE  /\ \A x \in Role : since[a][x] \in 0..(Window + 1)
         /\ signing[a].role \in Role \cup {NoRole} /\ signing[a].age \in 0..Delay
         /\ token[a].role \in Role \cup {NoRole} /\ token[a].left \in 0..TTL
         /\ req[a].role \in Role \cup {NoRole} /\ req[a].age \in 0..Delay
BY Constants DEF AuthorityTypeOK, Wait

\* What it says of what a request has read.
LEMMA FetchedTypes ==
  ASSUME AuthorityTypeOK, NEW a \in Actors, fetched[a] # NotFetched
  PROVE  fetched[a].user \in Users /\ fetched[a].role \in Role /\ fetched[a].only \in BOOLEAN
BY DEF AuthorityTypeOK

LEMMA InitInv == AuthorityInit => AInv
<1> SUFFICES ASSUME AuthorityInit PROVE AInv
  OBVIOUS
<1> USE Constants DEF AuthorityInit
<1>1. AuthorityTypeOK
  BY DEF AuthorityTypeOK, Wait, Nothing, NoToken
<1>2. NowIsRecent
  BY DEF NowIsRecent
<1>3. SigningIsRecent /\ TokensAreRecent /\ RequestsAreRecent /\ FetchedIsRecent
  BY DEF SigningIsRecent, TokensAreRecent, RequestsAreRecent, FetchedIsRecent, Nothing, NoToken
<1> QED BY <1>1, <1>2, <1>3 DEF AInv

\* A membership that changes makes no history older.
LEMMA SetMembershipInv ==
  ASSUME AInv, NEW u \in Users, NEW role \in Role \cup {NoRole}, SetMembership(u, role)
  PROVE  /\ memb' \in [Users -> Role \cup {NoRole}]
         /\ since' \in [Users -> [Role -> 0..(Window + 1)]]
         /\ NowIsRecent'
         /\ \A v \in Users, x \in Role : since'[v][x] <= since[v][x]
<1> USE Constants DEF AInv, AuthorityTypeOK, SetMembership
<1>1. memb' \in [Users -> Role \cup {NoRole}]
  OBVIOUS
<1>2. CASE role = NoRole
  <2>1. since' = since
    BY <1>2
  <2>2. NowIsRecent'
    BY <1>2, <2>1 DEF NowIsRecent
  <2> QED BY <1>1, <2>1, <2>2
<1>3. CASE role # NoRole
  <2>1. since' = [since EXCEPT ![u][role] = 0] /\ role \in Role
    BY <1>3
  <2>2. \A v \in Users, x \in Role :
          since'[v][x] = IF v = u /\ x = role THEN 0 ELSE since[v][x]
    BY <2>1, <1>3
  <2>3. since' \in [Users -> [Role -> 0..(Window + 1)]]
    BY <2>1, <1>3
  <2>4. NowIsRecent'
    BY <2>2, <1>3 DEF NowIsRecent
  <2> QED BY <1>1, <2>2, <2>3, <2>4
<1> QED BY <1>2, <1>3

\* What a younger history makes of the three facts about roles that are under way.
LEMMA YoungerInv ==
  ASSUME AInv,
         memb' \in [Users -> Role \cup {NoRole}],
         since' \in [Users -> [Role -> 0..(Window + 1)]],
         NowIsRecent',
         \A v \in Users, x \in Role : since'[v][x] <= since[v][x],
         UNCHANGED <<signing, token>>,
         req' \in [Actors -> Wait],
         \A a \in Actors : \/ /\ req'[a] = req[a]
                              /\ fetched'[a] = fetched[a]
                           \/ /\ req'[a] = Nothing
                              /\ fetched'[a] = NotFetched,
         fetched' \in [Actors -> [user : Users, role : Role, only : BOOLEAN] \cup {NotFetched}]
  PROVE  AInv'
<1> USE Constants
<1>1. AuthorityTypeOK'
  BY DEF AInv, AuthorityTypeOK
<1>2. \A v \in Users, x \in Role :
        since[v][x] \in Nat /\ since'[v][x] \in Nat /\ since'[v][x] <= since[v][x]
  BY DEF AInv, AuthorityTypeOK
<1>3. SigningIsRecent'
  <2> SUFFICES ASSUME NEW a \in Actors, signing[a].role # NoRole
               PROVE  since'[a][signing[a].role] <= signing[a].age
    BY DEF SigningIsRecent, Recently
  <2>1. signing[a].role \in Role /\ signing[a].age \in Nat
    BY ActorTypes DEF AInv
  <2>2. since[a][signing[a].role] <= signing[a].age
    BY DEF AInv, SigningIsRecent, Recently
  <2> QED BY <1>2, <2>1, <2>2
<1>4. TokensAreRecent'
  <2> SUFFICES ASSUME NEW a \in Actors, token[a].left > 0
               PROVE  token[a].role # NoRole /\ since'[a][token[a].role] <= TTL - token[a].left + Delay
    BY DEF TokensAreRecent, Recently
  <2>1. token[a].role # NoRole /\ since[a][token[a].role] <= TTL - token[a].left + Delay
    BY DEF AInv, TokensAreRecent, Recently
  <2>2. token[a].role \in Role /\ token[a].left \in 0..TTL
    BY <2>1, ActorTypes DEF AInv
  <2> QED BY <1>2, <2>1, <2>2
<1>5. RequestsAreRecent'
  <2> SUFFICES ASSUME NEW a \in Actors, req'[a].role # NoRole
               PROVE  since'[a][req'[a].role] <= TTL + Delay + req'[a].age
    BY DEF RequestsAreRecent, Recently
  <2>1. req'[a] = req[a]
    BY DEF Nothing
  <2>2. since[a][req[a].role] <= TTL + Delay + req[a].age
    BY <2>1 DEF AInv, RequestsAreRecent, Recently
  <2>3. req[a].role \in Role /\ req[a].age \in Nat
    BY <2>1, ActorTypes DEF AInv
  <2> QED BY <1>2, <2>1, <2>2, <2>3
<1>6. FetchedIsRecent'
  <2> SUFFICES ASSUME NEW a \in Actors, fetched'[a] # NotFetched
               PROVE  /\ req'[a].role # NoRole
                      /\ since'[fetched'[a].user][fetched'[a].role] <= req'[a].age
                      /\ fetched'[a].user # a => RoleAtLeast(req'[a].role, "admin")
    BY DEF FetchedIsRecent, Recently
  <2>1. req'[a] = req[a] /\ fetched'[a] = fetched[a]
    OBVIOUS
  <2>2. /\ req[a].role # NoRole /\ since[fetched[a].user][fetched[a].role] <= req[a].age
        /\ fetched[a].user # a => RoleAtLeast(req[a].role, "admin")
    BY <2>1 DEF AInv, FetchedIsRecent, Recently
  <2>3. fetched[a].user \in Users /\ fetched[a].role \in Role /\ req[a].age \in Nat
    BY <2>1, ActorTypes, FetchedTypes DEF AInv
  <2>4. since'[fetched[a].user][fetched[a].role] <= req[a].age
    BY <1>2, <2>2, <2>3
  <2> QED BY <2>1, <2>2, <2>4
<1> QED BY <1>1, <1>3, <1>4, <1>5, <1>6 DEF AInv

\* Time takes the same from a token as it adds to the history of its role.
LEMMA TickInv ==
  ASSUME AInv, Tick
  PROVE  AInv'
<1> USE Constants
<1>0. AuthorityTypeOK
  BY DEF AInv
<1>1. ASSUME NEW a \in Users, NEW x \in Role
      PROVE  /\ since'[a][x] = IF memb[a] = x THEN 0
                               ELSE IF since[a][x] <= Window THEN since[a][x] + 1 ELSE since[a][x]
             /\ since'[a][x] \in 0..(Window + 1)
             /\ since'[a][x] <= since[a][x] + 1
  <2>1. since'[a][x] = IF memb[a] = x THEN 0
                       ELSE IF since[a][x] <= Window THEN since[a][x] + 1 ELSE since[a][x]
    BY DEF Tick
  <2>2. since[a][x] \in 0..(Window + 1)
    BY <1>0 DEF AuthorityTypeOK
  <2> QED BY <2>1, <2>2
<1>2. ASSUME NEW a \in Actors, NEW w \in Wait, w.role # NoRole => w.age < Delay
      PROVE  /\ Older(w) \in Wait
             /\ Older(w).role = w.role
             /\ w.role # NoRole => Older(w).age = w.age + 1
  BY <1>2 DEF Older, Wait
<1>3. ASSUME NEW a \in Actors
      PROVE  /\ signing'[a] = Older(signing[a]) /\ signing[a] \in Wait
             /\ signing[a].role # NoRole => signing[a].age < Delay
             /\ req'[a] = Older(req[a]) /\ req[a] \in Wait
             /\ req[a].role # NoRole => req[a].age < Delay
  BY <1>0 DEF Tick, AuthorityTypeOK
<1>4. ASSUME NEW a \in Actors
      PROVE  /\ token'[a] \in [role : Role \cup {NoRole}, left : 0..TTL]
             /\ token'[a].role = token[a].role
             /\ token'[a].left > 0 => token[a].left = token'[a].left + 1
  <2>1. token'[a] = IF token[a].left = 0 THEN token[a] ELSE [token[a] EXCEPT !.left = @ - 1]
    BY DEF Tick
  <2>2. token[a] \in [role : Role \cup {NoRole}, left : 0..TTL]
    BY <1>0 DEF AuthorityTypeOK
  <2> QED BY <2>1, <2>2
<1>5. AuthorityTypeOK'
  <2>1. since' \in [Users -> [Role -> 0..(Window + 1)]]
    BY <1>1 DEF Tick
  <2>2. signing' \in [Actors -> Wait] /\ req' \in [Actors -> Wait]
    BY <1>2, <1>3 DEF Tick
  <2>3. token' \in [Actors -> [role : Role \cup {NoRole}, left : 0..TTL]]
    BY <1>4 DEF Tick
  <2> QED BY <1>0, <2>1, <2>2, <2>3 DEF Tick, AuthorityTypeOK
<1>6. NowIsRecent'
  BY <1>0, <1>1 DEF Tick, AuthorityTypeOK, NowIsRecent
<1>7. SigningIsRecent'
  <2> SUFFICES ASSUME NEW a \in Actors, signing'[a].role # NoRole
               PROVE  since'[a][signing'[a].role] <= signing'[a].age
    BY DEF SigningIsRecent, Recently
  <2>1. signing'[a].role = signing[a].role /\ signing'[a].age = signing[a].age + 1
    BY <1>2, <1>3
  <2>2. since[a][signing[a].role] <= signing[a].age
    BY <2>1 DEF AInv, SigningIsRecent, Recently
  <2>3. signing[a].role \in Role /\ signing[a].age \in Nat
    BY <1>0, <2>1, <2>2, ActorTypes
  <2>4. since[a][signing[a].role] \in Nat /\ since'[a][signing[a].role] \in Nat /\ since'[a][signing[a].role] <= since[a][signing[a].role] + 1
    BY <1>0, <1>1, <2>3, ActorTypes
  <2> QED BY <2>1, <2>2, <2>3, <2>4
<1>8. TokensAreRecent'
  <2> SUFFICES ASSUME NEW a \in Actors, token'[a].left > 0
               PROVE  /\ token'[a].role # NoRole
                      /\ since'[a][token'[a].role] <= TTL - token'[a].left + Delay
    BY DEF TokensAreRecent, Recently
  <2>1. token'[a].left \in 0..TTL /\ token[a].left = token'[a].left + 1 /\ token'[a].role = token[a].role
    BY <1>4
  <2>2. token[a].role # NoRole /\ since[a][token[a].role] <= TTL - token[a].left + Delay
    BY <2>1 DEF AInv, TokensAreRecent, Recently
  <2>3. token[a].role \in Role /\ token[a].left \in 0..TTL
    BY <1>0, <2>1, <2>2, ActorTypes
  <2>4. since[a][token[a].role] \in Nat /\ since'[a][token[a].role] \in Nat /\ since'[a][token[a].role] <= since[a][token[a].role] + 1
    BY <1>0, <1>1, <2>3, ActorTypes
  <2> QED BY <2>1, <2>2, <2>3, <2>4
<1>9. RequestsAreRecent'
  <2> SUFFICES ASSUME NEW a \in Actors, req'[a].role # NoRole
               PROVE  since'[a][req'[a].role] <= TTL + Delay + req'[a].age
    BY DEF RequestsAreRecent, Recently
  <2>1. req'[a].role = req[a].role /\ req'[a].age = req[a].age + 1
    BY <1>2, <1>3
  <2>2. since[a][req[a].role] <= TTL + Delay + req[a].age
    BY <2>1 DEF AInv, RequestsAreRecent, Recently
  <2>3. req[a].role \in Role /\ req[a].age \in Nat
    BY <1>0, <2>1, <2>2, ActorTypes
  <2>4. since[a][req[a].role] \in Nat /\ since'[a][req[a].role] \in Nat /\ since'[a][req[a].role] <= since[a][req[a].role] + 1
    BY <1>0, <1>1, <2>3, ActorTypes
  <2> QED BY <2>1, <2>2, <2>3, <2>4
<1>10. FetchedIsRecent'
  <2> SUFFICES ASSUME NEW a \in Actors, fetched[a] # NotFetched
               PROVE  /\ req'[a].role # NoRole
                      /\ since'[fetched[a].user][fetched[a].role] <= req'[a].age
                      /\ fetched[a].user # a => RoleAtLeast(req'[a].role, "admin")
    BY DEF FetchedIsRecent, Recently, Tick
  <2>1. /\ req[a].role # NoRole /\ since[fetched[a].user][fetched[a].role] <= req[a].age
        /\ fetched[a].user # a => RoleAtLeast(req[a].role, "admin")
    BY DEF AInv, FetchedIsRecent, Recently
  <2>2. req'[a].role = req[a].role /\ req'[a].age = req[a].age + 1
    BY <1>2, <1>3, <2>1
  <2>3. fetched[a].user \in Users /\ fetched[a].role \in Role /\ req[a].age \in Nat
    BY <1>0, ActorTypes, FetchedTypes
  <2>4. since[fetched[a].user][fetched[a].role] \in Nat
    BY <1>0, <2>3 DEF AuthorityTypeOK
  <2>5. /\ since'[fetched[a].user][fetched[a].role] \in Nat
        /\ since'[fetched[a].user][fetched[a].role] <= since[fetched[a].user][fetched[a].role] + 1
    BY <1>1, <2>3
  <2> QED BY <2>1, <2>2, <2>3, <2>4, <2>5
<1> QED BY <1>5, <1>6, <1>7, <1>8, <1>9, <1>10 DEF AInv

LEMMA NextInv ==
  ASSUME AInv, [AuthorityNext]_authorityVars
  PROVE  AInv'
<1> USE Constants
<1>1. ASSUME NEW u \in Actors, ReadRole(u) PROVE AInv'
  <2> USE <1>1 DEF ReadRole
  <2>1. AuthorityTypeOK'
    BY DEF AInv, AuthorityTypeOK, Wait
  <2>2. SigningIsRecent'
    BY DEF AInv, AuthorityTypeOK, SigningIsRecent, NowIsRecent, Recently, Wait
  <2>3. NowIsRecent' /\ TokensAreRecent' /\ RequestsAreRecent' /\ FetchedIsRecent'
    BY DEF AInv, NowIsRecent, TokensAreRecent, RequestsAreRecent, FetchedIsRecent, Recently
  <2> QED BY <2>1, <2>2, <2>3 DEF AInv
<1>2. ASSUME NEW u \in Actors, SignAccessToken(u) PROVE AInv'
  <2> USE <1>2 DEF SignAccessToken
  <2>1. AuthorityTypeOK'
    BY DEF AInv, AuthorityTypeOK, Wait, Nothing
  <2>2. SigningIsRecent'
    BY DEF AInv, AuthorityTypeOK, SigningIsRecent, Recently, Wait, Nothing
  <2>3. TokensAreRecent'
    BY DEF AInv, AuthorityTypeOK, SigningIsRecent, TokensAreRecent, Recently, Wait
  <2>4. NowIsRecent' /\ RequestsAreRecent' /\ FetchedIsRecent'
    BY DEF AInv, NowIsRecent, RequestsAreRecent, FetchedIsRecent, Recently
  <2> QED BY <2>1, <2>2, <2>3, <2>4 DEF AInv
<1>3. ASSUME NEW u \in Actors, SigningFails(u) PROVE AInv'
  <2> USE <1>3 DEF SigningFails
  <2>1. AuthorityTypeOK'
    BY DEF AInv, AuthorityTypeOK, Wait, Nothing
  <2>2. SigningIsRecent'
    BY DEF AInv, AuthorityTypeOK, SigningIsRecent, Recently, Wait, Nothing
  <2>3. NowIsRecent' /\ TokensAreRecent' /\ RequestsAreRecent' /\ FetchedIsRecent'
    BY DEF AInv, NowIsRecent, TokensAreRecent, RequestsAreRecent, FetchedIsRecent, Recently
  <2> QED BY <2>1, <2>2, <2>3 DEF AInv
<1>4. ASSUME NEW u \in Actors, Forget(u) PROVE AInv'
  <2> USE <1>4 DEF Forget
  <2>1. AuthorityTypeOK'
    BY DEF AInv, AuthorityTypeOK, NoToken
  <2>2. TokensAreRecent'
    BY DEF AInv, AuthorityTypeOK, TokensAreRecent, Recently, NoToken
  <2>3. NowIsRecent' /\ SigningIsRecent' /\ RequestsAreRecent' /\ FetchedIsRecent'
    BY DEF AInv, NowIsRecent, SigningIsRecent, RequestsAreRecent, FetchedIsRecent, Recently
  <2> QED BY <2>1, <2>2, <2>3 DEF AInv
<1>5. ASSUME NEW u \in Actors, AuthRequired(u) PROVE AInv'
  <2> USE <1>5 DEF AuthRequired
  <2>1. AuthorityTypeOK'
    <3>1. [role |-> token[u].role, age |-> 0] \in Wait
      BY ActorTypes DEF AInv, Wait
    <3>2. NoToken \in [role : Role \cup {NoRole}, left : 0..TTL]
      BY DEF NoToken
    <3>3. req' \in [Actors -> Wait]
      BY <3>1 DEF AInv, AuthorityTypeOK
    <3>4. token' \in [Actors -> [role : Role \cup {NoRole}, left : 0..TTL]]
      BY <3>2 DEF AInv, AuthorityTypeOK
    <3> QED BY <3>3, <3>4 DEF AInv, AuthorityTypeOK
  <2>2. NowIsRecent' /\ SigningIsRecent'
    BY DEF AInv, NowIsRecent, SigningIsRecent, Recently
  <2>3. CASE token[u].left > 0
    <3>1. /\ \A b \in Actors : req'[b] = IF b = u THEN [role |-> token[u].role, age |-> 0] ELSE req[b]
          /\ UNCHANGED token
      BY <2>3 DEF AInv, AuthorityTypeOK
    <3>2. token[u].role \in Role /\ since[u][token[u].role] <= TTL + Delay + 0
      <4>1. token[u].role # NoRole /\ since[u][token[u].role] <= TTL - token[u].left + Delay
        BY <2>3 DEF AInv, TokensAreRecent, Recently
      <4>2. token[u].role \in Role /\ token[u].left \in 0..TTL /\ since[u][token[u].role] \in Nat
        BY <4>1, ActorTypes DEF AInv
      <4> QED BY <2>3, <4>1, <4>2
    <3>3. RequestsAreRecent'
      BY <3>1, <3>2 DEF AInv, RequestsAreRecent, Recently
    <3>4. FetchedIsRecent'
      BY <3>1 DEF AInv, FetchedIsRecent, Recently, Nothing
    <3>5. TokensAreRecent'
      BY <3>1 DEF AInv, TokensAreRecent, Recently
    <3> QED BY <2>1, <2>2, <3>3, <3>4, <3>5 DEF AInv
  <2>4. CASE ~(token[u].left > 0)
    <3>1. /\ \A b \in Actors : token'[b] = IF b = u THEN NoToken ELSE token[b]
          /\ UNCHANGED req
      BY <2>4 DEF AInv, AuthorityTypeOK
    <3>2. TokensAreRecent'
      BY <3>1 DEF AInv, TokensAreRecent, Recently, NoToken
    <3>3. RequestsAreRecent' /\ FetchedIsRecent'
      BY <3>1 DEF AInv, RequestsAreRecent, FetchedIsRecent, Recently
    <3> QED BY <2>1, <2>2, <3>2, <3>3 DEF AInv
  <2> QED BY <2>3, <2>4
<1>6. ASSUME NEW a \in Actors, Answer(a)
      PROVE  /\ req' \in [Actors -> Wait]
             /\ \A b \in Actors : \/ /\ req'[b] = req[b]
                                    /\ fetched'[b] = fetched[b]
                                 \/ /\ req'[b] = Nothing
                                    /\ fetched'[b] = NotFetched
             /\ fetched' \in [Actors -> [user : Users, role : Role, only : BOOLEAN] \cup {NotFetched}]
  BY <1>6 DEF Answer, AInv, AuthorityTypeOK, Wait, Nothing
<1>7. ASSUME NEW a \in Actors, Serve(a) PROVE AInv'
  <2>1. CASE Refuse(a)
    BY <1>6, <2>1, YoungerInv DEF Refuse, AInv, AuthorityTypeOK, NowIsRecent
  <2>2. ASSUME NEW u \in Users, handleRemoveMember(a, u) PROVE AInv'
    BY <1>6, <2>2, SetMembershipInv, YoungerInv DEF handleRemoveMember, SetMembership
  <2>3. ASSUME NEW u \in Users, NEW new \in Role, handleUpdateMember(a, u, new) PROVE AInv'
    BY <1>6, <2>3, SetMembershipInv, YoungerInv DEF handleUpdateMember, SetMembership
  <2>4. ASSUME NEW u \in Users, FetchTarget(a, u) PROVE AInv'
    <3> USE <2>4 DEF FetchTarget
    <3>1. AuthorityTypeOK'
      BY DEF AInv, AuthorityTypeOK
    <3>2. FetchedIsRecent'
      <4>1. memb[u] \in Role /\ since[u][memb[u]] = 0
        BY DEF AInv, AuthorityTypeOK, NowIsRecent
      <4>2. req[a].age \in Nat
        BY ActorTypes DEF AInv
      <4>3. \A b \in Actors : fetched'[b] =
              IF b = a THEN [user |-> u, role |-> memb[u], only |-> Owners = {u}] ELSE fetched[b]
        BY DEF AInv, AuthorityTypeOK
      <4> QED BY <4>1, <4>2, <4>3 DEF AInv, FetchedIsRecent, Recently
    <3>3. NowIsRecent' /\ SigningIsRecent' /\ TokensAreRecent' /\ RequestsAreRecent'
      BY DEF AInv, NowIsRecent, SigningIsRecent, TokensAreRecent, RequestsAreRecent, Recently
    <3> QED BY <3>1, <3>2, <3>3 DEF AInv
  <2> QED BY <1>7, <2>1, <2>2, <2>3, <2>4 DEF Serve
<1>8. ASSUME NEW u \in Users, NEW role \in Role, Join(u, role) PROVE AInv'
  BY <1>8, SetMembershipInv, YoungerInv DEF Join, SetMembership, AInv, AuthorityTypeOK
<1>9. CASE UNCHANGED authorityVars
  BY <1>9 DEF authorityVars, AInv, AuthorityTypeOK, NowIsRecent, SigningIsRecent, TokensAreRecent, RequestsAreRecent,
              FetchedIsRecent, Recently
<1> QED BY <1>1, <1>2, <1>3, <1>4, <1>5, <1>7, <1>8, <1>9, TickInv DEF AuthorityNext

LEMMA InvHolds == AuthoritySpec => []AInv
BY InitInv, NextInv, PTL DEF AuthoritySpec

\* Values keep to their types, whatever the lifetime and the delay.
THEOREM AuthorityTypesHold == AuthoritySpec => []AuthorityTypeOK
<1>1. AInv => AuthorityTypeOK
  BY DEF AInv
<1> QED BY <1>1, InvHolds, PTL

\* No chain of logins, refreshes and switches carries a role on.
THEOREM TokensStayRecent == AuthoritySpec => []TokensAreRecent
<1>1. AInv => TokensAreRecent
  BY DEF AInv
<1> QED BY <1>1, InvHolds, PTL

\* Who has had no role for Window ticks has no token that is good, no token to come and
\* no request under way, whatever the lifetime and the delay.
THEOREM RemovalsTakeEffect == AuthoritySpec => []RemovalTakesEffect
<1>1. AInv => RemovalTakesEffect
  <2> SUFFICES ASSUME AInv, NEW u \in Actors, \A role \in Role : ~Recently(u, role, Window)
               PROVE  token[u].left = 0 /\ signing[u].role = NoRole /\ req[u].role = NoRole
    BY DEF RemovalTakesEffect
  <2> USE Constants
  <2>1. \A role \in Role : since[u][role] \in Nat /\ since[u][role] > TTL + 2 * Delay
    BY DEF AInv, AuthorityTypeOK, Recently, Window
  <2>2. token[u].left = 0
    <3>1. token[u].left \in 0..TTL /\ token[u].role \in Role \cup {NoRole}
      BY DEF AInv, AuthorityTypeOK
    <3>2. token[u].left > 0 =>
            token[u].role \in Role /\ since[u][token[u].role] <= TTL - token[u].left + Delay
      BY <3>1 DEF AInv, TokensAreRecent, Recently
    <3> QED BY <2>1, <3>1, <3>2
  <2>3. signing[u].role = NoRole
    <3>1. signing[u].role \in Role \cup {NoRole} /\ signing[u].age \in 0..Delay
      BY DEF AInv, AuthorityTypeOK, Wait
    <3>2. signing[u].role # NoRole => since[u][signing[u].role] <= signing[u].age
      BY DEF AInv, SigningIsRecent, Recently
    <3> QED BY <2>1, <3>1, <3>2
  <2>4. req[u].role = NoRole
    <3>1. req[u].role \in Role \cup {NoRole} /\ req[u].age \in 0..Delay
      BY DEF AInv, AuthorityTypeOK, Wait
    <3>2. req[u].role # NoRole => since[u][req[u].role] <= TTL + Delay + req[u].age
      BY DEF AInv, RequestsAreRecent, Recently
    <3> QED BY <2>1, <3>1, <3>2
  <2> QED BY <2>2, <2>3, <2>4
<1> QED BY <1>1, InvHolds, PTL

\* The step behind it: who acts, and on what roles.
LEMMA StepIsBacked ==
  ASSUME AInv, AuthorityNext, NEW u \in Users, memb'[u] # memb[u], memb[u] # NoRole
  PROVE  \/ u \in Actors /\ memb'[u] = NoRole /\ req[u].role # NoRole
         \/ \E a \in Actors \ {u}, role \in Role :
              /\ req[a] # req'[a]
              /\ Recently(a, role, Window)
              /\ IF memb'[u] # NoRole THEN MayUpdate(role, memb'[u])
                 ELSE \E old \in Role : Recently(u, old, Delay) /\ MayRemove(role, old)
<1> USE Constants
<1>1. PICK a \in Actors, v \in Users :
        \/ handleRemoveMember(a, v)
        \/ \E new \in Role : handleUpdateMember(a, v, new)
  BY DEF AuthorityNext, Serve, FetchTarget, Refuse, ReadRole, SignAccessToken, SigningFails, Forget,
         AuthRequired, Join, SetMembership, Tick, AInv, AuthorityTypeOK
<1>2. u = v
  BY <1>1 DEF handleRemoveMember, handleUpdateMember, SetMembership, AInv, AuthorityTypeOK
<1>3. fetched[a] # NotFetched /\ fetched[a].user = u
  BY <1>1, <1>2 DEF handleRemoveMember, handleUpdateMember
<1>4. req[a].role \in Role /\ req[a].age \in 0..Delay
  BY <1>3, ActorTypes DEF AInv, FetchedIsRecent
<1>5. Recently(a, req[a].role, Window)
  <2>1. since[a][req[a].role] \in Nat
    BY <1>4, ActorTypes DEF AInv
  <2> QED BY <2>1, <1>4 DEF AInv, RequestsAreRecent, Recently, Window
<1>6. fetched[a].role \in Role /\ Recently(u, fetched[a].role, Delay)
  <2>1. fetched[a].role \in Role /\ since[u][fetched[a].role] <= req[a].age
    BY <1>3, FetchedTypes DEF AInv, FetchedIsRecent, Recently
  <2>2. since[u][fetched[a].role] \in Nat
    BY <2>1 DEF AInv, AuthorityTypeOK
  <2> QED BY <1>4, <2>1, <2>2 DEF Recently
<1>7. req[a] # req'[a]
  <2>1. req'[a].role = NoRole
    BY <1>1 DEF handleRemoveMember, handleUpdateMember, Answer, Nothing, AInv, AuthorityTypeOK
  <2> QED BY <2>1, <1>4
<1>8. CASE handleRemoveMember(a, v)
  <2>1. memb'[u] = NoRole
    BY <1>2, <1>8 DEF handleRemoveMember, SetMembership, AInv, AuthorityTypeOK
  <2>2. CASE a = u
    BY <1>4, <2>1, <2>2
  <2>3. CASE a # u
    <3>1. MayRemove(req[a].role, fetched[a].role)
      BY <1>2, <1>8, <2>3 DEF handleRemoveMember
    <3> QED BY <1>4, <1>5, <1>6, <1>7, <2>1, <2>3, <3>1
  <2> QED BY <2>2, <2>3
<1>9. ASSUME NEW new \in Role, handleUpdateMember(a, v, new)
      PROVE  a # u /\ memb'[u] = new /\ MayUpdate(req[a].role, new)
  BY <1>2, <1>9 DEF handleUpdateMember, SetMembership, AInv, AuthorityTypeOK
<1> QED BY <1>1, <1>4, <1>5, <1>7, <1>8, <1>9

\* Whoever changes the membership of another has held, within the lifetime of an access
\* token and twice the delay of a handler, a role that allows it for a role the target
\* had within that delay, whatever the lifetime and the delay.
THEOREM ChangesStayBacked == AuthoritySpec => ChangesAreBacked
<1>1. AInv /\ [AuthorityNext]_authorityVars =>
        [\A u \in Users : memb'[u] # memb[u] /\ memb[u] # NoRole =>
           \/ u \in Actors /\ memb'[u] = NoRole /\ req[u].role # NoRole
           \/ \E a \in Actors \ {u}, role \in Role :
                /\ req[a] # req'[a]
                /\ Recently(a, role, Window)
                /\ IF memb'[u] # NoRole THEN MayUpdate(role, memb'[u])
                   ELSE \E old \in Role : Recently(u, old, Delay) /\ MayRemove(role, old)]_authorityVars
  BY StepIsBacked
<1> QED BY <1>1, InvHolds, PTL DEF AuthoritySpec, ChangesAreBacked

================================================================================
