------------------------------- MODULE Tenancy -------------------------------
(***************************************************************************)
(* Tenant isolation: TenantTx, the pool it draws on and the row level      *)
(* security it switches on, with the handlers that rely on nothing else:   *)
(* the projects (handlers_projects.go), the audit log (handlers_audit.go)  *)
(* and the audit events of handlers outside TenantTx (writeAuditDirect).   *)
(* Roles and the other errors of TenantTx are in Members.                  *)
(*                                                                         *)
(* PostgreSQL: READ COMMITTED; an UPDATE or DELETE waits for the           *)
(* transaction that holds the row, then looks at the row again.  A         *)
(* setting made with is_local = true lasts until the transaction ends.     *)
(***************************************************************************)
EXTENDS Naturals, FiniteSets

CONSTANTS
  Tenants,
  Projects,    \* the projects that can be created
  Requests,    \* the requests, each sent once
  Kinds,       \* what they ask for, of Reads and Writes
  Conns        \* the connections of the pool

None == "none"
ASSUME NoneAssumption == None \notin Tenants \cup Conns \cup Projects /\ "gone" \notin Tenants

VARIABLES
  row,        \* projects.tenant_id; None before and "gone" after the row
  writer,     \* each project: whose INSERT or UPDATE its columns are from
  log,        \* audit_events: tenant_id, and the request it is from
  setting,    \* each connection: app.tenant_id
  session,    \* each connection: what app.tenant_id is outside transactions
  conn,       \* each request: the connection it holds
  pc, msg,    \* each request: progress, and what it asks for
  hit,        \* each request: its statement found the row, and holds it
  seen        \* each request: tenant_id of the rows it has read

tables == <<row, writer, log>>
pool == <<setting, session, conn>>
vars == <<tables, pool, pc, msg, hit, seen>>

Reply == {"200", "201", "204", "400", "404", "500"}

\* "begun" in a transaction, "ready" with app.tenant_id set, and "ok" or "refused"
\* when the handler has written its answer and COMMIT comes next.
Inside == {"begun", "ready", "ok", "refused", "invalid"}
Pc == {"idle", "sent"} \cup Inside \cup Reply

\* "note" is a handler whose audit event writeAuditDirect inserts; "audit" is GET /audit.
Reads == {"list", "get", "audit"}
Writes == {"create", "update", "delete", "note"}

Message ==
  [kind : {"list", "audit", "create", "note"}, tenant : Tenants, project : Projects \cup {None}]
    \cup [kind : {"get", "update", "delete"}, tenant : Tenants, project : Projects]
NoMessage == [kind |-> None]

\* A connection belongs to the pool, and what is read has a tenant.
TypeOK ==
  /\ row \in [Projects -> Tenants \cup {None, "gone"}]
  /\ writer \in [Projects -> Requests \cup {None}]
  /\ log \subseteq Tenants \X Requests
  /\ setting \in [Conns -> Tenants \cup {None}]
  /\ session \in [Conns -> Tenants \cup {None}]
  /\ conn \in [Requests -> Conns \cup {None}]
  /\ pc \in [Requests -> Pc]
  /\ msg \in [Requests -> Message \cup {NoMessage}]
  /\ \A r \in Requests : pc[r] # "idle" => msg[r] \in Message
  /\ hit \in [Requests -> BOOLEAN]
  /\ seen \in [Requests -> SUBSET Tenants]

Init ==
  /\ row = [p \in Projects |-> None]
  /\ writer = [p \in Projects |-> None]
  /\ log = {}
  /\ setting = [c \in Conns |-> None]
  /\ session = [c \in Conns |-> None]
  /\ conn = [r \in Requests |-> None]
  /\ pc = [r \in Requests |-> "idle"]
  /\ msg = [r \in Requests |-> NoMessage]
  /\ hit = [r \in Requests |-> FALSE]
  /\ seen = [r \in Requests |-> {}]

-----------------------------------------------------------------------------

GoTo(r, to) == pc' = [pc EXCEPT ![r] = to]
At(r, where, kind) == pc[r] = where /\ msg[r].kind = kind

\* The claims of the access token give the tenant; a project id may be any.  The
\* bound: no more requests to create than projects left for them.
Send(r, m) ==
  /\ pc[r] = "idle" /\ m.kind \in Kinds
  /\ m.kind \in {"list", "audit", "create", "note"} => m.project = None
  /\ m.kind = "create" =>
       Cardinality({q \in Requests : msg[q].kind = "create"}) < Cardinality(Projects)
  /\ GoTo(r, "sent")
  /\ msg' = [msg EXCEPT ![r] = m]
  /\ UNCHANGED <<tables, pool, hit, seen>>

\* What its client gets when something fails: writeAuditDirect drops its errors.
ErrorReply(r) == IF msg[r].kind = "note" THEN "204" ELSE "500"

Begin(r) ==
  /\ pc[r] = "sent"
  /\ \E c \in Conns :
       /\ \A q \in Requests : conn[q] # c
       /\ conn' = [conn EXCEPT ![r] = c]
  /\ GoTo(r, "begun")
  /\ UNCHANGED <<tables, setting, session, msg, hit, seen>>

BeginFails(r) ==
  /\ pc[r] = "sent"
  /\ GoTo(r, ErrorReply(r))
  /\ UNCHANGED <<tables, pool, msg, hit, seen>>

\* Deviation: is_local = false.
SetTenantKept(r) ==
  /\ pc[r] = "begun"
  /\ setting' = [setting EXCEPT ![conn[r]] = msg[r].tenant]
  /\ session' = [session EXCEPT ![conn[r]] = msg[r].tenant]
  /\ GoTo(r, "ready")
  /\ UNCHANGED <<tables, conn, msg, hit, seen>>

SetTenant(r) ==
  /\ pc[r] = "begun"
  /\ setting' = [setting EXCEPT ![conn[r]] = msg[r].tenant]
  /\ GoTo(r, "ready")
  /\ UNCHANGED <<tables, session, conn, msg, hit, seen>>

\* The transaction ends, and the connection goes back to the pool.
End(r, reply) ==
  /\ setting' = [setting EXCEPT ![conn[r]] = session[conn[r]]]
  /\ conn' = [conn EXCEPT ![r] = None]
  /\ GoTo(r, reply)
  /\ UNCHANGED <<session, msg, hit, seen>>

\* Deviation: the ROLLBACK for a set_config that failed is missing.
FailsLeaking(r) ==
  /\ pc[r] \in {"begun", "ready", "ok"}
  /\ IF pc[r] = "begun" THEN GoTo(r, ErrorReply(r)) /\ UNCHANGED <<pool, msg, hit, seen>>
     ELSE End(r, ErrorReply(r))
  /\ UNCHANGED tables

\* A statement or COMMIT fails, and the transaction is rolled back.
Fails(r) ==
  /\ pc[r] \in {"begun", "ready", "ok"}
  /\ End(r, ErrorReply(r))
  /\ UNCHANGED tables

-----------------------------------------------------------------------------
(* The statements.  The policies on projects and audit_events show a row   *)
(* of tenant t, and let one be inserted, if app.tenant_id is t.            *)

\* Deviation: the API connects as the owner of the tables, whom no policy binds.
PolicyOfOwner(r, t) == t # None

Policy(r, t) == setting[conn[r]] = t

Locked(p) ==
  \E q \in Requests : pc[q] = "ok" /\ hit[q] /\ msg[q].kind \in {"update", "delete"} /\ msg[q].project = p

\* The body has no name.
BadRequest(r) ==
  /\ At(r, "ready", "create") \/ At(r, "ready", "update")
  /\ GoTo(r, "invalid")
  /\ UNCHANGED <<tables, pool, msg, hit, seen>>

Query(r, rows, to) ==
  /\ seen' = [seen EXCEPT ![r] = {t \in rows : Policy(r, t)}]
  /\ GoTo(r, to)
  /\ UNCHANGED <<tables, pool, msg, hit>>

List(r) ==
  /\ At(r, "ready", "list")
  /\ Query(r, {row[p] : p \in Projects} \ {None, "gone"}, "ok")

ListAudit(r) ==
  /\ At(r, "ready", "audit")
  /\ Query(r, {e[1] : e \in log}, "ok")

\* Deviation: ErrNoRows is not looked at.
GetUnchecked(r) ==
  /\ At(r, "ready", "get")
  /\ seen' = [seen EXCEPT ![r] = {row[msg[r].project]}]
  /\ GoTo(r, "ok")
  /\ UNCHANGED <<tables, pool, msg, hit>>

\* A row that the policy hides is like one that is not there.
Get(r) ==
  /\ At(r, "ready", "get")
  /\ LET t == row[msg[r].project] IN
     Query(r, {t} \ {None, "gone"}, IF t # None /\ Policy(r, t) THEN "ok" ELSE "refused")

Insert(r) ==
  /\ At(r, "ready", "create")
  /\ Policy(r, msg[r].tenant)
  /\ \E p \in Projects :
       /\ row[p] = None
       /\ \A q \in Requests : msg[q].kind = "create" => msg[q].project # p
       /\ msg' = [msg EXCEPT ![r].project = p]
  /\ GoTo(r, "ok")
  /\ UNCHANGED <<tables, pool, hit, seen>>

\* Deviation: RowsAffected is not looked at.
ChangeUnchecked(r) ==
  /\ At(r, "ready", "update") \/ At(r, "ready", "delete")
  /\ ~Locked(msg[r].project)
  /\ hit' = [hit EXCEPT ![r] = row[msg[r].project] # None /\ Policy(r, row[msg[r].project])]
  /\ GoTo(r, "ok")
  /\ UNCHANGED <<tables, pool, msg, seen>>

\* Deviation: a policy for UPDATE and DELETE that says USING (true).
ChangeUnscoped(r) ==
  /\ At(r, "ready", "update") \/ At(r, "ready", "delete")
  /\ ~Locked(msg[r].project)
  /\ LET found == row[msg[r].project] \notin {None, "gone"} IN
     /\ hit' = [hit EXCEPT ![r] = found]
     /\ GoTo(r, IF found THEN "ok" ELSE "refused")
  /\ UNCHANGED <<tables, pool, msg, seen>>

\* UPDATE or DELETE, and whether RowsAffected is 0.
Change(r) ==
  /\ At(r, "ready", "update") \/ At(r, "ready", "delete")
  /\ ~Locked(msg[r].project)
  /\ LET found == row[msg[r].project] # None /\ Policy(r, row[msg[r].project]) IN
     /\ hit' = [hit EXCEPT ![r] = found]
     /\ GoTo(r, IF found THEN "ok" ELSE "refused")
  /\ UNCHANGED <<tables, pool, msg, seen>>

InsertAudit(r) ==
  /\ At(r, "ready", "note")
  /\ Policy(r, msg[r].tenant)
  /\ GoTo(r, "ok")
  /\ UNCHANGED <<tables, pool, msg, hit, seen>>

-----------------------------------------------------------------------------

\* What becomes visible when the transaction of r commits.
Apply(r) ==
  LET m == msg[r] IN
  /\ row' = CASE m.kind = "create"            -> [row EXCEPT ![m.project] = m.tenant]
              [] m.kind = "delete" /\ hit[r]  -> [row EXCEPT ![m.project] = "gone"]
              [] OTHER                        -> row
  /\ writer' = IF m.kind = "create" \/ (m.kind = "update" /\ hit[r])
               THEN [writer EXCEPT ![m.project] = r] ELSE writer
  /\ log' = IF m.kind = "note" THEN log \cup {<<m.tenant, r>>} ELSE log

OkReply(r) ==
  CASE msg[r].kind \in Reads    -> "200"
    [] msg[r].kind = "create"   -> "201"
    [] OTHER                    -> "204"

\* The answer to COMMIT may be lost.
Commit(r) ==
  /\ pc[r] = "ok"
  /\ Apply(r)
  /\ \E reply \in {OkReply(r), ErrorReply(r)} : End(r, reply)

\* After a refusal there is nothing to commit, and the refusal stands if COMMIT fails.
CommitRefusal(r) ==
  /\ pc[r] \in {"refused", "invalid"}
  /\ End(r, IF pc[r] = "refused" THEN "404" ELSE "400")
  /\ UNCHANGED tables

-----------------------------------------------------------------------------

Step(r) ==
  \/ Begin(r) \/ SetTenant(r)
  \/ BadRequest(r) \/ List(r) \/ ListAudit(r) \/ Get(r) \/ Insert(r) \/ Change(r) \/ InsertAudit(r)
  \/ Commit(r) \/ CommitRefusal(r)

Next ==
  \/ \E r \in Requests, m \in Message : Send(r, m)
  \/ \E r \in Requests : Step(r) \/ BeginFails(r) \/ Fails(r)

Spec == Init /\ [][Next]_vars

\* Handlers go on, and nobody is passed over for ever in the queues for a connection
\* (pgxpool) or a row (PostgreSQL), both of which are served in turn.
FairSpec ==
  Spec /\ \A r \in Requests : WF_vars(Step(r)) /\ SF_vars(Begin(r)) /\ SF_vars(Change(r))

-----------------------------------------------------------------------------
(* Properties.                                                             *)

\* Nobody reads a row of another tenant, whatever ids they send and whoever used the
\* connection before: the handlers have no WHERE on the tenant of their own.
ReadsOwnRows == \A r \in Requests : seen[r] # {} => seen[r] = {msg[r].tenant}

\* Nobody creates, changes or deletes a row of another tenant.
WritesOwnRows ==
  [][\A p \in Projects :
       row'[p] # row[p] \/ writer'[p] # writer[p] =>
         \E r \in Requests :
           /\ pc[r] = "ok" /\ pc'[r] # "ok"
           /\ msg[r].tenant = IF row[p] = None THEN row'[p] ELSE row[p]]_vars

\* A connection in the pool has no tenant left on it.
IdleConnectionsAreClean ==
  \A c \in Conns : (\A r \in Requests : conn[r] # c) => setting[c] = None

\* Of several requests that delete a project, one at most hears 204.
DeletedOnce ==
  \A q, r \in Requests :
    At(q, "204", "delete") /\ At(r, "204", "delete") /\ msg[q].project = msg[r].project => q = r

\* Every path out of TenantTx and writeAuditDirect gives the connection back: only a
\* request inside its transaction holds one, and no two hold the same.
ConnectionsComeBack ==
  \A r \in Requests : conn[r] # None =>
    /\ pc[r] \in Inside
    /\ \A q \in Requests : conn[q] = conn[r] => q = r

\* Every request is answered, however many more want the connections and the rows: who
\* waits for a row holds a connection, and who holds the row needs no other.
EveryoneIsAnswered == \A r \in Requests : pc[r] = "sent" ~> pc[r] \in Reply

\* One table for all behaves like a store for each (TenantStores): a request works in
\* the projects and the log of its own tenant, ids are not used again, and what COMMIT
\* makes visible was made by one request.
Home == [r \in Requests |-> IF msg[r] = NoMessage THEN None ELSE msg[r].tenant]
S == INSTANCE TenantStores WITH
       Nobody <- None, home <- Home,
       store <- [t \in Tenants |-> {p \in Projects : row[p] = t}],
       gone <- {p \in Projects : row[p] = "gone"},
       log <- [t \in Tenants |-> {r \in Requests : <<t, r>> \in log}]
ImplementsStores == S!Spec

-----------------------------------------------------------------------------
(* The inductive invariant behind all of them.                              *)

\* A request inside its transaction has a connection, whose setting is its tenant
\* from set_config on.
InsideHolds == \A r \in Requests : pc[r] \in Inside => conn[r] # None
SettingIsTenant ==
  \A r \in Requests : pc[r] \in Inside \ {"begun"} => setting[conn[r]] = msg[r].tenant
SessionsUnset == \A c \in Conns : session[c] = None

Unread ==
  \A r \in Requests : pc[r] \in {"idle", "sent", "begun", "ready"} => seen[r] = {}

\* r is about to commit a change of a row that is there.
Changes(r) == pc[r] = "ok" /\ msg[r].kind \in {"update", "delete"}

\* Who commits an UPDATE or DELETE has found a row of its own tenant, and nobody else
\* holds it.
OwnRowHeld ==
  \A r \in Requests : Changes(r) =>
    /\ hit[r] /\ row[msg[r].project] = msg[r].tenant
    /\ \A q \in Requests : Changes(q) /\ msg[q].project = msg[r].project => q = r

\* A row that is about to be committed for the first time is not there yet, and no two
\* requests create the same.
NewRow ==
  \A r \in Requests : At(r, "ok", "create") => msg[r].project \in Projects /\ row[msg[r].project] = None
ProjectsApart ==
  \A q, r \in Requests :
    msg[q].kind = "create" /\ msg[r].kind = "create" /\ msg[q].project = msg[r].project
      => q = r \/ msg[r].project = None

DeletedIsGone ==
  \A r \in Requests : At(r, "204", "delete") => row[msg[r].project] = "gone"

\* The isolation invariant: every connection in use has one request, and the tenant of
\* that request; every pending change is of a row of that tenant.
TInv ==
  /\ TypeOK
  /\ ConnectionsComeBack /\ InsideHolds /\ SettingIsTenant /\ SessionsUnset /\ IdleConnectionsAreClean
  /\ Unread /\ ReadsOwnRows
  /\ OwnRowHeld /\ NewRow /\ ProjectsApart /\ DeletedIsGone /\ DeletedOnce

=============================================================================
