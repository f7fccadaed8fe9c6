------------------------------- MODULE Members -------------------------------
(***************************************************************************)
(* The membership table of one tenant under concurrent PATCH and DELETE    *)
(* /members/:uid requests (handlers_members.go), each served inside the    *)
(* transaction that TenantTx opens on a connection of the pool.            *)
(*                                                                         *)
(* PostgreSQL is at READ COMMITTED, the default the code never changes: a  *)
(* statement reads what is committed when it runs, and an UPDATE or DELETE *)
(* waits for the transaction that holds the row and then looks at the row  *)
(* again.  So every statement is a step of its own, and between two of     *)
(* them any other request may commit.                                      *)
(***************************************************************************)
EXTENDS Integers, FiniteSets

CONSTANTS Users,      \* the users of the system, members of the tenant or not
          Requests,   \* the requests to /members/:uid, each served once
          MaxConns,   \* connections of the pool (db.go: 20)
          NewRoles    \* the values of "role" a PATCH may ask for

Role == {"viewer", "member", "admin", "owner"}
NoRole == "none"      \* no row in memberships
RoleOrNone == Role \cup {NoRole}

ASSUME UsersAssumption == IsFiniteSet(Users)
ASSUME RequestsAssumption == IsFiniteSet(Requests)
ASSUME PoolAssumption == MaxConns \in Nat \ {0}
ASSUME NewRolesAssumption == NewRoles \subseteq Role

roleWeight == [viewer |-> 1, member |-> 2, admin |-> 3, owner |-> 4]
RoleAtLeast(have, need) == roleWeight[have] >= roleWeight[need]

VARIABLES
  memb,       \* committed memberships: user -> role, or NoRole
  audit,      \* committed rows of audit_events
  claim,      \* role in the unexpired access token of each user, or NoRole
  pc,         \* how far the server is with each request
  msg,        \* each request: who asks, with which claimed role, for what
  tx,         \* each request: what its handler saw and its transaction holds
  overlapped  \* history: two of the transactions were once open together

vars == <<memb, audit, claim, pc, msg, tx, overlapped>>

Inside == {"begun", "count", "write", "audit", "commit"}
Pc == {"idle", "sent", "done"} \cup Inside

Refused == {"400", "403", "404", "409"}
Reply == {"none", "204", "500"} \cup Refused

(***************************************************************************)
(* role is the new role, NoRole for a DELETE: also what the row becomes.   *)
(***************************************************************************)
NoMessage == [op |-> "none"]
Message == [op : {"update"}, actor : Users, claim : Role, target : Users, role : NewRoles]
             \cup [op : {"remove"}, actor : Users, claim : Role, target : Users, role : {NoRole}]

(***************************************************************************)
(* seen: the target's role the handler read; touched: its UPDATE or DELETE *)
(* found the row and holds it; logged: the audit row is inserted; aborted: *)
(* a statement failed, so COMMIT will; reply: the status set or sent.      *)
(***************************************************************************)
Transaction == [seen : RoleOrNone, touched : BOOLEAN, logged : BOOLEAN,
                aborted : BOOLEAN, reply : Reply]
Fresh == [seen |-> NoRole, touched |-> FALSE, logged |-> FALSE,
          aborted |-> FALSE, reply |-> "none"]

Event == [req : Requests, actor : Users, target : Users, old : Role, new : RoleOrNone]

\* A request in progress has a message, and everything else stays in its range.
TypeOK ==
  /\ memb \in [Users -> RoleOrNone]
  /\ audit \subseteq Event
  /\ claim \in [Users -> RoleOrNone]
  /\ pc \in [Requests -> Pc]
  /\ msg \in [Requests -> Message \cup {NoMessage}]
  /\ \A r \in Requests : pc[r] # "idle" => msg[r] \in Message
  /\ tx \in [Requests -> Transaction]
  /\ overlapped \in BOOLEAN

Owners(m) == {u \in Users : m[u] = "owner"}

\* Deviation: no connection comes back to the pool.
OpenForGood == {r \in Requests : pc[r] \in Inside \cup {"done"}}

Open == {r \in Requests : pc[r] \in Inside}

(***************************************************************************)
(* What a finished tenant looks like before the requests arrive: somebody  *)
(* owns it (registration makes its first user the owner), and the access   *)
(* tokens in circulation were signed for the roles of now.                 *)
(***************************************************************************)
Init ==
  /\ memb \in [Users -> RoleOrNone]
  /\ Owners(memb) # {}
  /\ audit = {}
  /\ claim = memb
  /\ pc = [r \in Requests |-> "idle"]
  /\ msg = [r \in Requests |-> NoMessage]
  /\ tx = [r \in Requests |-> Fresh]
  /\ overlapped = FALSE

-----------------------------------------------------------------------------
(* The rest of the system, as far as it touches these tables.              *)

\* Login, refresh and switch sign a token for the role the row has now.
Sign(u) ==
  /\ memb[u] # NoRole
  /\ claim' = [claim EXCEPT ![u] = memb[u]]
  /\ UNCHANGED <<memb, audit, pc, msg, tx, overlapped>>

\* The access token lives 15 minutes.
Expire(u) ==
  /\ claim' = [claim EXCEPT ![u] = NoRole]
  /\ UNCHANGED <<memb, audit, pc, msg, tx, overlapped>>

Holds(r, u) == tx[r].touched /\ msg[r].target = u /\ pc[r] \in Inside

\* An accepted invite inserts a row; the unique index makes it wait for an
\* open DELETE of the user's old row.
Join(u, role) ==
  /\ memb[u] = NoRole
  /\ \A r \in Requests : ~Holds(r, u)
  /\ memb' = [memb EXCEPT ![u] = role]
  /\ UNCHANGED <<audit, claim, pc, msg, tx, overlapped>>

-----------------------------------------------------------------------------
(* One request.                                                            *)

GoTo(r, to) == pc' = [pc EXCEPT ![r] = to]

\* The handler sets a status and returns nil: TenantTx goes on to COMMIT.
Respond(r, status) ==
  /\ GoTo(r, "commit")
  /\ tx' = [tx EXCEPT ![r].reply = status]

\* The request is over: its connection returns to the pool.
Finish(r, status) ==
  /\ GoTo(r, "done")
  /\ tx' = [tx EXCEPT ![r].reply = status]

\* AuthRequired accepted the access token and takes user and role from it.
Send(r, m) ==
  /\ pc[r] = "idle"
  /\ m.claim = claim[m.actor]
  /\ GoTo(r, "sent")
  /\ msg' = [msg EXCEPT ![r] = m]
  /\ UNCHANGED <<memb, audit, claim, tx, overlapped>>

\* TenantTx: BEGIN and set_config on a connection, waiting for a free one.
Begin(r) ==
  /\ pc[r] = "sent"
  /\ Cardinality(Open) < MaxConns
  /\ overlapped' = (overlapped \/ Open # {})
  /\ GoTo(r, "begun")
  /\ UNCHANGED <<memb, audit, claim, msg, tx>>

\* No connection to the database, or BEGIN fails.
BeginFails(r) ==
  /\ pc[r] = "sent"
  /\ Finish(r, "500")
  /\ UNCHANGED <<memb, audit, claim, msg, overlapped>>

\* RequireRole("admin") and the checks of handleUpdateMember before its SELECT.
MayUpdate(m) ==
  /\ RoleAtLeast(m.claim, "admin")
  /\ m.actor # m.target
  /\ m.role = "owner" => m.claim = "owner"

\* The check of handleRemoveMember before its SELECT: anyone may leave.
MayRemove(m) == m.actor = m.target \/ RoleAtLeast(m.claim, "admin")

May(m) == IF m.op = "update" THEN MayUpdate(m) ELSE MayRemove(m)

Refuse(r) ==
  /\ pc[r] = "begun"
  /\ ~May(msg[r])
  /\ Respond(r, "403")
  /\ UNCHANGED <<memb, audit, claim, msg, overlapped>>

\* The body of a PATCH has no role, or none that exists.
BadRequest(r) ==
  /\ pc[r] = "begun"
  /\ msg[r].op = "update"
  /\ RoleAtLeast(msg[r].claim, "admin") /\ msg[r].actor # msg[r].target
  /\ Respond(r, "400")
  /\ UNCHANGED <<memb, audit, claim, msg, overlapped>>

\* Deviation: the comparison spares other admins only.
OutOfReachAdmin(m, role) ==
  m.op = "remove" /\ m.actor # m.target /\ m.claim = "admin" /\ role = "admin"

\* An admin may not remove another admin or an owner.
OutOfReach(m, role) ==
  m.op = "remove" /\ m.actor # m.target /\ m.claim = "admin" /\ RoleAtLeast(role, "admin")

TargetMissing(r) ==
  /\ pc[r] = "begun"
  /\ May(msg[r])
  /\ memb[msg[r].target] = NoRole
  /\ Respond(r, "404")
  /\ UNCHANGED <<memb, audit, claim, msg, overlapped>>

TargetOutOfReach(r) ==
  /\ pc[r] = "begun"
  /\ May(msg[r])
  /\ memb[msg[r].target] # NoRole
  /\ OutOfReach(msg[r], memb[msg[r].target])
  /\ Respond(r, "403")
  /\ UNCHANGED <<memb, audit, claim, msg, overlapped>>

\* Deviation: the count guards DELETE and was forgotten in PATCH.
TakesOwnerRemoved(m, seen) == seen = "owner" /\ m.op = "remove"

\* The change takes an owner away, as far as the handler can tell.
TakesOwner(m, seen) == seen = "owner" /\ m.role # "owner"

\* Deviation: pgx.ErrNoRows is not told apart.
ReadTargetUnchecked(r) ==
  LET role == memb[msg[r].target] IN
  /\ pc[r] = "begun"
  /\ May(msg[r])
  /\ tx' = [tx EXCEPT ![r].seen = role]
  /\ GoTo(r, IF TakesOwner(msg[r], role) THEN "count" ELSE "write")
  /\ UNCHANGED <<memb, audit, claim, msg, overlapped>>

\* Deviation: one's own departure is never the last owner's.
ReadTargetSelf(r) ==
  LET role == memb[msg[r].target] IN
  /\ pc[r] = "begun"
  /\ May(msg[r])
  /\ role # NoRole
  /\ ~OutOfReach(msg[r], role)
  /\ tx' = [tx EXCEPT ![r].seen = role]
  /\ GoTo(r, IF TakesOwner(msg[r], role) /\ msg[r].actor # msg[r].target THEN "count" ELSE "write")
  /\ UNCHANGED <<memb, audit, claim, msg, overlapped>>

\* SELECT role: the owners are counted only when the target is seen as one.
ReadTarget(r) ==
  LET role == memb[msg[r].target] IN
  /\ pc[r] = "begun"
  /\ May(msg[r])
  /\ role # NoRole
  /\ ~OutOfReach(msg[r], role)
  /\ tx' = [tx EXCEPT ![r].seen = role]
  /\ GoTo(r, IF TakesOwner(msg[r], role) THEN "count" ELSE "write")
  /\ UNCHANGED <<memb, audit, claim, msg, overlapped>>

\* SELECT COUNT(*) of the owners, a statement and a snapshot of its own.
OnlyOwner(r) ==
  /\ pc[r] = "count"
  /\ Cardinality(Owners(memb)) <= 1
  /\ Respond(r, "409")
  /\ UNCHANGED <<memb, audit, claim, msg, overlapped>>

\* Deviation: the only owner passes the count.
CountOwnersOffByOne(r) ==
  /\ pc[r] = "count"
  /\ Cardinality(Owners(memb)) >= 1
  /\ GoTo(r, "write")
  /\ UNCHANGED <<memb, audit, claim, msg, tx, overlapped>>

CountOwners(r) ==
  /\ pc[r] = "count"
  /\ Cardinality(Owners(memb)) > 1
  /\ GoTo(r, "write")
  /\ UNCHANGED <<memb, audit, claim, msg, tx, overlapped>>

\* UPDATE or DELETE: waits for the row, and may find it gone.
Write(r) ==
  /\ pc[r] = "write"
  /\ \A s \in Requests : ~Holds(s, msg[r].target)
  /\ tx' = [tx EXCEPT ![r].touched = memb[msg[r].target] # NoRole]
  /\ GoTo(r, "audit")
  /\ UNCHANGED <<memb, audit, claim, msg, overlapped>>

\* A SELECT, UPDATE or DELETE fails: the handler returns the error and
\* TenantTx rolls back.
StatementFails(r) ==
  /\ pc[r] \in {"count", "write"} \/ (pc[r] = "begun" /\ May(msg[r]))
  /\ Finish(r, "500")
  /\ UNCHANGED <<memb, audit, claim, msg, overlapped>>

\* Deviation: the audit row goes through a connection of its own, as in
\* writeAuditDirect.
WriteAuditDirect(r) ==
  /\ pc[r] = "audit"
  /\ \E ok \in BOOLEAN : tx' = [tx EXCEPT ![r].logged = ok, ![r].reply = "204"]
  /\ GoTo(r, "commit")
  /\ UNCHANGED <<memb, audit, claim, msg, overlapped>>

\* writeAudit drops the error of its INSERT, but the transaction does not.
WriteAudit(r) ==
  /\ pc[r] = "audit"
  /\ \E ok \in BOOLEAN :
       tx' = [tx EXCEPT ![r].logged = ok, ![r].aborted = ~ok, ![r].reply = "204"]
  /\ GoTo(r, "commit")
  /\ UNCHANGED <<memb, audit, claim, msg, overlapped>>

-----------------------------------------------------------------------------
(* The end of TenantTx.                                                    *)

EventOf(r) == [req |-> r, actor |-> msg[r].actor, target |-> msg[r].target,
               old |-> tx[r].seen, new |-> msg[r].role]

\* What the transaction holds becomes visible, all of it in one step.
Apply(r) ==
  /\ memb' = IF tx[r].touched THEN [memb EXCEPT ![msg[r].target] = msg[r].role] ELSE memb
  /\ audit' = IF tx[r].logged THEN audit \cup {EventOf(r)} ELSE audit

\* Deviation: every reply already written stands.
CommitErrorIgnored(r) == tx[r].reply

\* A failed COMMIT is a 500, unless the handler had already refused.
CommitErrorReply(r) == IF tx[r].reply \in Refused THEN tx[r].reply ELSE "500"

Commit(r) ==
  /\ pc[r] = "commit"
  /\ ~tx[r].aborted
  /\ Apply(r)
  /\ Finish(r, tx[r].reply)
  /\ UNCHANGED <<claim, msg, overlapped>>

CommitRefused(r) ==
  /\ pc[r] = "commit"
  /\ tx[r].aborted
  /\ Finish(r, CommitErrorReply(r))
  /\ UNCHANGED <<memb, audit, claim, msg, overlapped>>

\* The connection breaks during COMMIT: the server cannot know whether the
\* database carried it out.
CommitLost(r) ==
  /\ pc[r] = "commit"
  /\ ~tx[r].aborted
  /\ Apply(r) \/ UNCHANGED <<memb, audit>>
  /\ Finish(r, CommitErrorReply(r))
  /\ UNCHANGED <<claim, msg, overlapped>>

-----------------------------------------------------------------------------

Step(r) ==
  \/ Begin(r)
  \/ BadRequest(r) \/ Refuse(r) \/ TargetMissing(r) \/ TargetOutOfReach(r) \/ ReadTarget(r)
  \/ OnlyOwner(r) \/ CountOwners(r)
  \/ Write(r) \/ WriteAudit(r)
  \/ Commit(r) \/ CommitRefused(r)

Fault(r) == BeginFails(r) \/ StatementFails(r) \/ CommitLost(r)

Serve(r) == Step(r) \/ Fault(r)

Next ==
  \/ \E u \in Users : Sign(u) \/ Expire(u)
  \/ \E u \in Users, role \in {"admin", "member", "viewer"} : Join(u, role)
  \/ \E r \in Requests, m \in Message : Send(r, m)
  \/ \E r \in Requests : Serve(r)

Spec == Init /\ [][Next]_vars

\* Each handler runs on a goroutine of its own, and the database answers every
\* statement that does not wait for a row.  Nothing depends on a failure to
\* come: no statement has a time limit that would end its wait.
Fairness == \A r \in Requests : WF_vars(Step(r))
FairSpec == Spec /\ Fairness

-----------------------------------------------------------------------------
(* Properties.                                                             *)

\* handlers_members.go:87 "Prevent demoting the last owner.", and :148 "Prevent
\* removing the last owner.": the tenant always has one.
OwnerRemains == Owners(memb) # {}

\* As long as no two of the transactions have been open together, the tenant
\* has an owner: the count in handleUpdateMember and handleRemoveMember does
\* protect the last owner of requests that come one after the other, whatever
\* statement, audit insert or COMMIT fails.
OwnerRemainsUnlessOverlap == overlapped \/ OwnerRemains

\* A role that changes or disappears has its row in audit_events, added by the
\* same commit and naming the change: writeAudit shares the transaction of the
\* change, in any interleaving and whatever fails.
ChangeIsAudited ==
  [][\A u \in Users :
       memb[u] # NoRole /\ memb'[u] # memb[u]
         => \E e \in audit' \ audit : e.target = u /\ e.new = memb'[u]]_vars

\* What a client may conclude from the status TenantTx lets through: after a
\* 204 the change was recorded, after a 4xx nothing was.  Only a 500
\* says nothing.
ReplyIsTruthful ==
  \A r \in Requests : pc[r] = "done" =>
    /\ tx[r].reply = "204" => \E e \in audit : e.req = r
    /\ tx[r].reply \in Refused => \A e \in audit : e.req # r

\* The tenant's table and its audit log keep the promise of Roster: as long as
\* the transactions do not overlap, each commit is one change whose audit row
\* gives the very role it replaced (so none is written for an UPDATE or DELETE
\* that found nothing) and which leaves an owner.
R == INSTANCE Roster WITH Entries <- Event, log <- audit, contended <- overlapped
ImplementsRoster == R!Spec

\* The commit of request r removes the member u, who is not its actor.
TakenAwayBy(r, u) ==
  /\ pc[r] = "commit" /\ pc'[r] = "done"
  /\ msg[r].op = "remove" /\ msg[r].target = u /\ msg[r].actor # u
  /\ memb[u] # NoRole /\ memb'[u] = NoRole

\* handlers_members.go:143 "Admin cannot remove other admins or owners.", as long as
\* no transactions have overlapped: the role the handler compared is then the one
\* that its DELETE finds.
AdminsSparePeersUnlessOverlap ==
  [][\A r \in Requests, u \in Users :
       TakenAwayBy(r, u) /\ msg[r].claim = "admin"
         => overlapped \/ memb[u] \notin {"admin", "owner"}]_vars

\* audit.go:13 "Best-effort: errors are silently dropped": the audit insert
\* alone never turns a change that was carried out into a failure.
AuditIsBestEffort ==
  [][\A r \in Requests :
       pc[r] = "commit" /\ tx[r].touched /\ pc'[r] = "done" /\ tx'[r].reply = "500"
         => ~tx[r].aborted]_vars

\* Every request that was sent is answered: nobody waits for ever on a row, nor on a
\* connection although those who have them all wait for rows.
EveryRequestAnswered == \A r \in Requests : pc[r] = "sent" ~> pc[r] = "done"

-----------------------------------------------------------------------------
(***************************************************************************)
(* The inductive invariant behind OwnerRemainsUnlessOverlap, ReplyIsTruthful *)
(* and ImplementsRoster.                                                   *)
(***************************************************************************)

Early == {"idle", "sent", "begun", "count", "write"}

\* Until its UPDATE or DELETE a transaction holds nothing to commit.
NothingPending ==
  \A r \in Requests : pc[r] \in Early => ~tx[r].touched /\ ~tx[r].logged /\ ~tx[r].aborted

\* A handler that goes on has read a role.
HasRead(r) == pc[r] \in {"count", "write", "audit"} \/ (pc[r] = "commit" /\ tx[r].logged)
RoleSeen == \A r \in Requests : HasRead(r) => tx[r].seen \in Role

\* A transaction that reaches COMMIT was refused with empty hands, or it logged
\* its change, or it is aborted.
Settled ==
  \A r \in Requests : pc[r] = "commit" =>
    \/ tx[r].reply \in Refused /\ ~tx[r].touched /\ ~tx[r].logged /\ ~tx[r].aborted
    \/ tx[r].reply = "204" /\ (tx[r].logged <=> ~tx[r].aborted)

AuditOfDone == \A e \in audit : pc[e.req] = "done"

OneAtATime == overlapped \/ \A r, s \in Open : r = s

\* Without overlap, what the handler saw is still so, its statement found the
\* row, and whoever takes an owner away leaves another.
SeenHolds == overlapped \/ \A r \in Requests : HasRead(r) => tx[r].seen = memb[msg[r].target]
Takes(r) == HasRead(r) /\ pc[r] # "count" /\ TakesOwner(msg[r], tx[r].seen)
AnotherOwner == overlapped \/ \A r \in Requests : Takes(r) => Cardinality(Owners(memb)) > 1
RowFound == overlapped \/ \A r \in Requests : HasRead(r) /\ pc[r] \in {"audit", "commit"} => tx[r].touched

\* The members invariant: what each open transaction has seen and holds.
IInv ==
  /\ TypeOK
  /\ NothingPending /\ RoleSeen /\ Settled /\ AuditOfDone /\ ReplyIsTruthful
  /\ OneAtATime /\ SeenHolds /\ AnotherOwner /\ RowFound
  /\ OwnerRemainsUnlessOverlap

=============================================================================
