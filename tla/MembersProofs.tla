---------------------------- MODULE MembersProofs ----------------------------
(***************************************************************************)
(* Theorems about Members for every set of users and requests and every    *)
(* size of the pool.                                                       *)
(***************************************************************************)
EXTENDS Members, FiniteSetTheorems, TLAPS

\* The messages, field by field: what the provers need of the union of records.
LEMMA MessageFields ==
  ASSUME NEW m \in Message
  PROVE  /\ m.op \in {"update", "remove"}
         /\ m.actor \in Users
         /\ m.claim \in Role
         /\ m.target \in Users
         /\ m.role \in RoleOrNone
BY NewRolesAssumption DEF Message, RoleOrNone, NoRole

LEMMA FreshType == Fresh \in Transaction
BY DEF Fresh, Transaction, RoleOrNone, Reply

\* The steps that only set a status, or end the request with one.
LEMMA RespondType ==
  ASSUME TypeOK, NEW r \in Requests, NEW status \in Reply,
         Respond(r, status) \/ Finish(r, status)
  PROVE  /\ pc' \in [Requests -> Pc]
         /\ tx' \in [Requests -> Transaction]
<1>1. pc' \in [Requests -> Pc]
  BY DEF TypeOK, Respond, Finish, GoTo, Pc, Inside
<1>2. tx' = [tx EXCEPT ![r] = [tx[r] EXCEPT !.reply = status]]
  BY DEF TypeOK, Respond, Finish
<1>3. [tx[r] EXCEPT !.reply = status] \in Transaction
  BY DEF TypeOK, Transaction
<1> QED BY <1>1, <1>2, <1>3 DEF TypeOK

-----------------------------------------------------------------------------
(* The type invariant needs one fact beyond itself: a handler that goes on *)
(* has read a role, so the audit row it may commit has one.                *)

TypeInv == TypeOK /\ NothingPending /\ RoleSeen

LEMMA EventType ==
  ASSUME TypeInv, NEW r \in Requests, pc[r] = "commit", tx[r].logged
  PROVE  EventOf(r) \in Event
BY MessageFields DEF TypeInv, TypeOK, RoleSeen, HasRead, EventOf, Event

LEMMA ApplyType ==
  ASSUME TypeInv, NEW r \in Requests, pc[r] = "commit", Apply(r)
  PROVE  /\ memb' \in [Users -> RoleOrNone]
         /\ audit' \subseteq Event
<1>1. msg[r] \in Message
  BY DEF TypeInv, TypeOK
<1>2. memb' \in [Users -> RoleOrNone]
  BY <1>1, MessageFields DEF TypeInv, TypeOK, Apply
<1>3. audit' \subseteq Event
  BY EventType DEF TypeInv, TypeOK, Apply
<1> QED BY <1>2, <1>3

LEMMA TypeInit == Init => TypeInv
<1> SUFFICES ASSUME Init PROVE TypeInv
  OBVIOUS
<1>1. TypeOK
  BY FreshType DEF Init, TypeOK, Pc
<1>2. \A r \in Requests : pc[r] = "idle" /\ tx[r] = Fresh
  BY DEF Init
<1>3. NothingPending
  BY <1>2 DEF NothingPending, Fresh
<1>4. RoleSeen
  BY <1>2 DEF RoleSeen, HasRead
<1> QED BY <1>1, <1>3, <1>4 DEF TypeInv

LEMMA TypeStep == TypeInv /\ [Next]_vars => TypeInv'
<1> SUFFICES ASSUME TypeInv, [Next]_vars PROVE TypeInv'
  OBVIOUS
<1> USE DEF TypeInv, TypeOK, NothingPending, RoleSeen, HasRead, Early
<1>1. ASSUME NEW u \in Users, Sign(u) \/ Expire(u) PROVE TypeInv'
  BY <1>1 DEF Sign, Expire, RoleOrNone
<1>2. ASSUME NEW u \in Users, NEW role \in {"admin", "member", "viewer"}, Join(u, role)
      PROVE  TypeInv'
  BY <1>2 DEF Join, RoleOrNone, Role
<1>3. ASSUME NEW r \in Requests, NEW m \in Message, Send(r, m) PROVE TypeInv'
  BY <1>3 DEF Send, GoTo, Pc, Inside
<1>4. ASSUME NEW r \in Requests, Begin(r) PROVE TypeInv'
  BY <1>4 DEF Begin, GoTo, Pc, Inside
<1>5. ASSUME NEW r \in Requests, BeginFails(r) \/ StatementFails(r) PROVE TypeInv'
  <2>1. Finish(r, "500") /\ pc[r] \in {"sent", "begun", "count", "write"}
        /\ UNCHANGED <<memb, audit, claim, msg, overlapped>>
    BY <1>5 DEF BeginFails, StatementFails
  <2>2. pc' \in [Requests -> Pc] /\ tx' \in [Requests -> Transaction]
    BY <2>1, RespondType DEF Reply
  <2> QED BY <2>1, <2>2 DEF Finish, GoTo, Transaction
<1>6. ASSUME NEW r \in Requests,
             BadRequest(r) \/ Refuse(r) \/ TargetMissing(r) \/ TargetOutOfReach(r) \/ OnlyOwner(r)
      PROVE  TypeInv'
  <2>1. PICK status \in Refused : Respond(r, status) /\ pc[r] \in {"begun", "count"}
        /\ UNCHANGED <<memb, audit, claim, msg, overlapped>>
    BY <1>6 DEF BadRequest, Refuse, TargetMissing, TargetOutOfReach, OnlyOwner, Refused
  <2>2. pc' \in [Requests -> Pc] /\ tx' \in [Requests -> Transaction]
    BY <2>1, RespondType DEF Reply
  <2> QED BY <2>1, <2>2 DEF Respond, GoTo, Transaction
<1>7. ASSUME NEW r \in Requests, ReadTarget(r) PROVE TypeInv'
  <2>1. memb[msg[r].target] \in Role
    BY <1>7, MessageFields DEF ReadTarget, RoleOrNone
  <2> QED BY <1>7, <2>1 DEF ReadTarget, GoTo, Pc, Inside, Transaction, RoleOrNone
<1>8. ASSUME NEW r \in Requests, CountOwners(r) PROVE TypeInv'
  BY <1>8 DEF CountOwners, GoTo, Pc, Inside
<1>9. ASSUME NEW r \in Requests, Write(r) PROVE TypeInv'
  <2>1. PICK found \in BOOLEAN : tx' = [tx EXCEPT ![r].touched = found]
    BY <1>9 DEF Write
  <2> QED BY <1>9, <2>1 DEF Write, GoTo, Pc, Inside, Transaction
<1>10. ASSUME NEW r \in Requests, WriteAudit(r) PROVE TypeInv'
  <2>1. PICK ok \in BOOLEAN :
          tx' = [tx EXCEPT ![r].logged = ok, ![r].aborted = ~ok, ![r].reply = "204"]
    BY <1>10 DEF WriteAudit
  <2>2. PICK no \in BOOLEAN : no = ~ok
    OBVIOUS
  <2>3. tx' = [tx EXCEPT ![r] =
                 [tx[r] EXCEPT !.logged = ok, !.aborted = no, !.reply = "204"]]
    BY <2>1, <2>2
  <2>4. [tx[r] EXCEPT !.logged = ok, !.aborted = no, !.reply = "204"] \in Transaction
    BY DEF Transaction, Reply
  <2>5. tx' \in [Requests -> Transaction]
    BY <2>3, <2>4
  <2>6. pc' \in [Requests -> Pc]
    BY <1>10 DEF WriteAudit, GoTo, Pc, Inside
  <2> QED BY <1>10, <2>3, <2>5, <2>6 DEF WriteAudit, GoTo
<1>11. ASSUME NEW r \in Requests, Commit(r) \/ CommitRefused(r) \/ CommitLost(r) PROVE TypeInv'
  <2>1. PICK status \in Reply : Finish(r, status) /\ pc[r] = "commit" /\ UNCHANGED <<claim, msg, overlapped>>
    BY <1>11 DEF Commit, CommitRefused, CommitLost, CommitErrorReply, Transaction, Reply
  <2>2. pc' \in [Requests -> Pc] /\ tx' \in [Requests -> Transaction]
    BY <2>1, RespondType
  <2>3. memb' \in [Users -> RoleOrNone] /\ audit' \subseteq Event
    BY <1>11, ApplyType DEF Commit, CommitRefused, CommitLost
  <2> QED BY <2>1, <2>2, <2>3 DEF Finish, GoTo, Transaction
<1>12. CASE UNCHANGED vars
  BY <1>12 DEF vars
<1> QED
  BY <1>1, <1>2, <1>3, <1>4, <1>5, <1>6, <1>7, <1>8, <1>9, <1>10, <1>11, <1>12
     DEF Next, Serve, Step, Fault

\* Type correctness: among others, every row of audit_events gives a role as the
\* old one, so a handler never goes on from a member it did not find.
THEOREM TypeCorrect == Spec => []TypeOK
<1>1. TypeInv => TypeOK
  BY DEF TypeInv
<1> QED BY <1>1, TypeInit, TypeStep, PTL DEF Spec

-----------------------------------------------------------------------------
(* The audit log.  What reaches COMMIT was refused with empty hands, or has *)
(* logged its change, or is aborted; and only finished requests are logged. *)

AuditInv == TypeInv /\ Settled /\ AuditOfDone /\ ReplyIsTruthful

LEMMA AuditInit == Init => AuditInv
<1> SUFFICES ASSUME Init PROVE AuditInv
  OBVIOUS
<1>1. \A r \in Requests : pc[r] = "idle"
  BY DEF Init
<1>2. audit = {}
  BY DEF Init
<1> QED BY <1>1, <1>2, TypeInit DEF AuditInv, Settled, AuditOfDone, ReplyIsTruthful

\* A request that is not at its end leaves the log and the answers alone.
LEMMA AuditKept ==
  ASSUME AuditInv, NEW r \in Requests, UNCHANGED audit,
         pc[r] \in Pc \ {"done"},
         \E to \in Pc \ {"done"} : pc' = [pc EXCEPT ![r] = to],
         \A s \in Requests \ {r} : tx'[s] = tx[s]
  PROVE  AuditOfDone' /\ ReplyIsTruthful'
<1>1. PICK to \in Pc \ {"done"} : pc' = [pc EXCEPT ![r] = to]
  OBVIOUS
<1>2. pc'[r] # "done" /\ \A s \in Requests \ {r} : pc'[s] = pc[s]
  BY <1>1 DEF AuditInv, TypeInv, TypeOK
<1>3. \A e \in audit : e.req \in Requests /\ e.req # r
  BY DEF AuditInv, TypeInv, TypeOK, AuditOfDone, Event
<1>4. AuditOfDone'
  BY <1>2, <1>3 DEF AuditInv, AuditOfDone
<1>5. ReplyIsTruthful'
  BY <1>2 DEF AuditInv, ReplyIsTruthful
<1> QED BY <1>4, <1>5

\* How a request ends: its row, if any, is now in the log and its answer fits.
LEMMA AuditFinished ==
  ASSUME AuditInv, NEW r \in Requests, pc[r] # "done", NEW status \in Reply, Finish(r, status),
         \/ audit' = audit /\ status # "204"
         \/ audit' = audit \cup {EventOf(r)} /\ status \notin Refused
  PROVE  Settled' /\ AuditOfDone' /\ ReplyIsTruthful'
<1>1. pc'[r] = "done" /\ tx'[r].reply = status
  BY DEF Finish, GoTo, AuditInv, TypeInv, TypeOK, Transaction
<1>2. \A s \in Requests \ {r} : pc'[s] = pc[s] /\ tx'[s] = tx[s]
  BY DEF Finish, GoTo, AuditInv, TypeInv, TypeOK
<1>3. Settled'
  BY <1>1, <1>2 DEF AuditInv, Settled
<1>4. EventOf(r).req = r
  BY DEF EventOf
<1>5. \A e \in audit : e.req \in Requests /\ e.req # r
  BY DEF AuditInv, TypeInv, TypeOK, AuditOfDone, Event
<1>6. AuditOfDone'
  BY <1>1, <1>2, <1>4, <1>5 DEF AuditInv, AuditOfDone
<1>7. ReplyIsTruthful'
  <2> SUFFICES ASSUME NEW s \in Requests, pc'[s] = "done"
               PROVE  /\ tx'[s].reply = "204" => \E e \in audit' : e.req = s
                      /\ tx'[s].reply \in Refused => \A e \in audit' : e.req # s
    BY DEF ReplyIsTruthful
  <2>1. CASE s = r
    BY <2>1, <1>1, <1>4, <1>5 DEF Refused
  <2>2. CASE s # r
    BY <2>2, <1>2, <1>4 DEF AuditInv, ReplyIsTruthful
  <2> QED BY <2>1, <2>2
<1> QED BY <1>3, <1>6, <1>7

LEMMA AuditStep == AuditInv /\ [Next]_vars => AuditInv'
<1> SUFFICES ASSUME AuditInv, [Next]_vars PROVE Settled' /\ AuditOfDone' /\ ReplyIsTruthful'
  BY TypeStep DEF AuditInv
<1>1. ASSUME UNCHANGED <<audit, pc, tx>> PROVE Settled' /\ AuditOfDone' /\ ReplyIsTruthful'
  BY <1>1 DEF AuditInv, Settled, AuditOfDone, ReplyIsTruthful
<1>2. ASSUME NEW r \in Requests,
             \/ \E m \in Message : Send(r, m)
             \/ Begin(r) \/ ReadTarget(r) \/ CountOwners(r) \/ Write(r)
      PROVE  Settled' /\ AuditOfDone' /\ ReplyIsTruthful'
  <2>1. PICK to \in Pc \ {"done", "commit"} : pc' = [pc EXCEPT ![r] = to]
    BY <1>2 DEF Send, Begin, ReadTarget, CountOwners, Write, GoTo, Pc, Inside
  <2>2. /\ pc[r] \in Pc \ {"done"}
        /\ UNCHANGED audit
        /\ \A s \in Requests \ {r} : tx'[s] = tx[s]
    BY <1>2 DEF Send, Begin, ReadTarget, CountOwners, Write, GoTo, AuditInv, TypeInv, TypeOK, Pc, Inside
  <2>3. AuditOfDone' /\ ReplyIsTruthful'
    BY <2>1, <2>2, AuditKept
  <2>4. Settled'
    BY <2>1, <2>2 DEF AuditInv, Settled, TypeInv, TypeOK
  <2> QED BY <2>3, <2>4
<1>3. ASSUME NEW r \in Requests,
             BadRequest(r) \/ Refuse(r) \/ TargetMissing(r) \/ TargetOutOfReach(r) \/ OnlyOwner(r)
      PROVE  Settled' /\ AuditOfDone' /\ ReplyIsTruthful'
  <2>1. PICK status \in Refused : Respond(r, status) /\ pc[r] \in {"begun", "count"}
                                 /\ UNCHANGED audit
    BY <1>3 DEF BadRequest, Refuse, TargetMissing, TargetOutOfReach, OnlyOwner, Refused
  <2>2. pc' = [pc EXCEPT ![r] = "commit"] /\ \A s \in Requests \ {r} : tx'[s] = tx[s]
    BY <2>1 DEF Respond, GoTo, AuditInv, TypeInv, TypeOK
  <2>3. AuditOfDone' /\ ReplyIsTruthful'
    BY <2>1, <2>2, AuditKept DEF Pc, Inside
  <2>4. ~tx[r].touched /\ ~tx[r].logged /\ ~tx[r].aborted
    BY <2>1 DEF AuditInv, TypeInv, NothingPending, Early
  <2>5. tx'[r].reply \in Refused /\ ~tx'[r].touched /\ ~tx'[r].logged /\ ~tx'[r].aborted
    BY <2>1, <2>4 DEF Respond, AuditInv, TypeInv, TypeOK, Transaction
  <2>6. Settled'
    BY <2>2, <2>5 DEF AuditInv, Settled, TypeInv, TypeOK
  <2> QED BY <2>3, <2>6
<1>4. ASSUME NEW r \in Requests, WriteAudit(r)
      PROVE  Settled' /\ AuditOfDone' /\ ReplyIsTruthful'
  <2>1. PICK ok \in BOOLEAN :
          tx' = [tx EXCEPT ![r].logged = ok, ![r].aborted = ~ok, ![r].reply = "204"]
    BY <1>4 DEF WriteAudit
  <2>2. pc[r] = "audit" /\ pc' = [pc EXCEPT ![r] = "commit"] /\ UNCHANGED audit
    BY <1>4 DEF WriteAudit, GoTo
  <2>3. \A s \in Requests \ {r} : tx'[s] = tx[s]
    BY <2>1 DEF AuditInv, TypeInv, TypeOK
  <2>4. AuditOfDone' /\ ReplyIsTruthful'
    BY <2>2, <2>3, AuditKept DEF Pc, Inside
  <2>5. tx'[r].reply = "204" /\ (tx'[r].logged <=> ~tx'[r].aborted)
    BY <2>1 DEF AuditInv, TypeInv, TypeOK, Transaction
  <2>6. Settled'
    BY <2>2, <2>3, <2>5 DEF AuditInv, Settled, TypeInv, TypeOK
  <2> QED BY <2>4, <2>6
<1>5. ASSUME NEW r \in Requests, BeginFails(r) \/ StatementFails(r)
      PROVE  Settled' /\ AuditOfDone' /\ ReplyIsTruthful'
  <2>1. Finish(r, "500") /\ pc[r] # "done" /\ audit' = audit
    BY <1>5 DEF BeginFails, StatementFails
  <2> QED BY <2>1, AuditFinished DEF Reply
<1>6. ASSUME NEW r \in Requests, Commit(r) \/ CommitRefused(r) \/ CommitLost(r)
      PROVE  Settled' /\ AuditOfDone' /\ ReplyIsTruthful'
  <2>1. pc[r] = "commit"
    BY <1>6 DEF Commit, CommitRefused, CommitLost
  <2>2. \/ tx[r].reply \in Refused /\ ~tx[r].logged /\ ~tx[r].aborted
        \/ tx[r].reply = "204" /\ (tx[r].logged <=> ~tx[r].aborted)
    BY <2>1 DEF AuditInv, Settled
  <2>3. \E status \in Reply :
          /\ Finish(r, status)
          /\ \/ audit' = audit /\ status # "204"
             \/ audit' = audit \cup {EventOf(r)} /\ status \notin Refused
    BY <1>6, <2>2 DEF Commit, CommitRefused, CommitLost, CommitErrorReply, Apply, Reply, Refused
  <2> QED BY <2>1, <2>3, AuditFinished
<1>7. CASE \E u \in Users : Sign(u) \/ Expire(u)
  BY <1>7, <1>1 DEF Sign, Expire
<1>8. CASE \E u \in Users, role \in {"admin", "member", "viewer"} : Join(u, role)
  BY <1>8, <1>1 DEF Join
<1>9. CASE UNCHANGED vars
  BY <1>9, <1>1 DEF vars
<1> QED
  BY <1>2, <1>3, <1>4, <1>5, <1>6, <1>7, <1>8, <1>9 DEF Next, Serve, Step, Fault

\* After a 204 the change is recorded, after a refusal nothing is.
THEOREM RepliesAreTruthful == Spec => []ReplyIsTruthful
<1>1. Init => AuditInv
  BY AuditInit
<1>2. AuditInv => ReplyIsTruthful
  BY DEF AuditInv
<1> QED BY <1>1, <1>2, AuditStep, PTL DEF Spec

\* No role changes or disappears without its audit row in the same commit,
\* however the requests interleave and whatever fails.
THEOREM ChangesAreAudited == Spec => ChangeIsAudited
<1> DEFINE Audited ==
      \A u \in Users :
        memb[u] # NoRole /\ memb'[u] # memb[u]
          => \E e \in audit' \ audit : e.target = u /\ e.new = memb'[u]
<1>1. AuditInv /\ [Next]_vars => Audited
  <2> SUFFICES ASSUME AuditInv, [Next]_vars, NEW u \in Users,
                      memb[u] # NoRole, memb'[u] # memb[u]
               PROVE  \E e \in audit' \ audit : e.target = u /\ e.new = memb'[u]
    OBVIOUS
  <2>1. ~ \E v \in Users, role \in {"admin", "member", "viewer"} : Join(v, role)
    BY DEF Join, AuditInv, TypeInv, TypeOK
  <2>2. PICK r \in Requests : Commit(r) \/ CommitLost(r)
    BY <2>1 DEF Next, Serve, Step, Fault, Sign, Expire, Send, Begin, BeginFails, BadRequest, Refuse,
       TargetMissing, TargetOutOfReach, ReadTarget, OnlyOwner, CountOwners, Write,
       StatementFails, WriteAudit, CommitRefused, vars
  <2>3. pc[r] = "commit" /\ ~tx[r].aborted /\ Apply(r)
    BY <2>2 DEF Commit, CommitLost
  <2>4. tx[r].touched /\ msg[r].target = u /\ memb'[u] = msg[r].role
    BY <2>3 DEF Apply, AuditInv, TypeInv, TypeOK
  <2>5. EventOf(r) \in audit' /\ EventOf(r).target = u /\ EventOf(r).new = memb'[u]
    BY <2>3, <2>4 DEF AuditInv, Settled, Apply, EventOf
  <2>6. EventOf(r) \notin audit
    BY <2>3 DEF AuditInv, AuditOfDone, EventOf
  <2> QED BY <2>5, <2>6
<1>2. AuditInv /\ [Next]_vars => [Audited]_vars
  BY <1>1
<1>3. ChangeIsAudited <=> [][Audited]_vars
  BY DEF ChangeIsAudited
<1> QED BY <1>2, <1>3, AuditInit, AuditStep, PTL DEF Spec

-----------------------------------------------------------------------------
(* The last owner.  While transactions come one after the other, what the   *)
(* open one saw and counted still holds when it commits.                    *)

\* A set of users with more than one element keeps one when another leaves.
LEMMA OneLeft ==
  ASSUME NEW S \in SUBSET Users, Cardinality(S) > 1, NEW u
  PROVE  \E v \in S : v # u
<1>1. IsFiniteSet(S)
  BY UsersAssumption, FS_Subset
<1>2. SUFFICES ASSUME \A v \in S : v = u PROVE FALSE
  OBVIOUS
<1>3. CASE S = {}
  BY <1>3, FS_EmptySet
<1>4. CASE S = {u}
  BY <1>4, FS_Singleton
<1> QED BY <1>2, <1>3, <1>4

LEMMA IInitial == Init => IInv
<1> SUFFICES ASSUME Init PROVE IInv
  OBVIOUS
<1>1. \A r \in Requests : pc[r] = "idle"
  BY DEF Init
<1>2. Owners(memb) # {}
  BY DEF Init
<1> QED BY <1>1, <1>2, AuditInit
        DEF IInv, AuditInv, TypeInv, OneAtATime, Open, Inside, SeenHolds, HasRead, AnotherOwner,
            Takes, RowFound, OwnerRemainsUnlessOverlap, OwnerRemains

\* Everything IInv says of a time without overlap.
Quiet ==
  /\ \A r, s \in Open : r = s
  /\ \A r \in Requests : HasRead(r) => tx[r].seen = memb[msg[r].target]
  /\ \A r \in Requests : Takes(r) => Cardinality(Owners(memb)) > 1
  /\ \A r \in Requests : HasRead(r) /\ pc[r] \in {"audit", "commit"} => tx[r].touched
  /\ OwnerRemains

LEMMA IInvParts == IInv <=> AuditInv /\ (overlapped \/ Quiet)
<1>1. TypeOK => overlapped \in BOOLEAN
  BY DEF TypeOK
<1> QED BY <1>1 DEF IInv, AuditInv, TypeInv, OneAtATime, SeenHolds, AnotherOwner, RowFound,
           OwnerRemainsUnlessOverlap, Quiet

\* A step that opens no transaction and reads no role keeps Quiet when the
\* owners stay and no member's row changes.
LEMMA QuietKept ==
  ASSUME AuditInv, Quiet, Owners(memb') = Owners(memb),
         \A u \in Users : memb[u] # NoRole => memb'[u] = memb[u],
         UNCHANGED <<pc, tx, msg>>
  PROVE  Quiet'
<1>1. \A r \in Requests : HasRead(r) => tx[r].seen \in Role /\ msg[r].target \in Users
  BY MessageFields DEF AuditInv, TypeInv, TypeOK, RoleSeen, HasRead
<1> QED BY <1>1 DEF Quiet, Open, HasRead, Takes, TakesOwner, OwnerRemains, Role, NoRole

\* When the only open transaction ends, Quiet asks for an owner and no more.
LEMMA QuietEnd ==
  ASSUME AuditInv, Quiet, NEW r \in Requests, NEW status, Finish(r, status), OwnerRemains',
         pc[r] \in Inside \/ UNCHANGED memb, UNCHANGED msg
  PROVE  Quiet'
<1>1. pc'[r] = "done" /\ \A s \in Requests \ {r} : pc'[s] = pc[s] /\ tx'[s] = tx[s]
  BY DEF Finish, GoTo, AuditInv, TypeInv, TypeOK
<1>2. Open' \subseteq Open \ {r}
  BY <1>1 DEF Open, Inside
<1>3. \A s \in Requests : HasRead(s)' => s # r /\ HasRead(s) /\ s \in Open
  BY <1>1 DEF HasRead, Open, Inside
<1>4. pc[r] \in Inside => \A s \in Requests : ~HasRead(s)'
  BY <1>3 DEF Quiet, Open
<1> QED BY <1>1, <1>2, <1>3, <1>4 DEF Quiet, Takes

\* The commit of a change leaves an owner.
LEMMA OwnerAfterApply ==
  ASSUME AuditInv, Quiet, NEW r \in Requests, pc[r] = "commit", ~tx[r].aborted, Apply(r)
  PROVE  OwnerRemains'
<1>1. CASE ~tx[r].touched
  BY <1>1 DEF Apply, Quiet, OwnerRemains, Owners
<1>2. CASE tx[r].touched
  <2>1. HasRead(r) /\ tx[r].seen = memb[msg[r].target]
    BY <1>2 DEF AuditInv, Settled, HasRead, Quiet
  <2>2. memb' = [memb EXCEPT ![msg[r].target] = msg[r].role]
    BY <1>2 DEF Apply
  <2>3. CASE TakesOwner(msg[r], tx[r].seen)
    <3>1. Cardinality(Owners(memb)) > 1
      BY <2>1, <2>3 DEF Takes, Quiet
    <3>2. PICK v \in Owners(memb) : v # msg[r].target
      BY <3>1, OneLeft DEF Owners
    <3>3. v \in Owners(memb')
      BY <2>2, <3>2 DEF Owners, AuditInv, TypeInv, TypeOK
    <3> QED BY <3>3 DEF OwnerRemains
  <2>4. CASE ~TakesOwner(msg[r], tx[r].seen)
    <3>1. memb[msg[r].target] = "owner" => msg[r].role = "owner"
      BY <2>1, <2>4 DEF TakesOwner
    <3>2. Owners(memb) \subseteq Owners(memb')
      BY <2>2, <3>1 DEF Owners, AuditInv, TypeInv, TypeOK
    <3> QED BY <3>2 DEF OwnerRemains, Quiet
  <2> QED BY <2>3, <2>4
<1> QED BY <1>1, <1>2

\* A step of one open transaction that stays open: the others are closed.
LEMMA QuietInside ==
  ASSUME AuditInv, Quiet, NEW r \in Requests, r \in Open, UNCHANGED <<memb, msg>>,
         NEW to \in Inside, pc' = [pc EXCEPT ![r] = to],
         \A s \in Requests \ {r} : tx'[s] = tx[s],
         HasRead(r)' => tx'[r].seen = memb[msg[r].target],
         Takes(r)' => Cardinality(Owners(memb)) > 1,
         HasRead(r)' /\ to \in {"audit", "commit"} => tx'[r].touched
  PROVE  Quiet'
<1>1. pc'[r] = to /\ \A s \in Requests \ {r} : pc'[s] = pc[s]
  BY DEF AuditInv, TypeInv, TypeOK
<1>2. Open' = Open
  BY <1>1 DEF Open
<1>3. \A s \in Requests \ {r} : ~HasRead(s)'
  BY <1>1 DEF HasRead, Quiet, Open, Inside
<1> QED BY <1>1, <1>2, <1>3 DEF Quiet, Takes, OwnerRemains, Owners

LEMMA QuietStep == AuditInv /\ Quiet /\ [Next]_vars => overlapped' \/ Quiet'
<1> SUFFICES ASSUME AuditInv, Quiet, [Next]_vars, ~overlapped' PROVE Quiet'
  OBVIOUS
<1> USE DEF Inside
<1>1. CASE \E u \in Users : Sign(u) \/ Expire(u)
  BY <1>1, QuietKept DEF Sign, Expire, Owners
<1>2. ASSUME NEW u \in Users, NEW role \in {"admin", "member", "viewer"}, Join(u, role)
      PROVE  Quiet'
  <2>1. memb[u] = NoRole /\ memb' = [memb EXCEPT ![u] = role] /\ UNCHANGED <<pc, tx, msg>>
    BY <1>2 DEF Join
  <2>2. Owners(memb') = Owners(memb)
    BY <2>1 DEF Owners, NoRole, AuditInv, TypeInv, TypeOK
  <2> QED BY <2>1, <2>2, QuietKept DEF AuditInv, TypeInv, TypeOK
<1>3. ASSUME NEW r \in Requests, NEW m \in Message, Send(r, m) PROVE Quiet'
  <2>1. pc[r] = "idle" /\ pc' = [pc EXCEPT ![r] = "sent"] /\ msg' = [msg EXCEPT ![r] = m]
        /\ UNCHANGED <<memb, tx>>
    BY <1>3 DEF Send, GoTo
  <2>2. \A s \in Requests : HasRead(s)' => HasRead(s) /\ s # r
    BY <2>1 DEF HasRead, AuditInv, TypeInv, TypeOK
  <2>3. Open' = Open
    BY <2>1 DEF Open, AuditInv, TypeInv, TypeOK
  <2> QED BY <2>1, <2>2, <2>3 DEF Quiet, Takes, OwnerRemains, Owners, AuditInv, TypeInv, TypeOK
<1>4. ASSUME NEW r \in Requests, Begin(r) PROVE Quiet'
  <2>1. Open = {} /\ pc' = [pc EXCEPT ![r] = "begun"] /\ UNCHANGED <<memb, tx, msg>>
    BY <1>4 DEF Begin, GoTo
  <2>2. \A s \in Requests : ~HasRead(s)'
    BY <2>1 DEF HasRead, Open, AuditInv, TypeInv, TypeOK
  <2>3. \A s \in Open' : s = r
    BY <2>1 DEF Open, AuditInv, TypeInv, TypeOK
  <2> QED BY <2>1, <2>2, <2>3 DEF Quiet, Takes, OwnerRemains, Owners
<1>5. ASSUME NEW r \in Requests, BeginFails(r) \/ StatementFails(r) \/ CommitRefused(r)
      PROVE  Quiet'
  <2>1. (\E status \in Reply : Finish(r, status)) /\ UNCHANGED <<memb, msg>>
    BY <1>5 DEF BeginFails, StatementFails, CommitRefused, CommitErrorReply, Reply
  <2>2. OwnerRemains'
    BY <2>1 DEF Quiet, OwnerRemains, Owners
  <2> QED BY <2>1, <2>2, QuietEnd
<1>6. ASSUME NEW r \in Requests,
             BadRequest(r) \/ Refuse(r) \/ TargetMissing(r) \/ TargetOutOfReach(r) \/ OnlyOwner(r)
      PROVE  Quiet'
  <2>1. PICK status \in Refused : Respond(r, status) /\ pc[r] \in {"begun", "count"}
                                 /\ UNCHANGED <<memb, msg>>
    BY <1>6 DEF BadRequest, Refuse, TargetMissing, TargetOutOfReach, OnlyOwner, Refused
  <2>2. /\ pc' = [pc EXCEPT ![r] = "commit"] /\ pc'[r] = "commit"
        /\ \A s \in Requests \ {r} : tx'[s] = tx[s]
        /\ tx'[r].logged = tx[r].logged
    BY <2>1 DEF Respond, GoTo, AuditInv, TypeInv, TypeOK, Transaction
  <2>3. ~HasRead(r)'
    BY <2>1, <2>2 DEF HasRead, AuditInv, TypeInv, NothingPending, Early
  <2> QED BY <2>1, <2>2, <2>3, QuietInside DEF Takes, Open
<1>7. ASSUME NEW r \in Requests, ReadTarget(r) PROVE Quiet'
  <2> DEFINE role == memb[msg[r].target]
             to == IF TakesOwner(msg[r], role) THEN "count" ELSE "write"
  <2>1. /\ pc[r] = "begun" /\ pc' = [pc EXCEPT ![r] = to] /\ pc'[r] = to
        /\ tx'[r].seen = role /\ \A s \in Requests \ {r} : tx'[s] = tx[s]
        /\ UNCHANGED <<memb, msg>>
    BY <1>7 DEF ReadTarget, GoTo, AuditInv, TypeInv, TypeOK, Transaction
  <2>2. ~Takes(r)'
    BY <2>1 DEF Takes, TakesOwner
  <2> QED BY <2>1, <2>2, QuietInside DEF Open
<1>8. ASSUME NEW r \in Requests, CountOwners(r) PROVE Quiet'
  <2>1. /\ pc[r] = "count" /\ Cardinality(Owners(memb)) > 1
        /\ pc' = [pc EXCEPT ![r] = "write"] /\ pc'[r] = "write" /\ UNCHANGED <<memb, msg, tx>>
    BY <1>8 DEF CountOwners, GoTo, AuditInv, TypeInv, TypeOK
  <2>2. tx[r].seen = memb[msg[r].target]
    BY <2>1 DEF Quiet, HasRead
  <2> QED BY <2>1, <2>2, QuietInside DEF Open
<1>9. ASSUME NEW r \in Requests, Write(r) PROVE Quiet'
  <2>1. PICK found \in BOOLEAN : /\ tx' = [tx EXCEPT ![r].touched = found]
                                /\ found = (memb[msg[r].target] # NoRole)
    BY <1>9 DEF Write
  <2>2. /\ pc[r] = "write" /\ pc' = [pc EXCEPT ![r] = "audit"] /\ pc'[r] = "audit"
        /\ UNCHANGED <<memb, msg>>
    BY <1>9 DEF Write, GoTo, AuditInv, TypeInv, TypeOK
  <2>3. tx'[r].touched = found /\ tx'[r].seen = tx[r].seen
        /\ \A s \in Requests \ {r} : tx'[s] = tx[s]
    BY <2>1 DEF AuditInv, TypeInv, TypeOK, Transaction
  <2>4. tx[r].seen = memb[msg[r].target] /\ tx[r].seen \in Role
    BY <2>2 DEF Quiet, HasRead, AuditInv, TypeInv, RoleSeen
  <2>5. found
    BY <2>1, <2>4 DEF Role, NoRole
  <2>6. Takes(r)' => Takes(r)
    BY <2>2, <2>3 DEF Takes, HasRead
  <2>7. Takes(r)' => Cardinality(Owners(memb)) > 1
    BY <2>6 DEF Quiet
  <2>8. HasRead(r)' => tx'[r].seen = memb[msg[r].target]
    BY <2>3, <2>4
  <2>9. tx'[r].touched
    BY <2>3, <2>5
  <2>10. r \in Open
    BY <2>2 DEF Open
  <2> QED BY <2>2, <2>3, <2>7, <2>8, <2>9, <2>10, QuietInside
<1>10. ASSUME NEW r \in Requests, WriteAudit(r) PROVE Quiet'
  <2>1. PICK ok \in BOOLEAN :
          tx' = [tx EXCEPT ![r].logged = ok, ![r].aborted = ~ok, ![r].reply = "204"]
    BY <1>10 DEF WriteAudit
  <2>2. /\ pc[r] = "audit" /\ pc' = [pc EXCEPT ![r] = "commit"] /\ pc'[r] = "commit"
        /\ UNCHANGED <<memb, msg>>
    BY <1>10 DEF WriteAudit, GoTo, AuditInv, TypeInv, TypeOK
  <2>3. tx'[r].touched = tx[r].touched /\ tx'[r].seen = tx[r].seen
        /\ \A s \in Requests \ {r} : tx'[s] = tx[s]
    BY <2>1 DEF AuditInv, TypeInv, TypeOK, Transaction
  <2>4. HasRead(r) /\ tx[r].touched /\ tx[r].seen = memb[msg[r].target]
    BY <2>2 DEF Quiet, HasRead
  <2>5. Takes(r)' => Takes(r)
    BY <2>2, <2>3, <2>4 DEF Takes
  <2>6. Takes(r)' => Cardinality(Owners(memb)) > 1
    BY <2>5 DEF Quiet
  <2>7. r \in Open
    BY <2>2 DEF Open
  <2> QED BY <2>2, <2>3, <2>4, <2>6, <2>7, QuietInside
<1>11. ASSUME NEW r \in Requests, Commit(r) \/ CommitLost(r) PROVE Quiet'
  <2>1. /\ \E status \in Reply : Finish(r, status)
        /\ pc[r] = "commit" /\ ~tx[r].aborted /\ UNCHANGED msg
        /\ Apply(r) \/ UNCHANGED memb
    BY <1>11 DEF Commit, CommitLost, CommitErrorReply, Reply, AuditInv, TypeInv, TypeOK, Transaction
  <2>2. OwnerRemains'
    BY <2>1, OwnerAfterApply DEF Quiet, OwnerRemains, Owners
  <2> QED BY <2>1, <2>2, QuietEnd
<1>12. CASE UNCHANGED vars
  BY <1>12, QuietKept DEF vars, Owners
<1> QED
  BY <1>1, <1>2, <1>3, <1>4, <1>5, <1>6, <1>7, <1>8, <1>9, <1>10, <1>11, <1>12
     DEF Next, Serve, Step, Fault

\* Overlap is never forgotten.
LEMMA OverlapStays == TypeOK /\ overlapped /\ [Next]_vars => overlapped'
BY DEF Next, Serve, Step, Fault, Sign, Expire, Join, Send, Begin, BeginFails, BadRequest, Refuse,
   TargetMissing, TargetOutOfReach, ReadTarget, OnlyOwner, CountOwners, Write, StatementFails,
   WriteAudit, Commit, CommitRefused, CommitLost, vars

LEMMA IInvStep == IInv /\ [Next]_vars => IInv'
<1>1. AuditInv /\ [Next]_vars => AuditInv'
  BY AuditStep
<1>2. AuditInv /\ (overlapped \/ Quiet) /\ [Next]_vars => overlapped' \/ Quiet'
  BY QuietStep, OverlapStays DEF AuditInv, TypeInv
<1>3. IInv' <=> AuditInv' /\ (overlapped' \/ Quiet')
  BY IInvParts, PTL
<1> QED BY <1>1, <1>2, <1>3, IInvParts

THEOREM Inductive == Spec => []IInv
BY IInitial, IInvStep, PTL DEF Spec

\* The tenant keeps an owner as long as no two of the transactions overlap,
\* for any number of requests, users and connections and whatever fails.
THEOREM OwnerKept == Spec => []OwnerRemainsUnlessOverlap
<1>1. IInv => OwnerRemainsUnlessOverlap
  BY DEF IInv
<1> QED BY <1>1, Inductive, PTL

-----------------------------------------------------------------------------
(* The table and the log implement Roster.                                 *)

LEMMA RosterInit == Init => R!Init
BY DEF Init, R!Init, RoleOrNone, Role, NoRole, R!Role, R!NoRole, Owners, R!OwnedBy

LEMMA RosterApply ==
  ASSUME IInv, NEW r \in Requests, pc[r] = "commit", ~tx[r].aborted, Apply(r), UNCHANGED overlapped
  PROVE  [R!Next]_(R!vars)
<1>1. AuditInv /\ (overlapped \/ Quiet)
  BY IInvParts
<1>2. CASE ~tx[r].logged
  <2>1. ~tx[r].touched
    BY <1>1, <1>2 DEF AuditInv, Settled
  <2> QED BY <1>2, <2>1 DEF Apply, R!vars
<1>3. CASE tx[r].logged
  <2> DEFINE e == EventOf(r)
  <2>1. e \in Event
    BY <1>1, <1>3, EventType DEF AuditInv
  <2>2. e.req = r /\ e.target = msg[r].target /\ e.new = msg[r].role /\ e.old = tx[r].seen
    BY DEF EventOf
  <2>3. \A f \in audit : f.req # e.req
    BY <1>1, <2>2 DEF AuditInv, AuditOfDone
  <2>4. R!Append(e)
    BY <1>3, <2>1, <2>3 DEF R!Append, Apply
  <2>7. e \in audit' \ audit
    BY <1>3, <2>3 DEF Apply
  <2>5. CASE overlapped
    <3>1. memb' \in {memb, [memb EXCEPT ![e.target] = e.new]}
      BY <2>2 DEF Apply
    <3>2. R!BlindChange(e)
      BY <2>4, <2>5, <3>1 DEF R!BlindChange
    <3> QED BY <2>7, <3>2 DEF R!Next
  <2>6. CASE Quiet
    <3>1. HasRead(r) /\ tx[r].seen = memb[msg[r].target] /\ tx[r].touched
      BY <1>3, <2>6 DEF HasRead, Quiet
    <3>2. e.old = memb[e.target] /\ memb' = [memb EXCEPT ![e.target] = e.new]
      BY <2>2, <3>1 DEF Apply
    <3>3. Owners(memb') # {}
      BY <1>1, <2>6, OwnerAfterApply DEF OwnerRemains
    <3>4. R!Change(e)
      BY <2>4, <3>2, <3>3 DEF R!Change, Owners, R!OwnedBy
    <3> QED BY <2>7, <3>4 DEF R!Next
  <2> QED BY <1>1, <2>5, <2>6
<1> QED BY <1>2, <1>3

LEMMA RosterStep == IInv /\ [Next]_vars => [R!Next]_(R!vars)
<1> SUFFICES ASSUME IInv, [Next]_vars PROVE [R!Next]_(R!vars)
  OBVIOUS
<1>1. CASE UNCHANGED <<memb, audit, overlapped>>
  BY <1>1 DEF R!vars
<1>2. ASSUME NEW u \in Users, NEW role \in {"admin", "member", "viewer"}, Join(u, role)
      PROVE  [R!Next]_(R!vars)
  <2>1. R!Join(u)
    BY <1>2 DEF Join, R!Join, R!Role, R!NoRole, NoRole
  <2> QED BY <2>1 DEF R!Next
<1>3. ASSUME NEW r \in Requests, Begin(r) PROVE [R!Next]_(R!vars)
  <2>1. CASE overlapped' = overlapped
    BY <1>3, <2>1, <1>1 DEF Begin
  <2>2. CASE overlapped' # overlapped
    <3>1. overlapped' = TRUE
      BY <1>3, <2>2 DEF Begin, IInv, TypeOK
    <3> QED BY <1>3, <3>1 DEF Begin, R!Next, R!Contend
  <2> QED BY <2>1, <2>2
<1>4. ASSUME NEW r \in Requests, Commit(r) \/ CommitLost(r) PROVE [R!Next]_(R!vars)
  <2>1. pc[r] = "commit" /\ ~tx[r].aborted /\ UNCHANGED overlapped
        /\ (Apply(r) \/ UNCHANGED <<memb, audit>>)
    BY <1>4 DEF Commit, CommitLost
  <2> QED BY <2>1, <1>1, RosterApply
<1>5. CASE \/ UNCHANGED vars
           \/ \E u \in Users : Sign(u) \/ Expire(u)
           \/ \E r \in Requests, m \in Message : Send(r, m)
           \/ \E r \in Requests :
                \/ BeginFails(r) \/ BadRequest(r) \/ Refuse(r) \/ TargetMissing(r) \/ TargetOutOfReach(r)
                \/ ReadTarget(r) \/ OnlyOwner(r) \/ CountOwners(r) \/ Write(r)
                \/ StatementFails(r) \/ WriteAudit(r) \/ CommitRefused(r)
  <2>1. UNCHANGED <<memb, audit, overlapped>>
    BY <1>5 DEF vars, Sign, Expire, Send, BeginFails, BadRequest, Refuse, TargetMissing, TargetOutOfReach,
       ReadTarget, OnlyOwner, CountOwners, Write, StatementFails, WriteAudit, CommitRefused
  <2> QED BY <2>1, <1>1
<1> QED
  BY <1>2, <1>3, <1>4, <1>5 DEF Next, Serve, Step, Fault

\* The tenant's table and audit log implement the abstract roster: serial
\* changes, each logged with the role it replaced, and always an owner, until
\* transactions overlap.
THEOREM RosterImplemented == Spec => ImplementsRoster
<1>1. ImplementsRoster <=> R!Init /\ [][R!Next]_(R!vars)
  BY DEF ImplementsRoster, R!Spec
<1> QED BY <1>1, RosterInit, RosterStep, Inductive, PTL DEF Spec
-----------------------------------------------------------------------------
(* Whom an admin removes.                                                  *)

\* Who goes on has compared the role that it read, in any interleaving.
SeenWithinReach == \A r \in Requests : HasRead(r) => ~OutOfReach(msg[r], tx[r].seen)

LEMMA WithinReachStep == AuditInv /\ SeenWithinReach /\ [Next]_vars => SeenWithinReach'
<1> SUFFICES ASSUME AuditInv, SeenWithinReach, [Next]_vars, NEW r \in Requests, HasRead(r)'
             PROVE  ~OutOfReach(msg'[r], tx'[r].seen)
  BY DEF SeenWithinReach
<1>1. CASE HasRead(r) /\ msg'[r] = msg[r] /\ tx'[r].seen = tx[r].seen
  BY <1>1 DEF SeenWithinReach
<1>2. CASE ReadTarget(r)
  BY <1>2 DEF ReadTarget, AuditInv, TypeInv, TypeOK, Transaction
<1>3. ASSUME NEW s \in Requests, s # r,
             \/ Begin(s) \/ BeginFails(s) \/ BadRequest(s) \/ Refuse(s) \/ TargetMissing(s)
             \/ TargetOutOfReach(s) \/ ReadTarget(s) \/ OnlyOwner(s) \/ CountOwners(s) \/ Write(s)
             \/ StatementFails(s) \/ WriteAudit(s) \/ Commit(s) \/ CommitRefused(s) \/ CommitLost(s)
      PROVE  HasRead(r) /\ msg'[r] = msg[r] /\ tx'[r].seen = tx[r].seen
  <2>1. pc'[r] = pc[r] /\ tx'[r] = tx[r] /\ msg' = msg
    BY <1>3 DEF AuditInv, TypeInv, TypeOK, GoTo, Respond, Finish, Begin, BeginFails, BadRequest, Refuse,
           TargetMissing, TargetOutOfReach, ReadTarget, OnlyOwner, CountOwners, Write, StatementFails,
           WriteAudit, Commit, CommitRefused, CommitLost
  <2> QED BY <2>1 DEF HasRead
<1>4. CASE CountOwners(r) \/ Write(r) \/ WriteAudit(r)
  <2>1. HasRead(r) /\ msg' = msg
    BY <1>4 DEF CountOwners, Write, WriteAudit, HasRead
  <2>2. tx'[r].seen = tx[r].seen
    <3>1. CASE CountOwners(r)
      BY <3>1 DEF CountOwners
    <3>2. CASE Write(r)
      <4>1. \E found \in BOOLEAN : tx' = [tx EXCEPT ![r].touched = found]
        BY <3>2 DEF Write
      <4> QED BY <4>1 DEF AuditInv, TypeInv, TypeOK, Transaction
    <3>3. CASE WriteAudit(r)
      BY <3>3 DEF WriteAudit, AuditInv, TypeInv, TypeOK, Transaction
    <3> QED BY <1>4, <3>1, <3>2, <3>3
  <2> QED BY <2>1, <2>2, <1>1
<1>5. CASE \/ Begin(r) \/ BeginFails(r) \/ StatementFails(r) \/ Commit(r) \/ CommitRefused(r) \/ CommitLost(r)
  <2>1. pc'[r] \in {"begun", "done"}
    BY <1>5 DEF GoTo, Finish, Begin, BeginFails, StatementFails, Commit, CommitRefused, CommitLost,
           AuditInv, TypeInv, TypeOK
  <2> QED BY <2>1 DEF HasRead
<1>6. CASE BadRequest(r) \/ Refuse(r) \/ TargetMissing(r) \/ TargetOutOfReach(r) \/ OnlyOwner(r)
  <2>1. pc'[r] = "commit" /\ tx'[r].logged = tx[r].logged /\ pc[r] \in {"begun", "count"}
    BY <1>6 DEF BadRequest, Refuse, TargetMissing, TargetOutOfReach, OnlyOwner, Respond, GoTo,
           AuditInv, TypeInv, TypeOK, Transaction
  <2> QED BY <2>1 DEF HasRead, AuditInv, TypeInv, NothingPending, Early
<1>7. ASSUME NEW s \in Requests, NEW m \in Message, Send(s, m)
      PROVE  HasRead(r) /\ msg'[r] = msg[r] /\ tx'[r].seen = tx[r].seen
  <2>1. tx' = tx /\ pc[s] = "idle" /\ pc'[s] = "sent"
        /\ \A q \in Requests \ {s} : pc'[q] = pc[q] /\ msg'[q] = msg[q]
    BY <1>7 DEF Send, GoTo, AuditInv, TypeInv, TypeOK
  <2> QED BY <2>1 DEF HasRead
<1>8. CASE UNCHANGED vars \/ \E u \in Users : Sign(u) \/ Expire(u) \/ \E role \in {"admin", "member", "viewer"} : Join(u, role)
  BY <1>8, <1>1 DEF vars, Sign, Expire, Join, HasRead
<1> QED
  BY <1>1, <1>2, <1>3, <1>4, <1>5, <1>6, <1>7, <1>8 DEF Next, Serve, Step, Fault

\* handlers_members.go:140: an admin's DELETE, as long as no transactions have
\* overlapped, never commits the removal of an admin or an owner.
THEOREM AdminsSparePeers == Spec => AdminsSparePeersUnlessOverlap
<1> DEFINE Spared == \A r \in Requests, u \in Users :
                       TakenAwayBy(r, u) /\ msg[r].claim = "admin"
                         => overlapped \/ memb[u] \notin {"admin", "owner"}
<1>1. Init => SeenWithinReach
  BY DEF Init, SeenWithinReach, HasRead
<1>2. IInv /\ SeenWithinReach /\ [Next]_vars => SeenWithinReach'
  BY IInvParts, WithinReachStep
<1>3. IInv /\ SeenWithinReach /\ [Next]_vars => [Spared]_vars
  <2> SUFFICES ASSUME IInv, SeenWithinReach, Next, NEW r \in Requests, NEW u \in Users, TakenAwayBy(r, u),
                      msg[r].claim = "admin", ~overlapped
               PROVE  memb[u] \notin {"admin", "owner"}
    OBVIOUS
  <2>1. AuditInv /\ Quiet
    BY IInvParts
  <2>2. PICK s \in Requests : Apply(s) /\ ~tx[s].aborted /\ pc[s] = "commit" /\ pc'= [pc EXCEPT ![s] = "done"]
    <3>1. pc'[r] # pc[r] /\ memb' # memb
      BY DEF TakenAwayBy
    <3> QED BY <3>1 DEF Next, Serve, Step, Fault, Sign, Expire, Join, Send, Begin, BeginFails, BadRequest,
             Refuse, TargetMissing, TargetOutOfReach, ReadTarget, OnlyOwner, CountOwners, Write,
             StatementFails, WriteAudit, Commit, CommitRefused, CommitLost, Finish, GoTo
  <2>3. s = r
    BY <2>1, <2>2 DEF TakenAwayBy, AuditInv, TypeInv, TypeOK
  <2>4. tx[r].touched
    BY <2>2, <2>3 DEF TakenAwayBy, Apply
  <2>5. HasRead(r)
    BY <2>1, <2>2, <2>3, <2>4 DEF HasRead, AuditInv, Settled
  <2>6. ~OutOfReach(msg[r], memb[u])
    BY <2>1, <2>5 DEF SeenWithinReach, Quiet, TakenAwayBy
  <2> QED BY <2>6 DEF OutOfReach, TakenAwayBy, RoleAtLeast, roleWeight
<1>4. Spec => []SeenWithinReach
  BY <1>1, <1>2, Inductive, PTL DEF Spec
<1>5. Spec => [][Spared]_vars
  BY <1>3, <1>4, Inductive, PTL DEF Spec
<1> QED BY <1>5 DEF AdminsSparePeersUnlessOverlap

=============================================================================
