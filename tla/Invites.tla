------------------------------- MODULE Invites -------------------------------
(***************************************************************************)
(* The invites of one tenant (handlers_invites.go): created and revoked by *)
(* its admins inside TenantTx, accepted by users who are not members yet   *)
(* in a transaction of the handler's own, which begins only after the      *)
(* invite and the user's address have been read.  Roles play no part here: *)
(* the callers of create and revoke are admins.                            *)
(*                                                                         *)
(* PostgreSQL as in Members: every statement is a step; a DELETE waits for *)
(* the transaction that holds the row, an INSERT for the one that inserts  *)
(* or deletes the same key of a unique index.                              *)
(***************************************************************************)
EXTENDS Naturals, FiniteSets

CONSTANTS Users, Emails,
          Invites,    \* the invites that can still be created
          Requests    \* the requests, each sent once

None == "none"
ASSUME NoneAssumption == None \notin Users \cup Emails \cup Invites

VARIABLES
  email,      \* users.email, unique
  members,    \* the users with a membership in the tenant
  row,        \* invites: whether a row is absent, fresh or expired
  addr,       \* the address each invite was made for
  mailed,     \* the invites whose link is out
  pc, msg,    \* each request: progress, and what it asks for
  hit,        \* each request: its DELETE found the invite and holds it
  used,       \* history: <<invite, user>> for every membership from an invite
  revoked,    \* history: the invites with an invite_revoked audit event
  had         \* history: the addresses each user has had

vars == <<email, members, row, addr, mailed, pc, msg, hit, used, revoked, had>>
tables == <<email, members, row, addr, used, revoked, had>>

\* create: sent, vetted, inserted, mailed, logged; accept: sent, known, cleared,
\* joined, spent; revoke: sent, found, deleted, logged.
Reply == {"200", "201", "204", "400", "403", "404", "409", "410", "500"}
Pc == {"idle", "sent", "vetted", "inserted", "mailed", "logged", "known", "cleared",
       "joined", "spent", "found", "deleted", "aborted"} \cup Reply

Message ==
  [kind : {"create"}, email : Emails, user : {None}, invite : Invites \cup {None}]
    \cup [kind : {"accept"}, email : {None}, user : Users, invite : Invites]
    \cup [kind : {"revoke"}, email : {None}, user : {None}, invite : Invites]
NoMessage == [kind |-> None]

\* Every variable stays in its range: an invite that is hit, used or revoked is one.
TypeOK ==
  /\ email \in [Users -> Emails]
  /\ members \subseteq Users
  /\ row \in [Invites -> {"absent", "fresh", "expired"}]
  /\ addr \in [Invites -> Emails \cup {None}]
  /\ mailed \subseteq Invites
  /\ pc \in [Requests -> Pc]
  /\ msg \in [Requests -> Message \cup {NoMessage}]
  /\ \A r \in Requests : pc[r] # "idle" => msg[r] \in Message
  /\ hit \in [Requests -> BOOLEAN]
  /\ used \subseteq Invites \X Users
  /\ revoked \subseteq Invites
  /\ had \in [Users -> SUBSET Emails]

Init ==
  /\ email \in [Users -> Emails]
  /\ \A u, v \in Users : email[u] = email[v] => u = v
  /\ members \in SUBSET Users
  /\ row = [i \in Invites |-> "absent"]
  /\ addr = [i \in Invites |-> None]
  /\ mailed = {}
  /\ pc = [r \in Requests |-> "idle"]
  /\ msg = [r \in Requests |-> NoMessage]
  /\ hit = [r \in Requests |-> FALSE]
  /\ used = {} /\ revoked = {}
  /\ had = [u \in Users |-> {email[u]}]

-----------------------------------------------------------------------------
(* The rest of the system.                                                 *)

\* PUT /me; the unique index refuses an address that is taken.
ChangeEmail(u, e) ==
  /\ \A v \in Users : email[v] # e
  /\ email' = [email EXCEPT ![u] = e]
  /\ had' = [had EXCEPT ![u] = @ \cup {e}]
  /\ UNCHANGED <<members, row, addr, mailed, pc, msg, hit, used, revoked>>

\* DELETE /members/:uid.
RemoveMember(u) ==
  /\ u \in members
  /\ members' = members \ {u}
  /\ UNCHANGED <<email, row, addr, mailed, pc, msg, hit, used, revoked, had>>

\* 48 hours pass.  Nothing deletes an expired invite.
Expire(i) ==
  /\ row[i] = "fresh"
  /\ row' = [row EXCEPT ![i] = "expired"]
  /\ UNCHANGED <<email, members, addr, mailed, pc, msg, hit, used, revoked, had>>

-----------------------------------------------------------------------------

GoTo(r, to) == pc' = [pc EXCEPT ![r] = to]
At(r, where, kind) == pc[r] = where /\ msg[r].kind = kind

\* A step that reads, or that ends a request with a refusal or an error: a
\* transaction it has open is rolled back, or commits nothing.
Turn(r, to) ==
  /\ GoTo(r, to)
  /\ UNCHANGED <<tables, mailed, msg, hit>>

\* Part of the body is missing, or the role is none that can be invited.
BadRequest(r) ==
  /\ At(r, "sent", "create") \/ At(r, "sent", "accept")
  /\ Turn(r, "400")

\* Only who has the link can accept, and only what is listed can be revoked.  The
\* bound: no more requests to create than invites left for them.
Send(r, m) ==
  /\ pc[r] = "idle"
  /\ m.kind = "create" =>
       /\ m.invite = None
       /\ Cardinality({q \in Requests : msg[q].kind = "create"}) < Cardinality(Invites)
  /\ m.kind = "accept" => m.invite \in mailed
  /\ m.kind = "revoke" => row[m.invite] = "fresh"
  /\ GoTo(r, "sent")
  /\ msg' = [msg EXCEPT ![r] = m]
  /\ UNCHANGED <<tables, mailed, hit>>

\* A statement, BEGIN or COMMIT fails; nothing of the transaction remains.
Fails(r) ==
  /\ pc[r] \notin {"idle"} \cup Reply
  /\ Turn(r, "500")

\* Deviation: a handler that fails leaves its transaction open.
InTxForGood(r) ==
  pc[r] \in {"inserted", "mailed", "logged", "joined", "spent", "deleted", "aborted", "500"}

InTx(r) == pc[r] \in {"inserted", "mailed", "logged", "joined", "spent", "deleted", "aborted"}

\* What q's open transaction has locked: the invite it deleted, that invite's
\* address or the one it inserted, the membership it inserted.
HoldsInvite(q, i) == InTx(q) /\ hit[q] /\ msg[q].invite = i
HoldsEmail(q, e) ==
  \/ InTx(q) /\ msg[q].kind = "create" /\ msg[q].email = e
  \/ \E i \in Invites : addr[i] = e /\ HoldsInvite(q, i)
HoldsMember(q, u) == InTx(q) /\ msg[q].kind = "accept" /\ msg[q].user = u

\* The next statement of r waits for the transaction of q.
WaitsFor(r, q) ==
  \/ At(r, "vetted", "create") /\ HoldsEmail(q, msg[r].email)
  \/ At(r, "cleared", "accept") /\ HoldsMember(q, msg[r].user)
  \/ (At(r, "joined", "accept") \/ At(r, "found", "revoke")) /\ HoldsInvite(q, msg[r].invite)

MayProceed(r) == \A q \in Requests : ~WaitsFor(r, q)

\* DELETE FROM invites: whether it found a row is not looked at.
DeleteInvite(r, to) ==
  /\ MayProceed(r)
  /\ hit' = [hit EXCEPT ![r] = row[msg[r].invite] # "absent"]
  /\ GoTo(r, to)
  /\ UNCHANGED <<tables, mailed, msg>>

\* The audit insert; its failure is dropped, but aborts the transaction.
WriteAudit(r) ==
  /\ At(r, "mailed", "create") \/ At(r, "deleted", "revoke")
  /\ \E ok \in BOOLEAN : Turn(r, IF ok THEN "logged" ELSE "aborted")

\* Deviation: the outcome of COMMIT is not looked at.
CommitAbortedUnseen(r) ==
  /\ pc[r] = "aborted"
  /\ Turn(r, IF msg[r].kind = "create" THEN "201" ELSE "204")

CommitAborted(r) ==
  /\ pc[r] = "aborted"
  /\ Turn(r, "500")

-----------------------------------------------------------------------------
(* POST /invites.                                                          *)

CheckNotMember(r) ==
  /\ At(r, "sent", "create")
  /\ Turn(r, IF \E u \in members : email[u] = msg[r].email THEN "409" ELSE "vetted")

\* The unique index on (tenant_id, email) has the address: whether or not the
\* invite it belongs to has expired.
Duplicate(r) ==
  /\ At(r, "vetted", "create")
  /\ MayProceed(r)
  /\ \E i \in Invites : addr[i] = msg[r].email /\ row[i] # "absent"
  /\ Turn(r, "409")

\* Deviation: ON CONFLICT DO NOTHING, and no id comes back.
InsertOrIgnore(r) ==
  /\ At(r, "vetted", "create")
  /\ MayProceed(r)
  /\ IF \E i \in Invites : addr[i] = msg[r].email /\ row[i] # "absent"
     THEN UNCHANGED <<addr, msg>>
     ELSE \E i \in Invites :
            /\ addr[i] = None
            /\ addr' = [addr EXCEPT ![i] = msg[r].email]
            /\ msg' = [msg EXCEPT ![r].invite = i]
  /\ GoTo(r, "inserted")
  /\ UNCHANGED <<email, members, row, mailed, hit, used, revoked, had>>

\* Deviation: no unique index, so that nothing is waited for.
InsertUnindexed(r) ==
  /\ At(r, "vetted", "create")
  /\ \A i \in Invites : addr[i] = msg[r].email => row[i] = "absent"
  /\ \E i \in Invites :
       /\ addr[i] = None
       /\ addr' = [addr EXCEPT ![i] = msg[r].email]
       /\ msg' = [msg EXCEPT ![r].invite = i]
  /\ GoTo(r, "inserted")
  /\ UNCHANGED <<email, members, row, mailed, hit, used, revoked, had>>

Insert(r) ==
  /\ At(r, "vetted", "create")
  /\ MayProceed(r)
  /\ \A i \in Invites : addr[i] = msg[r].email => row[i] = "absent"
  /\ \E i \in Invites :
       /\ addr[i] = None
       /\ addr' = [addr EXCEPT ![i] = msg[r].email]
       /\ msg' = [msg EXCEPT ![r].invite = i]
  /\ GoTo(r, "inserted")
  /\ UNCHANGED <<email, members, row, mailed, hit, used, revoked, had>>

\* The mail goes out before COMMIT, and its failure is ignored.
SendMail(r) ==
  /\ At(r, "inserted", "create")
  /\ mailed' \in {mailed, mailed \cup {msg[r].invite}}
  /\ GoTo(r, "mailed")
  /\ UNCHANGED <<tables, msg, hit>>

\* What COMMIT makes visible; the answer may still be lost.
CommitCreate(r) ==
  /\ At(r, "logged", "create")
  /\ row' = [row EXCEPT ![msg[r].invite] = "fresh"]
  /\ \E reply \in {"201", "500"} : GoTo(r, reply)
  /\ UNCHANGED <<email, members, addr, mailed, msg, hit, used, revoked, had>>

-----------------------------------------------------------------------------
(* POST /invites/accept.                                                   *)

FindInvite(r) ==
  /\ At(r, "sent", "accept")
  /\ Turn(r, CASE row[msg[r].invite] = "absent"  -> "404"
               [] row[msg[r].invite] = "expired" -> "410"
               [] row[msg[r].invite] = "fresh"   -> "known")

\* Deviation: whoever has the link may use it.
CheckNoEmail(r) ==
  /\ At(r, "known", "accept")
  /\ Turn(r, "cleared")

CheckEmail(r) ==
  /\ At(r, "known", "accept")
  /\ Turn(r, IF email[msg[r].user] = addr[msg[r].invite] THEN "cleared" ELSE "403")

\* Deviation: ON CONFLICT DO NOTHING.
InsertMemberOrIgnore(r) ==
  /\ At(r, "cleared", "accept")
  /\ MayProceed(r)
  /\ Turn(r, "joined")

InsertMember(r) ==
  /\ At(r, "cleared", "accept")
  /\ MayProceed(r)
  /\ Turn(r, IF msg[r].user \in members THEN "409" ELSE "joined")

Spend(r) ==
  /\ At(r, "joined", "accept")
  /\ DeleteInvite(r, "spent")

\* Deviation: COMMIT before the invite is deleted.
CommitJoinOnly(r) ==
  /\ At(r, "spent", "accept")
  /\ members' = members \cup {msg[r].user}
  /\ used' = used \cup {<<msg[r].invite, msg[r].user>>}
  /\ \E reply \in {"200", "500"} : GoTo(r, reply)
  /\ UNCHANGED <<email, row, addr, mailed, msg, hit, revoked, had>>

CommitAccept(r) ==
  /\ At(r, "spent", "accept")
  /\ members' = members \cup {msg[r].user}
  /\ row' = IF hit[r] THEN [row EXCEPT ![msg[r].invite] = "absent"] ELSE row
  /\ used' = used \cup {<<msg[r].invite, msg[r].user>>}
  /\ \E reply \in {"200", "500"} : GoTo(r, reply)
  /\ UNCHANGED <<email, addr, mailed, msg, hit, revoked, had>>

-----------------------------------------------------------------------------
(* DELETE /invites/:id.                                                    *)

FindToRevoke(r) ==
  /\ At(r, "sent", "revoke")
  /\ Turn(r, IF row[msg[r].invite] = "absent" THEN "404" ELSE "found")

Revoke(r) ==
  /\ At(r, "found", "revoke")
  /\ DeleteInvite(r, "deleted")

CommitRevoke(r) ==
  /\ At(r, "logged", "revoke")
  /\ row' = IF hit[r] THEN [row EXCEPT ![msg[r].invite] = "absent"] ELSE row
  /\ revoked' = revoked \cup {msg[r].invite}
  /\ \E reply \in {"204", "500"} : GoTo(r, reply)
  /\ UNCHANGED <<email, members, addr, mailed, msg, hit, used, had>>

-----------------------------------------------------------------------------
(* What GET /invites and GET /me/invites answer.                           *)

handleListInvites == {i \in Invites : row[i] = "fresh"}
handleMyInvites(u) == {i \in Invites : row[i] = "fresh" /\ addr[i] = email[u]}

-----------------------------------------------------------------------------

Statement(r) ==
  \/ BadRequest(r) \/ CheckNotMember(r) \/ Duplicate(r) \/ Insert(r) \/ CommitCreate(r)
  \/ FindInvite(r) \/ CheckEmail(r) \/ InsertMember(r) \/ Spend(r) \/ CommitAccept(r)
  \/ FindToRevoke(r) \/ Revoke(r) \/ CommitRevoke(r)
  \/ WriteAudit(r) \/ CommitAborted(r)

Step(r) == Statement(r) \/ SendMail(r)

Next ==
  \/ \E u \in Users, e \in Emails : ChangeEmail(u, e)
  \/ \E u \in Users : RemoveMember(u)
  \/ \E i \in Invites : Expire(i)
  \/ \E r \in Requests, m \in Message : Send(r, m)
  \/ \E r \in Requests : Step(r) \/ Fails(r)

Spec == Init /\ [][Next]_vars

\* Statements end, and PostgreSQL serves those who wait for a row in turn.  Nothing
\* makes the mail server answer: SendInvite has no timeout, and drops its context.
\* That it does is assumed here.
FairSpec == Spec /\ \A r \in Requests : SF_vars(Statement(r)) /\ WF_vars(SendMail(r))

-----------------------------------------------------------------------------
(* Properties.                                                             *)

\* An invite that somebody used or that was revoked is gone for good, whichever
\* of the requests that found it came first and whatever failed.
SpentInvitesAreGone ==
  \A i \in Invites : i \in revoked \/ (\E u \in Users : <<i, u>> \in used) => row[i] = "absent"

\* A 201 holds: the invite is there until it is used or revoked.
CreatedInvitesStay ==
  \A r \in Requests : At(r, "201", "create") =>
    LET i == msg[r].invite IN
    row[i] # "absent" \/ i \in revoked \/ \E u \in Users : <<i, u>> \in used

\* A membership from an invite goes to somebody whose address it was sent to, even
\* when addresses change hands while the handler is between its statements.
InviteesOnly == \A i \in Invites, u \in Users : <<i, u>> \in used => addr[i] \in had[u]

\* An address never has two invites in the table, although whether it has one is
\* checked before the INSERT, by several requests at once.
OneInvitePerAddress ==
  \A i, j \in Invites : addr[i] = addr[j] /\ row[i] # "absent" /\ row[j] # "absent" => i = j

\* Nobody joins twice: of two accepts of one user that are under way at once, of one
\* invite or of two, and of an invite whose address became a member's between the lookup
\* and the INSERT of create, one is answered 200, and the other ends in 409 and does not
\* use its invite up.
NobodyJoinsTwice ==
  [][/\ \A p \in used' \ used : p[2] \notin members
     /\ \A r \in Requests :
          At(r, "spent", "accept") /\ pc'[r] = "200" => msg[r].user \notin members]_vars

\* handlers_invites.go:167 "Insert membership and consume the invite atomically."
AcceptConsumesInvite ==
  [][\A p \in used' \ used : row[p[1]] # "absent" /\ row'[p[1]] = "absent"]_vars

\* Nobody waits for ever: whoever is waited for has not been answered yet, and
\* no requests wait for one another in a circle, however the statements of create,
\* accept and revoke on invites, addresses and memberships interleave.
NobodyWaitsForEver ==
  /\ \A r, q \in Requests : WaitsFor(r, q) => pc[q] \notin Reply
  /\ \A S \in (SUBSET Requests) \ {{}} : \E r \in S : \A q \in S : ~WaitsFor(r, q)

\* Every request is answered as long as the mail server does, through waits for the
\* invite, its address and the membership.
EveryoneIsAnswered == \A r \in Requests : pc[r] = "sent" ~> pc[r] \in Reply

\* handlers_invites.go:63 answers "an invite for this email already exists", and
\* README.md:133 says of GET /invites "List invites": the invite is one of those, and
\* one of those that GET /me/invites lists for who has the address.
ExistingInvitesAreListed ==
  \A r \in Requests, i \in Invites :
    At(r, "vetted", "create") /\ addr[i] = msg[r].email /\ row[i] # "absent"
      => /\ i \in handleListInvites
         /\ \A u \in Users : email[u] = addr[i] => i \in handleMyInvites(u)

-----------------------------------------------------------------------------
(* What the invites of Invitations are here.                               *)

Closed(i) == i \in revoked \/ \E u \in Users : <<i, u>> \in used
Life == [i \in Invites |->
          IF row[i] # "absent" THEN "open" ELSE IF Closed(i) THEN "closed" ELSE "new"]
I == INSTANCE Invitations WITH life <- Life, guests <- used

\* Invites open once and close for good, and nobody joins by one that never was open:
\* not by a link mailed before COMMIT, nor when a COMMIT fails or its answer is lost.
ImplementsInvitations == I!Spec

-----------------------------------------------------------------------------
(* The inductive invariant.                                                *)

\* A create that has inserted its invite; an accept or revoke that has found it.
Creating(r) == InTx(r) /\ msg[r].kind = "create"
Found(r) == msg[r].kind \in {"accept", "revoke"} /\ pc[r] \notin {"idle", "sent"} \cup Reply

\* An invite that nobody has inserted yet.
UnusedIsNew ==
  \A i \in Invites : addr[i] = None =>
    /\ row[i] = "absent" /\ ~Closed(i)
    /\ \A r \in Requests : Found(r) => msg[r].invite # i

\* One that is inserted and not committed, which is nobody else's.
UncommittedIsNew ==
  \A r \in Requests : Creating(r) =>
    /\ msg[r].invite \in Invites
    /\ addr[msg[r].invite] = msg[r].email
    /\ row[msg[r].invite] = "absent" /\ ~Closed(msg[r].invite)
    /\ \A q \in Requests \ {r} : Found(q) \/ Creating(q) => msg[q].invite # msg[r].invite

\* The unique index: nobody else has the address, in the table or in a transaction.
CreatesAlone ==
  \A r \in Requests : Creating(r) =>
    /\ \A i \in Invites : addr[i] = msg[r].email => row[i] = "absent"
    /\ \A q \in Requests \ {r} : Creating(q) => msg[q].email # msg[r].email

\* What has been found is there, or was.
FoundWasThere ==
  \A r \in Requests : Found(r) => row[msg[r].invite] # "absent" \/ Closed(msg[r].invite)

\* A DELETE that has found nothing will find nothing; one that has waits for nobody.
DeletedOrGone ==
  \A r \in Requests :
    /\ pc[r] \in {"spent", "deleted", "logged", "aborted"} /\ Found(r) /\ ~hit[r]
         => row[msg[r].invite] = "absent"
    /\ hit[r] => pc[r] \in {"spent", "deleted", "logged", "aborted"} \cup Reply

AddressesAreHad == \A u \in Users : email[u] \in had[u]
GuestsAreInvited ==
  \A r \in Requests : msg[r].kind = "accept" /\ pc[r] \in {"cleared", "joined", "spent"}
    => addr[msg[r].invite] \in had[msg[r].user]

IInv ==
  /\ TypeOK /\ SpentInvitesAreGone /\ CreatedInvitesStay /\ InviteesOnly /\ OneInvitePerAddress
  /\ UnusedIsNew /\ UncommittedIsNew /\ CreatesAlone
  /\ FoundWasThere /\ DeletedOrGone /\ AddressesAreHad /\ GuestsAreInvited

=============================================================================
