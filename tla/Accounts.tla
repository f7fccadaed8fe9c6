------------------------------- MODULE Accounts -------------------------------
(***************************************************************************)
(* Registration, login and the changes of address and password             *)
(* (handlers_auth.go, handlers_me.go).  A registration inserts a tenant, a *)
(* user and a membership in one transaction of the handler's own, then     *)
(* works on without one; the other handlers never have one.  A user and    *)
(* its first tenant take the id of the request that registers them.        *)
(*                                                                         *)
(* An INSERT or UPDATE waits for the transaction that is about to commit,  *)
(* or to give up, the same key of a unique index.  An UPDATE of a row      *)
(* first marks it, and with it the keys it has: who marks one waits        *)
(* with the old address in its hands.                                      *)
(***************************************************************************)
EXTENDS Naturals, SequencesExt

CONSTANTS
  Names,                  \* tenant names, sequences of characters
  Emails, Passwords,
  Requests                \* the requests, each sent once

None == "none"
ASSUME NoneAssumption == None \notin Requests
ASSUME NamesAssumption == Names \subseteq Seq(STRING)

VARIABLES
  users, tenants, sessions,   \* the tables users, tenants and refresh_tokens
  members,                    \* the users who have a membership
  log,                        \* the requests with a password_changed audit event
  pc, msg,                    \* each request: progress, and what it asks for
  found,                      \* each login: the user it found
  overtook                    \* history: <<q, r>> if q replaced the password of its user
                              \* when r had verified and not yet replaced it

tables == <<users, tenants, sessions, members, log>>
vars == <<tables, pc, msg, found, overtook>>

Letters == {"a", "A", "b", "B"}
ToLower == [c \in Letters |-> CASE c = "A" -> "a" [] c = "B" -> "b" [] OTHER -> c]

Write(b, c) ==
  CASE c \in Letters -> Append(b, ToLower[c])
    [] c \notin Letters /\ b # <<>> /\ Last(b) = "-" -> b
    [] OTHER -> Append(b, "-")

\* What the loop has written after each number of characters.
Built(s) ==
  LET b[k \in 0..Len(s)] == IF k = 0 THEN <<>> ELSE Write(b[k - 1], s[k])
  IN  b

\* Deviation: dashes are trimmed at the end only.
slugifyLeading(s) ==
  LET b == Built(s)[Len(s)]
  IN  IF b # <<>> /\ Last(b) = "-" THEN Front(b) ELSE b

\* Runs of letters and digits in lower case, a dash between any two.
slugify(s) ==
  LET b == Built(s)[Len(s)]
      first == IF b # <<>> /\ Head(b) = "-" THEN 2 ELSE 1
      last == IF b # <<>> /\ Last(b) = "-" THEN Len(b) - 1 ELSE Len(b)
  IN  SubSeq(b, first, last)

Slugs == {slugify(n) : n \in Names}

Reply == {"200", "201", "204", "400", "401", "409 email", "409 name", "500"}

\* register: sent, tenanted, usered, membered, created; login: sent, known, placed;
\* password: sent, verified, changed; email: sent, marked.
Pc == {"idle", "sent", "tenanted", "usered", "membered", "created", "known", "placed",
       "verified", "changed", "marked"} \cup Reply

Message ==
  [kind : {"register"}, name : Names, email : Emails, password : Passwords]
    \cup [kind : {"login"}, email : Emails, password : Passwords]
    \cup [kind : {"password"}, user : Requests, current : Passwords, new : Passwords]
    \cup [kind : {"email"}, user : Requests, email : Emails]
NoMessage == [kind |-> None]

Ids(table) == {x.id : x \in table}

\* A login that goes on has found a user who exists; no slug is of no name.
TypeOK ==
  /\ users \subseteq [id : Requests, email : Emails, password : Passwords]
  /\ tenants \subseteq [id : Requests, name : Names, slug : Slugs]
  /\ sessions \subseteq [user : Requests, by : Requests]
  /\ members \subseteq Requests
  /\ log \subseteq Requests
  /\ pc \in [Requests -> Pc]
  /\ msg \in [Requests -> Message \cup {NoMessage}]
  /\ found \in [Requests -> Requests \cup {None}]
  /\ \A r \in Requests : pc[r] \in {"known", "placed"} => found[r] \in Ids(users)
  /\ overtook \subseteq Requests \X Requests

Init ==
  /\ users = {} /\ tenants = {} /\ sessions = {} /\ members = {} /\ log = {}
  /\ pc = [r \in Requests |-> "idle"]
  /\ msg = [r \in Requests |-> NoMessage]
  /\ found = [r \in Requests |-> None]
  /\ overtook = {}

-----------------------------------------------------------------------------

GoTo(r, to) == pc' = [pc EXCEPT ![r] = to]
At(r, where, kind) == pc[r] = where /\ msg[r].kind = kind

\* A step that leaves the tables as they are.
Turn(r, to) == GoTo(r, to) /\ UNCHANGED <<tables, msg, found, overtook>>

\* /me is for who has an account.
Send(r, m) ==
  /\ pc[r] = "idle"
  /\ m.kind \in {"password", "email"} => m.user \in Ids(users)
  /\ GoTo(r, "sent")
  /\ msg' = [msg EXCEPT ![r] = m]
  /\ UNCHANGED <<tables, found, overtook>>

\* Part of the body is missing, or a password is too short.
BadRequest(r) ==
  /\ pc[r] = "sent"
  /\ Turn(r, "400")

\* A statement, BEGIN, COMMIT or bcrypt fails, or PostgreSQL finds that it waits in a
\* circle: an open transaction is rolled back, what was committed before stays.  A login
\* takes a user whom it could not read for one who does not exist.
Fails(r) ==
  /\ pc[r] \notin {"idle"} \cup Reply
  /\ Turn(r, IF At(r, "sent", "login") THEN "401" ELSE "500")

\* A user leaves the only tenant they have (handleRemoveMember).
Leave(u) ==
  /\ u \in members
  /\ members' = members \ {u}
  /\ UNCHANGED <<users, tenants, sessions, log, pc, msg, found, overtook>>

\* What q's open transaction has inserted already, and not yet committed.
HoldsSlug(q, s) ==
  pc[q] \in {"tenanted", "usered", "membered"} /\ slugify(msg[q].name) = s

\* Deviation: a registration that fails leaves its transaction open.
HoldsEmailForGood(q, e) ==
  /\ At(q, "usered", "register") \/ At(q, "membered", "register") \/ At(q, "500", "register")
  /\ msg[q].email = e

HoldsEmail(q, e) ==
  \/ pc[q] \in {"usered", "membered"} /\ msg[q].email = e
  \/ At(q, "marked", "email") /\ \E u \in users : u.id = msg[q].user /\ u.email = e

\* The row of a user whose address is about to change, which whoever refers to the user
\* by a foreign key has to wait for.
HoldsUser(q, u) == At(q, "marked", "email") /\ msg[q].user = u

\* The user a session is for.
SessionUser(r) == IF msg[r].kind = "login" THEN found[r] ELSE r

\* The next statement of r waits for the transaction of q.
WaitsFor(r, q) ==
  \/ At(r, "sent", "register") /\ HoldsSlug(q, slugify(msg[r].name))
  \/ At(r, "tenanted", "register") /\ HoldsEmail(q, msg[r].email)
  \/ At(r, "marked", "email") /\ q # r /\ HoldsEmail(q, msg[r].email)
  \/ /\ At(r, "sent", "email") \/ At(r, "verified", "password") \/ At(r, "changed", "password")
     /\ HoldsUser(q, msg[r].user)
  \/ /\ At(r, "created", "register") \/ At(r, "placed", "login")
     /\ HoldsUser(q, SessionUser(r))

MayProceed(r) == \A q \in Requests : ~WaitsFor(r, q)

-----------------------------------------------------------------------------
(* POST /auth/register.                                                    *)

\* Deviation: the statement runs on the pool, outside the transaction.
InsertTenantDirect(r) ==
  /\ At(r, "sent", "register")
  /\ MayProceed(r)
  /\ IF \E t \in tenants : t.slug = slugify(msg[r].name)
     THEN GoTo(r, "409 name") /\ UNCHANGED tenants
     ELSE /\ GoTo(r, "tenanted")
          /\ tenants' = tenants \cup
               {[id |-> r, name |-> msg[r].name, slug |-> slugify(msg[r].name)]}
  /\ UNCHANGED <<users, sessions, members, log, msg, found, overtook>>

InsertTenant(r) ==
  /\ At(r, "sent", "register")
  /\ MayProceed(r)
  /\ Turn(r, IF \E t \in tenants : t.slug = slugify(msg[r].name)
             THEN "409 name" ELSE "tenanted")

\* Deviation: an address that is about to be taken is taken.
InsertUserImpatient(r) ==
  /\ At(r, "tenanted", "register")
  /\ Turn(r, IF ~MayProceed(r) \/ \E u \in users : u.email = msg[r].email
             THEN "409 email" ELSE "usered")

InsertUser(r) ==
  /\ At(r, "tenanted", "register")
  /\ MayProceed(r)
  /\ Turn(r, IF \E u \in users : u.email = msg[r].email THEN "409 email" ELSE "usered")

InsertMember(r) ==
  /\ At(r, "usered", "register")
  /\ Turn(r, "membered")

\* The answer to COMMIT may be lost.
Commit(r) ==
  /\ At(r, "membered", "register")
  /\ users' = users \cup {[id |-> r, email |-> msg[r].email, password |-> msg[r].password]}
  /\ tenants' = tenants \cup
       {[id |-> r, name |-> msg[r].name, slug |-> slugify(msg[r].name)]}
  /\ members' = members \cup {r}
  /\ \E to \in {"created", "500"} : GoTo(r, to)
  /\ UNCHANGED <<sessions, log, msg, found, overtook>>

\* The refresh token, of a registration or a login; then the cookies are set.
Store(r) ==
  /\ At(r, "created", "register") \/ At(r, "placed", "login")
  /\ MayProceed(r)
  /\ sessions' = sessions \cup {[user |-> SessionUser(r), by |-> r]}
  /\ \E reply \in {IF msg[r].kind = "login" THEN "200" ELSE "201", "500"} : GoTo(r, reply)
  /\ UNCHANGED <<users, tenants, members, log, msg, found, overtook>>

-----------------------------------------------------------------------------
(* POST /auth/login.                                                       *)

\* Deviation: what Verify returns is looked at only if there was a row.
FindUserUnchecked(r) ==
  /\ At(r, "sent", "login")
  /\ IF \E u \in users : u.email = msg[r].email /\ u.password # msg[r].password
     THEN Turn(r, "401")
     ELSE /\ GoTo(r, "known")
          /\ found' = [found EXCEPT ![r] =
               CHOOSE i \in Requests \cup {None} :
                 IF \E u \in users : u.email = msg[r].email
                 THEN \E u \in users : u.email = msg[r].email /\ u.id = i
                 ELSE i = None]
          /\ UNCHANGED <<tables, msg, overtook>>

FindUser(r) ==
  /\ At(r, "sent", "login")
  /\ \/ /\ \A u \in users : u.email = msg[r].email => u.password # msg[r].password
        /\ Turn(r, "401")
     \/ \E u \in users :
          /\ u.email = msg[r].email /\ u.password = msg[r].password
          /\ GoTo(r, "known")
          /\ found' = [found EXCEPT ![r] = u.id]
          /\ UNCHANGED <<tables, msg, overtook>>

FindTenant(r) ==
  /\ At(r, "known", "login")
  /\ Turn(r, IF found[r] \in members THEN "placed" ELSE "400")

-----------------------------------------------------------------------------
(* PUT /me/password and PUT /me.                                           *)

\* Deviation: what Verify returns is not looked at.
VerifyCurrentUnchecked(r) ==
  /\ At(r, "sent", "password")
  /\ Turn(r, "verified")

VerifyCurrent(r) ==
  /\ At(r, "sent", "password")
  /\ \E u \in users :
       /\ u.id = msg[r].user
       /\ Turn(r, IF u.password = msg[r].current THEN "verified" ELSE "401")

\* The other changes of the same password that are between their two statements.
Overtaken(r) ==
  {q \in Requests \ {r} : At(q, "verified", "password") /\ msg[q].user = msg[r].user}

\* The row as it is now, with another password: the one that was verified may be
\* gone already.
UpdatePassword(r) ==
  /\ At(r, "verified", "password")
  /\ MayProceed(r)
  /\ users' = {IF u.id = msg[r].user THEN [u EXCEPT !.password = msg[r].new] ELSE u : u \in users}
  /\ overtook' = overtook \cup {r} \X Overtaken(r)
  /\ \E to \in {"changed", "500"} : GoTo(r, to)
  /\ UNCHANGED <<tenants, sessions, members, log, msg, found>>

\* writeAuditDirect has a transaction of its own, and all its errors are dropped.
WriteAuditDirect(r) ==
  /\ At(r, "changed", "password")
  /\ MayProceed(r)
  /\ log' \in {log, log \cup {r}}
  /\ GoTo(r, "204")
  /\ UNCHANGED <<users, tenants, sessions, members, msg, found, overtook>>

\* The UPDATE finds the row and marks it; then it looks whether the new address is free.
MarkUser(r) ==
  /\ At(r, "sent", "email")
  /\ MayProceed(r)
  /\ Turn(r, "marked")

UpdateMe(r) ==
  /\ At(r, "marked", "email")
  /\ MayProceed(r)
  /\ \/ /\ \E u \in users : u.id # msg[r].user /\ u.email = msg[r].email
        /\ Turn(r, "409 email")
     \/ /\ \A u \in users : u.id # msg[r].user => u.email # msg[r].email
        /\ users' = {IF u.id = msg[r].user THEN [u EXCEPT !.email = msg[r].email] ELSE u : u \in users}
        /\ \E reply \in {"204", "500"} : GoTo(r, reply)
        /\ UNCHANGED <<tenants, sessions, members, log, msg, found, overtook>>

-----------------------------------------------------------------------------

Step(r) ==
  \/ BadRequest(r) \/ InsertTenant(r) \/ InsertUser(r) \/ InsertMember(r) \/ Commit(r) \/ Store(r)
  \/ FindUser(r) \/ FindTenant(r)
  \/ VerifyCurrent(r) \/ UpdatePassword(r) \/ WriteAuditDirect(r)
  \/ MarkUser(r) \/ UpdateMe(r)

Next ==
  \/ \E r \in Requests, m \in Message : Send(r, m)
  \/ \E r \in Requests : Step(r) \/ Fails(r)
  \/ \E u \in Requests : Leave(u)

Spec == Init /\ [][Next]_vars

-----------------------------------------------------------------------------
(* Properties.                                                             *)

\* A registration leaves a user with a tenant or nothing, at every moment and
\* whatever fails; 201 means the user is there and signed in, 409 that nothing is.
RegisterIsAtomic ==
  /\ Ids(users) = Ids(tenants)
  /\ \A r \in Requests :
       /\ At(r, "201", "register") => r \in Ids(users) /\ [user |-> r, by |-> r] \in sessions
       /\ pc[r] \in {"409 email", "409 name"} /\ msg[r].kind = "register" => r \notin Ids(users)

\* Nobody is turned away for an address or a slug that was never taken: the one who
\* had it first has committed, and not merely begun.
ConflictIsReal ==
  [][\A r \in Requests : pc'[r] # pc[r] =>
       /\ pc'[r] = "409 email" => \E u \in users : u.email = msg[r].email
       /\ pc'[r] = "409 name" => \E t \in tenants : t.slug = slugify(msg[r].name)]_vars

\* The UPDATE of r replaces the password of its user.
Replaces(r, u) ==
  At(r, "verified", "password") /\ u.id = msg[r].user /\ pc'[r] # pc[r] /\ users' # users

\* The password of u is the one r gave, or another change put it there after r had
\* verified its own.
Known(r, u) ==
  u.password = msg[r].current \/ \E q \in Requests : <<q, r>> \in overtook /\ msg[q].new = u.password

\* Who replaces a password knew it; or it knew the one there was when it verified, and the
\* one it replaces is that of another change, which came between its two statements.
ReplacedWasKnown ==
  [][\A r \in Requests, u \in users : Replaces(r, u) => Known(r, u)]_vars

\* handlers_me.go:98 "current password is incorrect", and integration/main.go:263 "PUT
\* /me/password wrong current -> 401": who gives another than the current password does
\* not replace it.
WrongCurrentIsRefused ==
  [][\A r \in Requests, u \in users : Replaces(r, u) => u.password = msg[r].current]_vars

\* A slug has no dash at either end and no two in a row, and is its own slug.
SlugsAreCanonical ==
  \A t \in tenants :
    /\ \A k \in DOMAIN t.slug : t.slug[k] = "-" => k > 1 /\ k < Len(t.slug) /\ t.slug[k + 1] # "-"
    /\ slugify(t.slug) = t.slug

\* Each of S waits for one of S, and is waited for by one of S.
Circle(S) == \A r \in S : (\E q \in S : WaitsFor(r, q)) /\ (\E q \in S : WaitsFor(q, r))

\* Whoever is waited for has not been answered yet.  Those who wait for one another in a
\* circle are users who exchange their addresses, each of whom has marked its own: no
\* registration, login or change of a password ever is in one, although a registration
\* waits for an address while others wait for its slug.  (PostgreSQL ends a circle with
\* an error for one of them.)
OnlySwapsWaitInCircles ==
  /\ \A r, q \in Requests : WaitsFor(r, q) => pc[q] \notin Reply
  /\ \A S \in SUBSET Requests : Circle(S) =>
       /\ \A r \in S : At(r, "marked", "email")
       /\ {msg[r].email : r \in S} = {u.email : u \in {v \in users : \E r \in S : v.id = msg[r].user}}

-----------------------------------------------------------------------------
(* The inductive invariant.                                                *)

\* A user has the id of a registration that was committed, and no two have the same.
UsersAreRegistered ==
  /\ \A u \in users : msg[u.id].kind = "register" /\ pc[u.id] \in {"created", "201", "500"}
  /\ \A u, v \in users : u.id = v.id => u = v

CreatedIsThere == \A r \in Requests : At(r, "created", "register") => r \in Ids(users)

VerifiedIsKnown ==
  \A r \in Requests, u \in users : At(r, "verified", "password") /\ u.id = msg[r].user => Known(r, u)

\* /me is for who has an account, and accounts stay.
AskersAreUsers ==
  \A r \in Requests : msg[r].kind \in {"password", "email"} => msg[r].user \in Ids(users)

OvertakersHaveSent == \A q, r \in Requests : <<q, r>> \in overtook => pc[q] # "idle"

AInv ==
  /\ TypeOK /\ RegisterIsAtomic
  /\ UsersAreRegistered /\ CreatedIsThere /\ AskersAreUsers /\ VerifiedIsKnown /\ OvertakersHaveSent

===============================================================================
