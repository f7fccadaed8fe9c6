------------------------------ MODULE Sessions ------------------------------
(***************************************************************************)
(* Login sessions: the rows of refresh_tokens, the two cookies of one      *)
(* browser, and the requests its tabs have in flight.  Login, refresh,     *)
(* switch and logout are handlers_auth.go with Store, Rotate, Switch and   *)
(* Revoke of security/refresh.go; "get" stands for any route behind        *)
(* AuthRequired.                                                           *)
(*                                                                         *)
(* A session is the chain of refresh tokens that one login starts: it is   *)
(* named by the request that logged in.  Other browsers have sessions of   *)
(* their own and share with this one nothing but the table.                *)
(***************************************************************************)
EXTENDS FiniteSets

CONSTANTS Users, Tenants,
          Roles,      \* the roles memberships take
          Tokens,     \* the refresh tokens Generate can still come up with
          Requests    \* the requests of the browser, each sent once

None == "none"
ASSUME NoneAssumption == None \notin Users \cup Tenants \cup Roles \cup Tokens \cup Requests

VARIABLES
  memb,       \* memberships: <<user, tenant>> -> role, or None
  row,        \* refresh_tokens: token -> its row is absent, fresh or expired
  issued,     \* what was stored with each token: user, tenant and session
  jar,        \* the browser's cookies: a refresh token and access claims
  pc, msg, work,   \* each request: progress, what it carries, what it found
  held,       \* history: every membership there has been
  loggedOut   \* history: the sessions whose token a logout has presented

vars == <<memb, row, issued, jar, pc, msg, work, held, loggedOut>>
database == <<memb, row, issued, held>>

Pc == {"idle", "sent", "checked", "holding", "rotated", "answered", "done"}

Claims == [user : Users, tenant : Tenants, role : Roles]
NoClaims == [role |-> None]
Session == [user : Users, tenant : Tenants, session : Requests]
NoSession == [session |-> None]

Jar == [refresh : Tokens \cup {None}, access : Claims \cup {NoClaims}]
EmptyJar == [refresh |-> None, access |-> NoClaims]

\* The Set-Cookie headers of an answer: none, both cookies deleted, or both set.
Keep == [cookies |-> "keep"]
Clear == [cookies |-> "clear"]
Set(t, claims) == [cookies |-> "set", jar |-> [refresh |-> t, access |-> claims]]
Answer == {Keep, Clear} \cup {Set(t, c) : t \in Tokens, c \in Claims}

\* Who types the password of a login, which workspace a switch asks for.
Order ==
  [kind : {"login"}, user : Users, tenant : {None}]
    \cup [kind : {"switch"}, user : {None}, tenant : Tenants]
    \cup [kind : {"refresh", "logout", "get"}, user : {None}, tenant : {None}]
Message == [order : Order, jar : Jar]
NoMessage == [order |-> None]

\* tenant and role: the membership read; token: the token made; answer: sent.
Work == [tenant : Tenants \cup {None}, role : Roles \cup {None},
         token : Tokens \cup {None}, answer : Answer]
Fresh == [tenant |-> None, role |-> None, token |-> None, answer |-> Keep]

\* A request under way has a message, and an answer in "set" a token and claims.
TypeOK ==
  /\ memb \in [Users \X Tenants -> Roles \cup {None}]
  /\ row \in [Tokens -> {"absent", "fresh", "expired"}]
  /\ issued \in [Tokens -> Session \cup {NoSession}]
  /\ jar \in Jar
  /\ pc \in [Requests -> Pc]
  /\ msg \in [Requests -> Message \cup {NoMessage}]
  /\ \A r \in Requests : pc[r] \notin {"idle", "done"} => msg[r] \in Message
  /\ work \in [Requests -> Work]
  /\ held \subseteq Claims
  /\ loggedOut \subseteq Requests

Memberships(m) ==
  {c \in Claims : m[<<c.user, c.tenant>>] = c.role}

Init ==
  /\ memb \in [Users \X Tenants -> Roles \cup {None}]
  /\ row = [t \in Tokens |-> "absent"]
  /\ issued = [t \in Tokens |-> NoSession]
  /\ jar = EmptyJar
  /\ pc = [r \in Requests |-> "idle"]
  /\ msg = [r \in Requests |-> NoMessage]
  /\ work = [r \in Requests |-> Fresh]
  /\ held = Memberships(memb)
  /\ loggedOut = {}

-----------------------------------------------------------------------------
(* What goes on besides the requests.                                      *)

\* The members API or an accepted invite gives, changes or takes a role.
ChangeMembership(u, tenant, role) ==
  /\ memb[<<u, tenant>>] # role
  /\ memb' = [memb EXCEPT ![<<u, tenant>>] = role]
  /\ held' = held \cup Memberships(memb')
  /\ UNCHANGED <<row, issued, jar, pc, msg, work, loggedOut>>

\* Seven days pass for a stored token.
ExpireToken(t) ==
  /\ row[t] = "fresh"
  /\ row' = [row EXCEPT ![t] = "expired"]
  /\ UNCHANGED <<memb, issued, jar, pc, msg, work, held, loggedOut>>

\* Fifteen minutes pass: the cookie's MaxAge is the token's lifetime.
ExpireAccess ==
  /\ jar.access # NoClaims
  /\ jar' = [jar EXCEPT !.access = NoClaims]
  /\ UNCHANGED <<database, pc, msg, work, loggedOut>>

\* A transaction has deleted the row and not yet ended.
Locked(t) == \E r \in Requests : pc[r] = "holding" /\ msg[r].jar.refresh = t

\* Deviation: the comparison with NOW() is the wrong way round.
PruneFresh ==
  /\ \E t \in Tokens :
       /\ row[t] = "fresh" /\ ~Locked(t)
       /\ row' = [row EXCEPT ![t] = "absent"]
  /\ UNCHANGED <<memb, issued, jar, pc, msg, work, held, loggedOut>>

\* PruneExpired, hourly: its DELETE waits for rows that are locked.
Prune ==
  /\ \E t \in Tokens : row[t] = "expired"
  /\ \A t \in Tokens : row[t] = "expired" => ~Locked(t)
  /\ row' = [t \in Tokens |-> IF row[t] = "expired" THEN "absent" ELSE row[t]]
  /\ UNCHANGED <<memb, issued, jar, pc, msg, work, held, loggedOut>>

-----------------------------------------------------------------------------
(* The browser.                                                            *)

\* A tab sends a request with the cookies of the moment.
Send(r, order) ==
  /\ pc[r] = "idle"
  /\ pc' = [pc EXCEPT ![r] = "sent"]
  /\ msg' = [msg EXCEPT ![r] = [order |-> order, jar |-> jar]]
  /\ UNCHANGED <<database, jar, work, loggedOut>>

\* The request is over, and nothing of it is kept.
Forget(r) ==
  /\ pc' = [pc EXCEPT ![r] = "done"]
  /\ msg' = [msg EXCEPT ![r] = NoMessage]
  /\ work' = [work EXCEPT ![r] = Fresh]

\* Deviation: each cookie is replaced only where the jar has none.
DeliverPartly(r) ==
  LET a == work[r].answer IN
  /\ pc[r] = "answered"
  /\ jar' = CASE a.cookies = "keep"  -> jar
              [] a.cookies = "clear" -> EmptyJar
              [] a.cookies = "set"   ->
                   [a.jar EXCEPT !.access = IF jar.access = NoClaims THEN a.jar.access ELSE jar.access]
  /\ Forget(r)
  /\ UNCHANGED <<database, loggedOut>>

\* The answer arrives, whichever order the requests were sent in.
Deliver(r) ==
  LET a == work[r].answer IN
  /\ pc[r] = "answered"
  /\ jar' = CASE a.cookies = "keep"  -> jar
              [] a.cookies = "clear" -> EmptyJar
              [] a.cookies = "set"   -> a.jar
  /\ Forget(r)
  /\ UNCHANGED <<database, loggedOut>>

\* The tab is closed or the connection breaks.
Lose(r) ==
  /\ pc[r] = "answered"
  /\ Forget(r)
  /\ UNCHANGED <<database, jar, loggedOut>>

-----------------------------------------------------------------------------
(* Steps the handlers share.                                               *)

GoTo(r, to) == pc' = [pc EXCEPT ![r] = to]

Respond(r, answer) ==
  /\ GoTo(r, "answered")
  /\ work' = [work EXCEPT ![r].answer = answer]

At(r, where, kinds) == pc[r] = where /\ msg[r].order.kind \in kinds

\* Generate's 32 random bytes have not been a token before.
New(t) == issued[t] = NoSession

Insert(t, user, tenant, session) ==
  issued' = [issued EXCEPT ![t] = [user |-> user, tenant |-> tenant, session |-> session]]

\* AuthRequired without an access token deletes both cookies.
AuthRequired(r) ==
  /\ At(r, "sent", {"get", "switch"})
  /\ msg[r].jar.access = NoClaims
  /\ Respond(r, Clear)
  /\ UNCHANGED <<database, jar, msg, loggedOut>>

Get(r) ==
  /\ At(r, "sent", {"get"})
  /\ msg[r].jar.access # NoClaims
  /\ Respond(r, Keep)
  /\ UNCHANGED <<database, jar, msg, loggedOut>>

-----------------------------------------------------------------------------
(* handleLogin.                                                            *)

\* The body is not understood, or it names no user with that password: no cookie
\* is touched.
BadRequest(r) ==
  /\ \/ At(r, "sent", {"login"})
     \/ At(r, "sent", {"switch"}) /\ msg[r].jar.access # NoClaims
  /\ Respond(r, Keep)
  /\ UNCHANGED <<database, jar, msg, loggedOut>>

\* The first membership by age; any of the user's here.
FindTenant(r) ==
  /\ At(r, "sent", {"login"})
  /\ \E tenant \in Tenants :
       LET role == memb[<<msg[r].order.user, tenant>>] IN
       /\ role # None
       /\ work' = [work EXCEPT ![r].tenant = tenant, ![r].role = role]
  /\ GoTo(r, "checked")
  /\ UNCHANGED <<database, jar, msg, loggedOut>>

NoTenant(r) ==
  /\ At(r, "sent", {"login"})
  /\ \A tenant \in Tenants : memb[<<msg[r].order.user, tenant>>] = None
  /\ Respond(r, Keep)
  /\ UNCHANGED <<database, jar, msg, loggedOut>>

\* Store commits by itself; if its reply is lost, the answer is a 500.
Store(r) ==
  /\ At(r, "checked", {"login"})
  /\ \E t \in Tokens, answer \in {TRUE, FALSE} :
       /\ New(t)
       /\ Insert(t, msg[r].order.user, work[r].tenant, r)
       /\ row' = [row EXCEPT ![t] = "fresh"]
       /\ Respond(r, IF answer
                     THEN Set(t, [user |-> msg[r].order.user, tenant |-> work[r].tenant,
                                  role |-> work[r].role])
                     ELSE Keep)
  /\ UNCHANGED <<memb, held, jar, msg, loggedOut>>

-----------------------------------------------------------------------------
(* Rotate and Switch: one transaction each.                                *)

\* handleRefresh and handleSwitch without the cookie leave the jar alone.
NoCookie(r) ==
  /\ \/ At(r, "sent", {"refresh"})
     \/ At(r, "sent", {"switch"}) /\ msg[r].jar.access # NoClaims
  /\ msg[r].jar.refresh = None
  /\ Respond(r, Keep)
  /\ UNCHANGED <<database, jar, msg, loggedOut>>

\* Deviation: the membership looked up is the one in the current workspace.
CheckMemberHere(r) ==
  LET role == memb[<<msg[r].jar.access.user, msg[r].jar.access.tenant>>] IN
  /\ At(r, "sent", {"switch"})
  /\ msg[r].jar.access # NoClaims /\ msg[r].jar.refresh # None
  /\ IF role # None
     THEN /\ work' = [work EXCEPT ![r].role = role]
          /\ GoTo(r, "checked")
     ELSE Respond(r, Keep)
  /\ UNCHANGED <<database, jar, msg, loggedOut>>

\* handleSwitch looks the membership up before the transaction, for the user
\* that the access token names.
CheckMember(r) ==
  LET role == memb[<<msg[r].jar.access.user, msg[r].order.tenant>>] IN
  /\ At(r, "sent", {"switch"})
  /\ msg[r].jar.access # NoClaims /\ msg[r].jar.refresh # None
  /\ IF role # None
     THEN /\ work' = [work EXCEPT ![r].role = role]
          /\ GoTo(r, "checked")
     ELSE Respond(r, Keep)
  /\ UNCHANGED <<database, jar, msg, loggedOut>>

AtExchange(r) ==
  \/ At(r, "sent", {"refresh"}) /\ msg[r].jar.refresh # None
  \/ At(r, "checked", {"switch"})

\* Deviation: a SELECT finds the row, and it is deleted later.
ConsumeBySelect(r) ==
  LET t == msg[r].jar.refresh IN
  /\ AtExchange(r)
  /\ IF row[t] = "fresh"
     THEN GoTo(r, "holding") /\ UNCHANGED work
     ELSE Respond(r, Clear)
  /\ UNCHANGED <<database, jar, msg, loggedOut>>

\* DELETE ... RETURNING waits for the row's lock.  No row, or one past its
\* time, is an error that rolls back: an expired row stays for Prune.
Consume(r) ==
  LET t == msg[r].jar.refresh IN
  /\ AtExchange(r)
  /\ ~Locked(t)
  /\ IF row[t] = "fresh"
     THEN GoTo(r, "holding") /\ UNCHANGED work
     ELSE Respond(r, Clear)
  /\ UNCHANGED <<database, jar, msg, loggedOut>>

\* The new row keeps the user and the session; Switch pins its own tenant.
Exchange(r, t) ==
  LET old == msg[r].jar.refresh
      tenant == IF msg[r].order.kind = "switch" THEN msg[r].order.tenant ELSE issued[old].tenant
  IN /\ New(t)
     /\ Insert(t, issued[old].user, tenant, issued[old].session)
     /\ row' = [row EXCEPT ![old] = "absent", ![t] = "fresh"]

\* Deviation: before COMMIT the old token is revoked on another connection.
CommitRotateRevoking(r) ==
  /\ At(r, "holding", {"refresh"})
  /\ ~Locked(msg[r].jar.refresh)
  /\ \E t \in Tokens :
       /\ Exchange(r, t)
       /\ work' = [work EXCEPT ![r].token = t]
  /\ GoTo(r, "rotated")
  /\ UNCHANGED <<memb, held, jar, msg, loggedOut>>

CommitRotate(r) ==
  /\ At(r, "holding", {"refresh"})
  /\ \E t \in Tokens :
       /\ Exchange(r, t)
       /\ work' = [work EXCEPT ![r].token = t]
  /\ GoTo(r, "rotated")
  /\ UNCHANGED <<memb, held, jar, msg, loggedOut>>

\* handleSwitch signs for the user of the access token.
CommitSwitch(r) ==
  /\ At(r, "holding", {"switch"})
  /\ \E t \in Tokens :
       /\ Exchange(r, t)
       /\ Respond(r, Set(t, [user |-> msg[r].jar.access.user, tenant |-> msg[r].order.tenant,
                             role |-> work[r].role]))
  /\ UNCHANGED <<memb, held, jar, msg, loggedOut>>

\* Any error of Rotate or Switch, carried out or not, ends in the same 401.
ExchangeFails(r) ==
  /\ pc[r] = "holding"
  /\ \/ \E t \in Tokens : Exchange(r, t)
     \/ UNCHANGED <<issued, row>>
  /\ Respond(r, Clear)
  /\ UNCHANGED <<memb, held, jar, msg, loggedOut>>

\* Deviation: the error of the membership lookup is not looked at.
SignUnchecked(r) ==
  LET s == issued[work[r].token]
      role == memb[<<s.user, s.tenant>>]
  IN /\ At(r, "rotated", {"refresh"})
     /\ Respond(r, Set(work[r].token, [user |-> s.user, tenant |-> s.tenant, role |-> role]))
     /\ UNCHANGED <<database, jar, msg, loggedOut>>

\* handleRefresh reads the role after the exchange: without a membership it
\* answers 500, and the browser keeps a token that is gone.
SignForRole(r) ==
  LET s == issued[work[r].token]
      role == memb[<<s.user, s.tenant>>]
  IN /\ At(r, "rotated", {"refresh"})
     /\ Respond(r, IF role = None THEN Keep
                   ELSE Set(work[r].token, [user |-> s.user, tenant |-> s.tenant, role |-> role]))
     /\ UNCHANGED <<database, jar, msg, loggedOut>>

-----------------------------------------------------------------------------
(* handleLogout.                                                           *)

\* Revoke deletes the row of the cookie's token once no transaction holds it;
\* whatever comes of it, the cookies go.
Revoke(r) ==
  LET t == msg[r].jar.refresh IN
  /\ At(r, "sent", {"logout"})
  /\ IF t = None
     THEN UNCHANGED <<row, loggedOut>>
     ELSE /\ ~Locked(t)
          /\ row' = [row EXCEPT ![t] = "absent"]
          /\ loggedOut' = loggedOut \cup {issued[t].session}
  /\ Respond(r, Clear)
  /\ UNCHANGED <<memb, issued, held, jar, msg>>

\* handleLogout ignores an error of Revoke; every other handler that cannot
\* reach the database answers 500 and touches no cookie, except in Rotate and
\* Switch, where even BEGIN failing is a 401.
StatementFails(r) ==
  /\ \/ AtExchange(r) /\ Respond(r, Clear)
     \/ At(r, "sent", {"login"}) /\ Respond(r, Keep)
     \/ At(r, "sent", {"switch"}) /\ Respond(r, Keep)
          /\ msg[r].jar.access # NoClaims /\ msg[r].jar.refresh # None
     \/ At(r, "checked", {"login"}) /\ Respond(r, Keep)
     \/ At(r, "rotated", {"refresh"}) /\ Respond(r, Keep)
     \/ At(r, "sent", {"logout"}) /\ Respond(r, Clear)
  /\ UNCHANGED <<database, jar, msg, loggedOut>>

-----------------------------------------------------------------------------

Step(r) ==
  \/ AuthRequired(r) \/ Get(r) \/ BadRequest(r)
  \/ FindTenant(r) \/ NoTenant(r) \/ Store(r)
  \/ NoCookie(r) \/ CheckMember(r) \/ Consume(r)
  \/ CommitRotate(r) \/ CommitSwitch(r) \/ SignForRole(r)
  \/ Revoke(r)
  \/ Deliver(r)

Fault(r) == ExchangeFails(r) \/ StatementFails(r) \/ Lose(r)

Environment ==
  \/ \E u \in Users, tenant \in Tenants, role \in Roles \cup {None} :
       ChangeMembership(u, tenant, role)
  \/ \E t \in Tokens : ExpireToken(t)
  \/ ExpireAccess
  \/ Prune

Next ==
  \/ Environment
  \/ \E r \in Requests, order \in Order : Send(r, order)
  \/ \E r \in Requests : Step(r) \/ Fault(r)

Spec == Init /\ [][Next]_vars

\* The handlers run and answers arrive; the ticker of main.go keeps pruning.
Fairness == WF_vars(Prune) /\ \A r \in Requests : WF_vars(Step(r))
FairSpec == Spec /\ Fairness

-----------------------------------------------------------------------------
(* Properties.                                                             *)

LiveOf(s) == {t \in Tokens : row[t] # "absent" /\ issued[t].session = s}

\* A session has at most one token in the table: however many tabs present the
\* same token to refresh and switch at once, one exchange goes through.
OneTokenPerSession == \A s \in Requests : \A t1, t2 \in LiveOf(s) : t1 = t2

\* Once a session has no row left, by logout, prune or a lost token, no refresh
\* or switch that is still under way brings it back.
DeadSessionStaysDead ==
  [][\A s \in Requests :
       (\E t \in Tokens : issued[t].session = s) /\ LiveOf(s) = {} => LiveOf(s)' = {}]_vars

\* The two cookies always speak of the same user and tenant, although their
\* contents come from different places (handleSwitch takes the user of one from
\* the access token and of the other from the row) and answers overtake one another.
CookiesAgree ==
  jar.refresh # None /\ jar.access # NoClaims =>
    /\ issued[jar.refresh].user = jar.access.user
    /\ issued[jar.refresh].tenant = jar.access.tenant

\* No access token claims a role its user never had in that tenant.
ClaimsWereTrue == jar.access # NoClaims => jar.access \in held

\* refresh.go:128 "Revoke deletes a refresh token, effectively logging out the
\* session": no token of the session is left in the table.
LogoutEndsSession == \A s \in loggedOut : LiveOf(s) = {}

\* README.md:19 "JWTs stored in HttpOnly cookies (access: 15min, refresh: 7 days)": a
\* refresh cookie whose token is good is deleted by a logout and nothing else.
RefreshCookieLasts ==
  [][jar.refresh # None /\ row[jar.refresh] = "fresh" /\ jar'.refresh = None =>
       \E r \in Requests : At(r, "answered", {"logout"})]_vars

\* Every request is answered: a transaction never waits for a row for ever.
EveryRequestAnswered == \A r \in Requests : pc[r] = "sent" ~> pc[r] = "done"

\* Rows past their time do not pile up, those left by an exchange that found
\* them expired included.
ExpiredArePruned == \A t \in Tokens : row[t] = "expired" ~> row[t] = "absent"

-----------------------------------------------------------------------------
(* The inductive invariant behind OneTokenPerSession and CookiesAgree.      *)

Stored(iss, t) == t \in Tokens /\ iss[t] \in Session

\* A pair of cookies: the token was stored once, and the claims fit it.
Agree(iss, j) ==
  /\ j.refresh # None => Stored(iss, j.refresh)
  /\ j.refresh # None /\ j.access # NoClaims =>
       /\ iss[j.refresh].user = j.access.user
       /\ iss[j.refresh].tenant = j.access.tenant

CookiesAgreeEverywhere ==
  /\ Agree(issued, jar)
  /\ \A r \in Requests :
       /\ pc[r] \notin {"idle", "done"} => Agree(issued, msg[r].jar)
       /\ pc[r] = "answered" /\ work[r].answer.cookies = "set" => Agree(issued, work[r].answer.jar)

\* What each stage of a handler has established.
Staged ==
  \A r \in Requests :
    /\ At(r, "checked", {"login"}) => work[r].tenant \in Tenants /\ work[r].role \in Roles
    /\ At(r, "checked", {"switch"}) \/ At(r, "holding", {"switch"}) =>
         /\ msg[r].jar.access # NoClaims /\ msg[r].jar.refresh # None
         /\ work[r].role \in Roles
    /\ pc[r] = "checked" => msg[r].order.kind \in {"login", "switch"}
    /\ pc[r] = "holding" => msg[r].order.kind \in {"refresh", "switch"}
    /\ pc[r] = "holding" => msg[r].jar.refresh # None
    /\ pc[r] = "rotated" => Stored(issued, work[r].token)

RowsAreStored == \A t \in Tokens : row[t] # "absent" => Stored(issued, t)

\* A session is named after a request that has been answered.
SessionsAreNamed ==
  \A t \in Tokens : Stored(issued, t) => pc[issued[t].session] \in {"answered", "done"}

\* The row that a transaction has deleted is its own until it ends.
LockIsExclusive ==
  \A r \in Requests : pc[r] = "holding" =>
    /\ row[msg[r].jar.refresh] # "absent"
    /\ \A s \in Requests : pc[s] = "holding" /\ msg[s].jar.refresh = msg[r].jar.refresh => s = r

\* The session invariant: what the stages of every handler leave behind keeps the
\* rows, the cookies and the answers in flight consistent.
SInv ==
  /\ TypeOK /\ CookiesAgreeEverywhere /\ Staged /\ RowsAreStored
  /\ SessionsAreNamed /\ LockIsExclusive /\ OneTokenPerSession

=============================================================================
