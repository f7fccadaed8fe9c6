-------------------------------- MODULE Router --------------------------------
(***************************************************************************)
(* How a request gets to its handler and its answer: the routes that       *)
(* setup() registers (http.go) and the handlers they stack up: the logger, *)
(* recover, AuthRequired, TenantTx and RequireRole, each of which runs     *)
(* once on the way in and, where it waits for c.Next, again on the way     *)
(* out.  What the innermost handler does is left open here: it answers,    *)
(* refuses, returns an error or panics, and a statement of its may fail.   *)
(*                                                                         *)
(* Fiber is external.  It calls, in the order of registration, every       *)
(* handler whose route has the method and path of the request or, for a    *)
(* group, a path that the request's begins with, letter by letter: /me is  *)
(* such a path of /members.  So a path is a sequence of pieces here.  The  *)
(* order of registration is that of the lines of http.go, which number the *)
(* routes.                                                                 *)
(***************************************************************************)
EXTENDS Naturals, FiniteSets, SequencesExt

CONSTANTS
  Requests,     \* the requests, each sent once
  Sent,         \* what they ask for, some of Message
  MaxConns      \* connections of the pool

None == "none"
Role == {"viewer", "member", "admin", "owner"}
roleWeight == [viewer |-> 1, member |-> 2, admin |-> 3, owner |-> 4]
RoleAtLeast(have, need) == roleWeight[have] >= roleWeight[need]

-----------------------------------------------------------------------------
(* setup().                                                                *)

Group(line, path, handlers) ==
  [line |-> line, method |-> "any", path |-> path, handlers |-> handlers]
Route(line, method, path, handlers) ==
  [line |-> line, method |-> method, path |-> path, handlers |-> handlers]

\* What surrounds the handlers of every request: Fiber's own calls of errorHandler, when
\* they have returned, and of NotFound, when no route has taken the request.
Global ==
  { Group(28, <<>>, <<"errorHandler">>),
    Group(37, <<>>, <<"requestLogger">>),
    Group(38, <<>>, <<"recover">>),
    Group(89, <<>>, <<"NotFound">>) }

Public ==
  { Route(44, "POST", <<"/auth", "/register">>, <<"handle">>),
    Route(45, "POST", <<"/auth", "/login">>, <<"handle">>),
    Route(46, "POST", <<"/auth", "/refresh">>, <<"handle">>),
    Route(47, "POST", <<"/auth", "/logout">>, <<"handle">>),
    Route(48, "POST", <<"/auth", "/switch">>, <<"AuthRequired", "handle">>),
    Route(49, "GET", <<"/auth", "/tenants">>, <<"AuthRequired", "handle">>),
    Route(52, "POST", <<"/webhooks", "/stripe">>, <<"handle">>) }

Me ==
  { Group(55, <<"/me">>, <<"AuthRequired">>),
    Route(56, "GET", <<"/me">>, <<"handle">>),
    Route(57, "PUT", <<"/me">>, <<"handle">>),
    Route(58, "PUT", <<"/me", "/password">>, <<"handle">>),
    Route(59, "GET", <<"/me", "/invites">>, <<"handle">>),
    Route(60, "GET", <<"/me", "/billing">>, <<"handle">>),
    Route(61, "POST", <<"/me", "/billing", "/portal">>, <<"handle">>) }

Membership ==
  { Group(64, <<"/me", "mbers">>, <<"AuthRequired", "TenantTx">>),
    Route(65, "GET", <<"/me", "mbers">>, <<"member", "handle">>),
    Route(66, "PATCH", <<"/me", "mbers", "/:uid">>, <<"admin", "handle">>),
    Route(67, "DELETE", <<"/me", "mbers", "/:uid">>, <<"handle">>) }

\* Deviation: the route to accept an invite comes after the group of the admins.
AcceptLast ==
  { Group(73, <<"/invites">>, <<"AuthRequired", "TenantTx", "admin">>),
    Route(74, "POST", <<"/invites">>, <<"handle">>),
    Route(75, "GET", <<"/invites">>, <<"handle">>),
    Route(76, "DELETE", <<"/invites", "/:id">>, <<"handle">>),
    Route(77, "POST", <<"/invites", "/accept">>, <<"AuthRequired", "handle">>) }

Inviting ==
  { Route(70, "POST", <<"/invites", "/accept">>, <<"AuthRequired", "handle">>),
    Group(73, <<"/invites">>, <<"AuthRequired", "TenantTx", "admin">>),
    Route(74, "POST", <<"/invites">>, <<"handle">>),
    Route(75, "GET", <<"/invites">>, <<"handle">>),
    Route(76, "DELETE", <<"/invites", "/:id">>, <<"handle">>) }

Projects ==
  { Group(79, <<"/projects">>, <<"AuthRequired", "TenantTx">>),
    Route(80, "GET", <<"/projects">>, <<"member", "handle">>),
    Route(81, "POST", <<"/projects">>, <<"admin", "handle">>),
    Route(82, "GET", <<"/projects", "/:id">>, <<"member", "handle">>),
    Route(83, "PUT", <<"/projects", "/:id">>, <<"admin", "handle">>),
    Route(84, "DELETE", <<"/projects", "/:id">>, <<"admin", "handle">>),
    Route(87, "GET", <<"/audit">>, <<"AuthRequired", "TenantTx", "admin", "handle">>) }

setup == Global \cup Public \cup Me \cup Membership \cup Inviting \cup Projects

Matches(route, m) ==
  IF route.method = "any" THEN IsPrefix(route.path, m.path)
  ELSE route.method = m.method /\ route.path = m.path

\* The handlers that a request may meet, each at its place.
Place(route, k) == [line |-> route.line, index |-> k, handler |-> route.handlers[k]]
Top == [line |-> 28, index |-> 1, handler |-> "errorHandler"]
Handler == {"errorHandler", "requestLogger", "recover", "NotFound", "AuthRequired",
            "TenantTx", "member", "admin", "handle"}
Places(m) ==
  UNION {{Place(route, k) : k \in DOMAIN route.handlers} : route \in {s \in setup : Matches(s, m)}}

Earlier(p, q) == p.line < q.line \/ (p.line = q.line /\ p.index < q.index)
Follow(places, p, q) ==
  Earlier(p, q) /\ ~\E o \in places : Earlier(p, o) /\ Earlier(o, q)

-----------------------------------------------------------------------------
(* README.md's table of the API routes: which need a login, which a role.  *)

Row(method, path, auth, role) == [method |-> method, path |-> path, auth |-> auth, role |-> role]

Documented ==
  { Row("POST", <<"/auth", "/register">>, FALSE, None), Row("POST", <<"/auth", "/login">>, FALSE, None),
    Row("POST", <<"/auth", "/refresh">>, FALSE, None), Row("POST", <<"/auth", "/logout">>, FALSE, None),
    Row("POST", <<"/auth", "/switch">>, TRUE, None), Row("GET", <<"/auth", "/tenants">>, TRUE, None),
    Row("GET", <<"/me">>, TRUE, None), Row("PUT", <<"/me">>, TRUE, None),
    Row("PUT", <<"/me", "/password">>, TRUE, None), Row("GET", <<"/me", "/invites">>, TRUE, None),
    Row("GET", <<"/me", "/billing">>, TRUE, None), Row("POST", <<"/me", "/billing", "/portal">>, TRUE, None),
    Row("GET", <<"/me", "mbers">>, TRUE, "member"), Row("PATCH", <<"/me", "mbers", "/:uid">>, TRUE, "admin"),
    Row("DELETE", <<"/me", "mbers", "/:uid">>, TRUE, None), Row("POST", <<"/invites">>, TRUE, "admin"),
    Row("GET", <<"/invites">>, TRUE, "admin"), Row("DELETE", <<"/invites", "/:id">>, TRUE, "admin"),
    Row("POST", <<"/invites", "/accept">>, TRUE, None), Row("GET", <<"/projects">>, TRUE, "member"),
    Row("POST", <<"/projects">>, TRUE, "admin"), Row("GET", <<"/projects", "/:id">>, TRUE, "member"),
    Row("PUT", <<"/projects", "/:id">>, TRUE, "admin"), Row("DELETE", <<"/projects", "/:id">>, TRUE, "admin"),
    Row("GET", <<"/audit">>, TRUE, "admin"), Row("POST", <<"/webhooks", "/stripe">>, FALSE, None) }

\* The role is the one of the access token.  One path is below a group, and no route.
Message ==
  [method : {"GET"}, path : {<<"/projects", "/:id", "/x">>}, role : Role \cup {None}]
    \cup UNION {[method : {d.method}, path : {d.path}, role : Role \cup {None}] : d \in Documented}

ASSUME SentAssumption == Sent \subseteq Message /\ MaxConns \in Nat \ {0}

Permitted(m) ==
  \E d \in Documented :
    /\ d.method = m.method /\ d.path = m.path
    /\ d.auth => m.role # None
    /\ d.role # None => RoleAtLeast(m.role, d.role)

-----------------------------------------------------------------------------

VARIABLES
  msg,        \* each request: what it asks for
  phase,      \* each request: on the way in or out, answered, not sent yet, or waiting
              \* for a mail server that does not answer
  at,         \* each request: the place whose handler has its turn
  status,     \* each request: the status of its response
  err,        \* each request: the error on its way out
  tx,         \* each request: its transaction
  logged,     \* each request: the status in the log
  ran         \* each request: its innermost handler has run

vars == <<msg, phase, at, status, err, tx, logged, ran>>

NoMessage == [method |-> None]
Status == {"200", "4xx", "401", "403", "404", "500"}

\* Aborted: a statement has failed.  Unanswered: COMMIT was carried out and its answer
\* lost.  Left: a panic has passed TenantTx.
Transaction == {None, "open", "aborted", "committed", "unanswered", "rolled back", "left"}

\* A transaction is open for requests under way and for those that panicked, and
\* the pool has a connection for each.
TypeOK ==
  /\ msg \in [Requests -> Sent \cup {NoMessage}]
  /\ phase \in [Requests -> {"idle", "in", "hung", "out", "answered"}]
  /\ at \in [Requests -> [line : 28..89, index : 1..4, handler : Handler]]
  /\ \A r \in Requests : at[r] \in IF phase[r] = "idle" THEN {Top} ELSE Places(msg[r])
  /\ status \in [Requests -> Status]
  /\ err \in [Requests -> {None, "404", "500", "panic"}]
  /\ tx \in [Requests -> Transaction]
  /\ logged \in [Requests -> Status \cup {None}]
  /\ ran \in [Requests -> BOOLEAN]
  /\ Cardinality({r \in Requests : tx[r] \in {"open", "aborted", "left"}}) <= MaxConns

Init ==
  /\ msg = [r \in Requests |-> NoMessage]
  /\ phase = [r \in Requests |-> "idle"]
  /\ at = [r \in Requests |-> Top]
  /\ status = [r \in Requests |-> "200"]
  /\ err = [r \in Requests |-> None]
  /\ tx = [r \in Requests |-> None]
  /\ logged = [r \in Requests |-> None]
  /\ ran = [r \in Requests |-> FALSE]

Send(r, m) ==
  /\ phase[r] = "idle"
  /\ msg' = [msg EXCEPT ![r] = m]
  /\ phase' = [phase EXCEPT ![r] = "in"]
  /\ LET places == Places(m) IN
       \E p \in places : Follow(places, Top, p) /\ at' = [at EXCEPT ![r] = p]
  /\ UNCHANGED <<status, err, tx, logged, ran>>

\* It is the turn of handler h, on the way in or out.
Turn(r, way, h) == phase[r] = way /\ at[r].handler = h

\* c.Next.
Deeper(r) ==
  /\ LET places == Places(msg[r]) IN
       \E p \in places : Follow(places, at[r], p) /\ at' = [at EXCEPT ![r] = p]
  /\ UNCHANGED <<msg, phase, status, logged, ran>>

\* The handler returns to the one before it.
Return(r, s, e) ==
  /\ phase' = [phase EXCEPT ![r] = "out"]
  /\ LET places == Places(msg[r]) IN
       \E p \in places : Follow(places, p, at[r]) /\ at' = [at EXCEPT ![r] = p]
  /\ status' = [status EXCEPT ![r] = s]
  /\ err' = [err EXCEPT ![r] = e]
  /\ UNCHANGED msg

-----------------------------------------------------------------------------
(* On the way in.                                                          *)

Enter(r) ==
  /\ Turn(r, "in", "requestLogger") \/ Turn(r, "in", "recover")
  /\ Deeper(r)
  /\ UNCHANGED <<err, tx>>

AuthRequired(r) ==
  /\ Turn(r, "in", "AuthRequired")
  /\ IF msg[r].role = None THEN Return(r, "401", None) /\ UNCHANGED <<logged, ran>>
     ELSE Deeper(r) /\ UNCHANGED err
  /\ UNCHANGED tx

\* A connection that a panic has left in its transaction is not in the pool.
InUse == {r \in Requests : tx[r] \in {"open", "aborted", "left"}}

\* Deviation: a pool without a limit.
BeginUnlimited(r) ==
  /\ Turn(r, "in", "TenantTx")
  /\ tx' = [tx EXCEPT ![r] = "open"]
  /\ Deeper(r)
  /\ UNCHANGED err

Begin(r) ==
  /\ Turn(r, "in", "TenantTx")
  /\ Cardinality(InUse) < MaxConns
  /\ tx' = [tx EXCEPT ![r] = "open"]
  /\ Deeper(r)
  /\ UNCHANGED err

\* BEGIN fails, or set_config does and is rolled back.
BeginFails(r) ==
  /\ Turn(r, "in", "TenantTx")
  /\ \/ UNCHANGED tx
     \/ Cardinality(InUse) < MaxConns /\ tx' = [tx EXCEPT ![r] = "rolled back"]
  /\ Return(r, status[r], "500")
  /\ UNCHANGED <<logged, ran>>

RequireRole(r) ==
  /\ \E need \in {"member", "admin"} :
       /\ Turn(r, "in", need)
       /\ IF RoleAtLeast(msg[r].role, need) THEN Deeper(r) /\ UNCHANGED err
          ELSE Return(r, "403", None) /\ UNCHANGED <<logged, ran>>
  /\ UNCHANGED tx

\* A statement may fail in the transaction, whatever the handler makes of it.
Handle(r) ==
  /\ Turn(r, "in", "handle")
  /\ ran' = [ran EXCEPT ![r] = TRUE]
  /\ tx' \in {tx, [tx EXCEPT ![r] = IF @ = "open" THEN "aborted" ELSE @]}
  /\ \/ \E s \in {"200", "4xx"} : Return(r, s, None)
     \/ \E e \in {"500", "panic"} : Return(r, status[r], e)
  /\ UNCHANGED logged

\* POST /invites sends a mail from inside its transaction, and waits for the mail server
\* without a limit.
Hang(r) ==
  /\ Turn(r, "in", "handle") /\ msg[r].method = "POST" /\ msg[r].path = <<"/invites">>
  /\ phase' = [phase EXCEPT ![r] = "hung"]
  /\ UNCHANGED <<msg, at, status, err, tx, logged, ran>>

NotFound(r) ==
  /\ Turn(r, "in", "NotFound")
  /\ Return(r, status[r], "404")
  /\ UNCHANGED <<tx, logged, ran>>

-----------------------------------------------------------------------------
(* On the way out.                                                         *)

Leave(r) ==
  /\ \E h \in {"AuthRequired", "member", "admin"} : Turn(r, "out", h)
  /\ Return(r, status[r], err[r])
  /\ UNCHANGED <<tx, logged, ran>>

\* Deviation: COMMIT whatever the handler returned.
EndAlways(r) ==
  /\ Turn(r, "out", "TenantTx") /\ err[r] # "panic"
  /\ tx' = [tx EXCEPT ![r] = IF @ = "open" THEN "committed" ELSE "rolled back"]
  /\ Return(r, status[r], err[r])
  /\ UNCHANGED <<logged, ran>>

\* COMMIT, when the handler has returned no error: done, not done, or done and the
\* answer lost.  An error of COMMIT is the request's, but for one that is refused already.
Commit(r) ==
  \/ /\ tx[r] = "open"
     /\ tx' = [tx EXCEPT ![r] = "committed"]
     /\ Return(r, status[r], None)
  \/ /\ \/ tx' = [tx EXCEPT ![r] = "rolled back"]
        \/ tx[r] = "open" /\ tx' = [tx EXCEPT ![r] = "unanswered"]
     /\ Return(r, status[r], IF status[r] \in {"4xx", "403"} THEN None ELSE "500")


\* A panic passes by, and the transaction is left open; ROLLBACK after an error.
End(r) ==
  /\ Turn(r, "out", "TenantTx")
  /\ \/ /\ err[r] = "panic"
        /\ tx' = [tx EXCEPT ![r] = "left"] /\ Return(r, status[r], err[r])
     \/ /\ err[r] \in {"404", "500"}
        /\ tx' = [tx EXCEPT ![r] = "rolled back"] /\ Return(r, status[r], err[r])
     \/ err[r] = None /\ Commit(r)
  /\ UNCHANGED <<logged, ran>>

Recover(r) ==
  /\ Turn(r, "out", "recover")
  /\ Return(r, status[r], IF err[r] = "panic" THEN "500" ELSE err[r])
  /\ UNCHANGED <<tx, logged, ran>>

requestLogger(r) ==
  /\ Turn(r, "out", "requestLogger")
  /\ logged' = [logged EXCEPT ![r] = status[r]]
  /\ Return(r, status[r], err[r])
  /\ UNCHANGED <<tx, ran>>

\* Fiber calls errorHandler when the chain has returned an error, and answers.
errorHandler(r) ==
  /\ Turn(r, "out", "errorHandler")
  /\ status' = [status EXCEPT ![r] = IF err[r] = None THEN @ ELSE err[r]]
  /\ phase' = [phase EXCEPT ![r] = "answered"]
  /\ UNCHANGED <<msg, at, err, tx, logged, ran>>

-----------------------------------------------------------------------------

Step(r) ==
  \/ Enter(r) \/ AuthRequired(r) \/ Begin(r) \/ RequireRole(r) \/ Handle(r) \/ NotFound(r)
  \/ Leave(r) \/ End(r) \/ Recover(r) \/ requestLogger(r) \/ errorHandler(r)

Next ==
  \/ \E r \in Requests, m \in Sent : Send(r, m)
  \/ \E r \in Requests : Step(r) \/ BeginFails(r) \/ Hang(r)

Spec == Init /\ [][Next]_vars

\* A handler whose turn it is returns, unless the mail server hangs, and the pool serves
\* those who wait in turn.
Fairness == \A r \in Requests : WF_vars(Step(r)) /\ SF_vars(Begin(r))
FairSpec == Spec /\ Fairness

-----------------------------------------------------------------------------
(* Properties.                                                             *)

\* README.md's table is what the code does: whichever group a path also falls into,
\* a handler runs for the callers that the table lets in, and for them only; they
\* are turned away only by an error of the database.
TableIsEnforced ==
  \A r \in Requests : phase[r] = "answered" =>
    /\ ran[r] => Permitted(msg[r])
    /\ Permitted(msg[r]) => ran[r] \/ status[r] = "500"

\* middleware_tenant_tx.go:15 "The transaction is committed on success and rolled
\* back on any error": a 200 from a route behind TenantTx says that what was done is
\* there.  A 404 or 500 says that it is not, whatever failed, unless COMMIT itself was
\* carried out and its answer lost.
AnswerTellsOutcome ==
  \A r \in Requests : phase[r] = "answered" =>
    /\ status[r] = "200" => tx[r] \in {None, "committed"}
    /\ status[r] \in {"404", "500"} => tx[r] \in {None, "rolled back", "left", "unanswered"}

\* The connections that nobody will give back: a panic has left them, or the mail server
\* is waited for.
Stranded == {r \in Requests : tx[r] = "left" \/ (phase[r] = "hung" /\ tx[r] = "open")}


\* http.go:102 "requestLogger returns a slog-based structured request logger.", with
\* the attribute "status": the status in the log is the one that was sent.
LoggedStatusIsSent == \A r \in Requests : phase[r] = "answered" => logged[r] = status[r]

-----------------------------------------------------------------------------
(* The inductive invariant behind the types and the first two.             *)

\* A request that goes on to the next handler has passed this one.
Passes(h, m) ==
  /\ h \notin {"handle", "NotFound"}
  /\ h = "AuthRequired" => m.role # None
  /\ h \in {"member", "admin"} => RoleAtLeast(m.role, h)

\* TenantTx waits for what it has called.
Inside(r) ==
  \E p \in Places(msg[r]) :
    p.handler = "TenantTx" /\ (Earlier(p, at[r]) \/ (phase[r] = "out" /\ p = at[r]))

\* Who has not been sent has done nothing.
Unsent ==
  \A r \in Requests :
    IF phase[r] = "idle" THEN tx[r] = None /\ status[r] = "200" /\ err[r] = None /\ ~ran[r]
    ELSE msg[r] \in Sent

\* On the way in every handler before this place was passed, and only TenantTx has left
\* something behind.
WayIn ==
  \A r \in Requests : phase[r] = "in" =>
    /\ \A p \in Places(msg[r]) : Earlier(p, at[r]) => Passes(p.handler, msg[r])
    /\ status[r] = "200" /\ err[r] = None /\ ~ran[r]
    /\ tx[r] = IF Inside(r) THEN "open" ELSE None

\* What is returned, and what became of the transaction.
Fits(s, e, t) ==
  IF e = None THEN (s = "200" => t \in {None, "committed"}) /\ t \notin {"open", "aborted"}
  ELSE t \in {None, "rolled back", "left", "unanswered"}

\* On the way out the table of routes is kept, recover is still to come for a panic, and
\* once TenantTx is behind, what is returned fits what became of the transaction.
WayOut ==
  \A r \in Requests : phase[r] = "out" =>
    /\ status[r] \in {"200", "4xx", "401", "403"}
    /\ ran[r] => Permitted(msg[r])
    /\ Permitted(msg[r]) => ran[r] \/ err[r] = "500"
    /\ err[r] = "panic" => at[r].line >= 38
    /\ IF Inside(r) THEN tx[r] \in {"open", "aborted"}
       ELSE Fits(status[r], err[r], tx[r])

RInv ==
  /\ TypeOK /\ IsFiniteSet(InUse)
  /\ Unsent /\ WayIn /\ WayOut /\ TableIsEnforced /\ AnswerTellsOutcome

===============================================================================
