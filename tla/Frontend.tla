------------------------------ MODULE Frontend --------------------------------
(***************************************************************************)
(* The web frontend in one browser: tabs that share the cookies, what each *)
(* of them shows, and the calls its components make (apps/web).  Every     *)
(* call is for the workspace in the cookie of the moment, whatever the tab *)
(* shows.  Of the API there is what an answer and its cookies depend on;   *)
(* the rest is in Sessions and Members.                                    *)
(*                                                                         *)
(* The browser and Next.js are external.  A link renders the page again    *)
(* and keeps the layout; router.refresh renders both and keeps the state   *)
(* of client components; a visit renders both anew.  What is asked for     *)
(* while a tab renders is rendered with the rest, from new cookies.        *)
(***************************************************************************)
EXTENDS Naturals, FiniteSets

CONSTANTS
  Tabs,
  Tenants,
  Me, Others,     \* the user of the browser, and other users
  Links,          \* bound: the links of the sidebar that are clicked
  Calls           \* bound: the calls to the API, each made once

None == "none"
ASSUME NoneAssumption == None \notin Tenants \cup Tabs \cup Calls \cup Others
ASSUME CallsAssumption == IsFiniteSet(Calls)
ASSUME UsersAssumption == Me \notin Others /\ Calls \cap Tenants = {}
ASSUME LinksAssumption == Links \subseteq {"dashboard", "members", "billing"}

VARIABLES
  jar,        \* the cookies: the tenant in access_token, and refresh_token
  token,      \* the refresh token the API would take, and how many there have been
  members,    \* the API's memberships
  account,    \* whether the user has registered
  shell,      \* each tab: the tenant of its layout and of its store
  page,       \* each tab: what its page shows
  todo,       \* each tab: what there is to render, and the cookies read for it
  at, call,   \* each call: progress, and what it is
  answer,     \* each call: what the API answered
  mover       \* history: the tab whose call set the cookies last, if it goes along

screen == <<shell, page, todo>>
api == <<token, members, account>>
vars == <<jar, api, screen, at, call, answer, mover>>

Users == {Me} \cup Others
NoCookies == [tenant |-> None, refresh |-> 0]
Tokens == 1..(Cardinality(Calls) + 1)
Jar == [tenant : Tenants \cup {None}, refresh : Tokens \cup {0}]

\* The tenant of what a page shows, and the members it has buttons for.  On the billing
\* page "of" is the call that is under way until it is answered.
Login == [route |-> "login", of |-> None, users |-> {}]
Page == [route : {"login", "dashboard", "members", "billing"},
         of : Tenants \cup Calls \cup {None}, users : SUBSET Users]

Everything == {"layout", "page"}
ToDo == [parts : SUBSET Everything, route : {"login", "dashboard", "members", "billing"},
         header : Tenants \cup {None}]
NothingToDo == [parts |-> {}, route |-> "login", header |-> None]

NoCall == [kind |-> None]
Call ==
  LET Made(kinds, args) == [kind : kinds, tab : Tabs, jar : Jar, args : args]
  IN  Made({"login", "register", "switch"}, Tenants) \cup Made({"billing", "logout"}, {None})
        \cup Made({"remove"}, [user : Users, shown : Tenants \cup Calls \cup {None}])

\* The answers: the cookies are set by some, and left as they are by the others.
Answer == [ok : BOOLEAN, sets : BOOLEAN, cookies : Jar]
Plain(ok, clears) == [ok |-> ok, sets |-> clears, cookies |-> NoCookies]
Success == Plain(TRUE, FALSE)
Refusal == Plain(FALSE, FALSE)
Unauthorized == Plain(FALSE, TRUE)

\* A tab without a workspace shows the login page, and the token in the cookies was issued.
TypeOK ==
  /\ jar \in Jar
  /\ token \in [valid : SUBSET Tokens, last : Tokens \cup {0}]
  /\ jar.refresh <= token.last
  /\ members \in [Tenants -> SUBSET Users] /\ account \in BOOLEAN
  /\ shell \in [Tabs -> Tenants \cup {None}]
  /\ page \in [Tabs -> Page]
  /\ \A w \in Tabs : (shell[w] = None) <=> (page[w] = Login)
  /\ call \in [Calls -> Call \cup {NoCall}] /\ answer \in [Calls -> Answer]
  /\ todo \in [Tabs -> ToDo]
  /\ at \in [Calls -> {"idle", "sent", "served", "done"}]
  /\ mover \in Tabs \cup {None}

\* Before the user has registered; or afterwards, with the cookies of an earlier
\* session or without.
Init ==
  /\ account \in BOOLEAN
  /\ members = [t \in Tenants |-> IF account THEN Users ELSE {}]
  /\ \/ jar = NoCookies /\ token = [valid |-> {}, last |-> 0]
     \/ /\ account /\ \E t \in Tenants : jar = [tenant |-> t, refresh |-> 1]
        /\ token = [valid |-> {1}, last |-> 1]
  /\ shell = [w \in Tabs |-> None]
  /\ page = [w \in Tabs |-> Login]
  /\ todo = [w \in Tabs |-> NothingToDo]
  /\ at = [c \in Calls |-> "idle"]
  /\ call = [c \in Calls |-> NoCall]
  /\ answer = [c \in Calls |-> Refusal]
  /\ mover = None

-----------------------------------------------------------------------------
(* What the user does.                                                     *)

\* fetch: the browser adds the cookies of the moment.
Fetch(c, w, kind, args) ==
  /\ at[c] = "idle"
  /\ at' = [at EXCEPT ![c] = "sent"]
  /\ call' = [call EXCEPT ![c] =
       [kind |-> kind, tab |-> w, jar |-> jar, args |-> args]]

Busy(w) == todo[w].parts # {}
Waits(w) == \E c \in Calls : at[c] \in {"sent", "served"} /\ call[c].tab = w

\* The forms of /login and /register.  A button is disabled while its form waits for the
\* answer, but not while the tab goes on from there; and the other form's is not.
handleSubmit(c, w, kind) ==
  /\ page[w].route = "login"
  /\ \E t \in Tenants : Fetch(c, w, kind, t)
  /\ UNCHANGED <<jar, api, screen, answer, mover>>

\* The link to the other form, which is mounted anew: what was to be rendered is dropped.
OtherForm(w) ==
  /\ page[w].route = "login" /\ Busy(w)
  /\ todo' = [todo EXCEPT ![w] = NothingToDo]
  /\ UNCHANGED <<jar, api, shell, page, at, call, answer, mover>>

\* Nothing happens if the store has the tenant already.
switchTenant(c, w, t) ==
  /\ shell[w] \notin {None, t}
  /\ Fetch(c, w, "switch", t)
  /\ UNCHANGED <<jar, api, screen, answer, mover>>

removeMember(c, w, u) ==
  /\ page[w].route = "members" /\ u \in page[w].users
  /\ Fetch(c, w, "remove", [user |-> u, shown |-> page[w].of])
  /\ UNCHANGED <<jar, api, screen, answer, mover>>

handleLogout(c, w) ==
  /\ shell[w] # None
  /\ Fetch(c, w, "logout", None)
  /\ UNCHANGED <<jar, api, screen, answer, mover>>

\* The effect of the billing page, once after it was mounted.
loadBilling(c, w) ==
  /\ page[w].route = "billing" /\ page[w].of = None
  /\ Fetch(c, w, "billing", None)
  /\ page' = [page EXCEPT ![w].of = c]
  /\ UNCHANGED <<jar, api, shell, todo, answer, mover>>

Render(w, parts, route) ==
  todo' = [todo EXCEPT ![w] =
    [parts |-> @.parts \cup parts, route |-> route, header |-> None]]

\* A link of the sidebar.
Navigate(w, route) ==
  /\ shell[w] # None /\ route # page[w].route
  /\ Render(w, {"page"}, route)
  /\ UNCHANGED <<jar, api, shell, page, at, call, answer, mover>>

\* The address of a page is typed into a tab, which does not wait for an answer: the
\* handlers that wait would end, and what their cookies do is not followed further.
Visit(w) ==
  /\ shell[w] = None /\ ~Busy(w) /\ ~Waits(w)
  /\ Render(w, Everything, "dashboard")
  /\ UNCHANGED <<jar, api, shell, page, at, call, answer, mover>>

-----------------------------------------------------------------------------
(* The API.  Refusals of other kinds (roles, the last owner, errors) may   *)
(* come to any call.                                                       *)

Reply(c, a) ==
  /\ at[c] = "sent"
  /\ at' = [at EXCEPT ![c] = "served"]
  /\ answer' = [answer EXCEPT ![c] = a]
  /\ UNCHANGED <<jar, screen, call, mover>>

\* New cookies for tenant t, in place of the refresh tokens "old".
Issue(c, t, old) ==
  /\ token' = [valid |-> (token.valid \ old) \cup {token.last + 1}, last |-> token.last + 1]
  /\ Reply(c, [ok |-> TRUE, sets |-> TRUE,
               cookies |-> [tenant |-> t, refresh |-> token.last + 1]])

handleRegister(c) ==
  /\ call[c].kind = "register"
  /\ ~account /\ account' = TRUE
  /\ members' = [members EXCEPT ![call[c].args] = {Me}]
  /\ Issue(c, call[c].args, {})

handleLogin(c) ==
  /\ call[c].kind = "login"
  /\ \E t \in Tenants : Me \in members[t] /\ Issue(c, t, {})
  /\ UNCHANGED <<members, account>>

\* There is no access token, or it is over, which its cookie may outlive.
AuthRequired(c) ==
  /\ call[c].kind \in {"switch", "remove", "billing"}
  /\ Reply(c, Unauthorized)
  /\ UNCHANGED api

\* The token may have been exchanged by another tab.
handleSwitch(c) ==
  /\ call[c].kind = "switch" /\ call[c].jar.tenant # None
  /\ Me \in members[call[c].args]
  /\ IF call[c].jar.refresh \in token.valid
     THEN Issue(c, call[c].args, {call[c].jar.refresh})
     ELSE Reply(c, Unauthorized) /\ UNCHANGED token
  /\ UNCHANGED <<members, account>>

handleRemoveMember(c) ==
  /\ call[c].kind = "remove" /\ call[c].jar.tenant # None
  /\ LET u == call[c].args.user
         t == call[c].jar.tenant
     IN  /\ u \in members[t] /\ members[t] # {u}
         /\ members' = [members EXCEPT ![t] = @ \ {u}]
  /\ Reply(c, Success)
  /\ UNCHANGED <<token, account>>

handleGetBilling(c) ==
  /\ call[c].kind = "billing" /\ call[c].jar.tenant # None
  /\ Reply(c, Success)
  /\ UNCHANGED api

ServeLogout(c) ==
  /\ call[c].kind = "logout"
  /\ token' = [token EXCEPT !.valid = @ \ {call[c].jar.refresh}]
  /\ Reply(c, Plain(TRUE, TRUE))
  /\ UNCHANGED <<members, account>>

Refuse(c) ==
  /\ call[c].kind # "logout"
  /\ Reply(c, Refusal)
  /\ UNCHANGED api

Serve(c) ==
  \/ handleRegister(c) \/ handleLogin(c) \/ AuthRequired(c) \/ handleSwitch(c)
  \/ handleRemoveMember(c) \/ handleGetBilling(c) \/ ServeLogout(c) \/ Refuse(c)

-----------------------------------------------------------------------------
(* What comes back.                                                        *)

\* router.refresh renders the route the tab is at, or under way to.
Refresh(w) ==
  /\ IF shell[w] = None /\ ~Busy(w) THEN UNCHANGED todo
     ELSE Render(w, Everything, IF Busy(w) THEN todo[w].route ELSE page[w].route)
  /\ UNCHANGED <<shell, page>>

\* Deviation: the page stays.
ToLoginInPart(w) ==
  /\ shell' = [shell EXCEPT ![w] = None]
  /\ todo' = [todo EXCEPT ![w] = NothingToDo]
  /\ UNCHANGED page

ToLogin(w) ==
  /\ shell' = [shell EXCEPT ![w] = None]
  /\ page' = [page EXCEPT ![w] = Login]
  /\ todo' = [todo EXCEPT ![w] = NothingToDo]

\* Deviation: after a switch nothing is refreshed.
AfterNoSwitch(c, w) ==
  IF call[c].kind = "remove" /\ answer[c].ok THEN Refresh(w) ELSE UNCHANGED screen

\* After a switch or a removal that succeeded.
AfterChange(c, w) ==
  IF answer[c].ok THEN Refresh(w) ELSE UNCHANGED screen

\* A push to /dashboard: a layout that is there already is kept.
AfterLogin(c, w) ==
  IF answer[c].ok
  THEN /\ Render(w, IF shell[w] = None THEN Everything ELSE {"page"}, "dashboard")
       /\ UNCHANGED <<shell, page>>
  ELSE UNCHANGED screen

\* A push to /login.
AfterRegister(c, w) ==
  IF answer[c].ok THEN ToLogin(w) ELSE UNCHANGED screen

\* An answer that is an error has neither plan nor status to show.
AfterBilling(c, w) ==
  /\ page' = IF page[w].of = c /\ answer[c].ok
             THEN [page EXCEPT ![w].of = call[c].jar.tenant] ELSE page
  /\ UNCHANGED <<shell, todo>>

\* Nothing is left of a call that is over.
End(c) ==
  /\ at[c] = "served"
  /\ at' = [at EXCEPT ![c] = "done"]
  /\ call' = [call EXCEPT ![c] = NoCall]
  /\ answer' = [answer EXCEPT ![c] = Refusal]

\* A login that is answered when its tab has a layout moves the browser, but not the tab.
MovedBy(c) ==
  IF call[c].kind = "login" /\ shell[call[c].tab] # None THEN None ELSE call[c].tab

\* The browser sets the cookies; then the handler of the tab goes on.
Arrive(c) ==
  /\ End(c)
  /\ jar' = IF answer[c].sets THEN answer[c].cookies ELSE jar
  /\ mover' = IF answer[c].sets THEN MovedBy(c) ELSE mover
  /\ LET w == call[c].tab IN
     CASE call[c].kind \in {"switch", "remove"} -> AfterChange(c, w)
       [] call[c].kind = "login" -> AfterLogin(c, w)
       [] call[c].kind = "register" -> AfterRegister(c, w)
       [] call[c].kind = "billing" -> AfterBilling(c, w)
       [] call[c].kind = "logout" -> ToLogin(w)
  /\ UNCHANGED api

\* The answer is lost: fetch throws, and no handler goes on.
Lose(c) ==
  /\ End(c)
  /\ UNCHANGED <<jar, api, screen, mover>>

\* The 15 minutes of the access token are over.
Expire ==
  /\ jar.tenant # None
  /\ jar' = [jar EXCEPT !.tenant = None]
  /\ UNCHANGED <<api, screen, at, call, answer, mover>>

-----------------------------------------------------------------------------
(* Rendering.                                                              *)

\* Without an access token proxy.ts redirects.
proxy(w) ==
  /\ Busy(w) /\ todo[w].header = None /\ jar.tenant = None
  /\ ToLogin(w)
  /\ UNCHANGED <<jar, api, at, call, answer, mover>>

ReadCookies(w) ==
  /\ Busy(w) /\ todo[w].header = None /\ jar.tenant # None
  /\ todo' = [todo EXCEPT ![w].header = jar.tenant]
  /\ UNCHANGED <<jar, api, shell, page, at, call, answer, mover>>

\* Deviation: the store is filled when the layout is mounted, and not again.
AppLayoutOnce(w) ==
  shell' = IF shell[w] = None THEN [shell EXCEPT ![w] = todo[w].header] ELSE shell

AppLayout(w) ==
  shell' = IF "layout" \in todo[w].parts THEN [shell EXCEPT ![w] = todo[w].header] ELSE shell

DashboardPage(w) ==
  /\ todo[w].route = "dashboard"
  /\ page' = [page EXCEPT ![w] =
       [route |-> "dashboard", of |-> todo[w].header, users |-> {}]]

\* If the list or the role cannot be fetched, or the role does not allow it, there is
\* nobody to remove.
MembersPage(w) ==
  /\ todo[w].route = "members"
  /\ \E users \in {members[todo[w].header], {}} :
       page' = [page EXCEPT ![w] = [route |-> "members", of |-> todo[w].header, users |-> users]]

\* The state of a page that is mounted already stays.
BillingPage(w) ==
  /\ todo[w].route = "billing"
  /\ page' = IF page[w].route = "billing" THEN page
             ELSE [page EXCEPT ![w] = [route |-> "billing", of |-> None, users |-> {}]]

Show(w) ==
  /\ todo[w].header # None
  /\ AppLayout(w)
  /\ DashboardPage(w) \/ MembersPage(w) \/ BillingPage(w)
  /\ todo' = [todo EXCEPT ![w] = NothingToDo]
  /\ UNCHANGED <<jar, api, at, call, answer, mover>>

\* The layout's /me fails.
Redirect(w) ==
  /\ todo[w].header # None /\ "layout" \in todo[w].parts
  /\ ToLogin(w)
  /\ UNCHANGED <<jar, api, at, call, answer, mover>>

Router(w) == proxy(w) \/ ReadCookies(w) \/ Show(w) \/ Redirect(w)

-----------------------------------------------------------------------------

User(w) ==
  \/ Visit(w) \/ OtherForm(w) \/ \E route \in Links : Navigate(w, route)
  \/ \E c \in Calls :
       \/ handleLogout(c, w) \/ loadBilling(c, w)
       \/ \E kind \in {"login", "register"} : handleSubmit(c, w, kind)
       \/ \E t \in Tenants : switchTenant(c, w, t)
       \/ \E u \in Users : removeMember(c, w, u)

Next ==
  \/ \E w \in Tabs : User(w) \/ Router(w)
  \/ \E c \in Calls : Serve(c) \/ Arrive(c) \/ Lose(c)
  \/ Expire

Spec == Init /\ [][Next]_vars

\* A tab renders what there is to render, and nobody clicks links for ever faster than
\* it does.  Nobody has to do anything, nor the API to answer.
FairSpec == Spec /\ \A w \in Tabs : WF_vars(Router(w)) /\ SF_vars(Show(w))

-----------------------------------------------------------------------------
(* Properties.                                                             *)

\* The tab that moved the browser to another workspace, by a switch or by a login from
\* outside, shows that workspace in its layout and on its page, as soon as it has rendered
\* what it has to: however its calls, links and forms, and those of other tabs, came in
\* between.  (A second login whose answer finds the tab signed in is not followed.)
MoverSeesItsWorkspace ==
  \A w \in Tabs :
    mover = w /\ ~Busy(w) /\ shell[w] # None /\ jar.tenant # None =>
      /\ shell[w] = jar.tenant
      /\ page[w].route \in {"dashboard", "members"} => page[w].of = jar.tenant

\* A switch that was answered is shown, unless the browser is moved on or signed out
\* meanwhile.
SwitchIsShown ==
  \A w \in Tabs, t \in Tenants :
    mover = w /\ shell[w] # None /\ jar.tenant = t
      ~> shell[w] \in {t, None} \/ jar.tenant # t \/ mover # w

\* member-table.tsx:152 'title={isSelf ? "Leave workspace" : "Remove"}': who is removed
\* is removed from the workspace whose members the tab listed.
RemovedFromWhatIsShown ==
  \A c \in Calls :
    call[c].kind = "remove" /\ at[c] = "served" /\ answer[c].ok =>
      call[c].jar.tenant = call[c].args.shown

\* billing/page.tsx:57 "Current plan", README.md:26 "per-tenant plan tracking": the plan
\* on the billing page is that of the workspace the tab shows.
BillingIsOfTheShell ==
  \A w \in Tabs : page[w].route = "billing" /\ page[w].of \in Tenants /\ ~Busy(w) =>
    page[w].of = shell[w]

-----------------------------------------------------------------------------
(* The inductive invariant behind the types and the first.                 *)

UnderWay(c) == at[c] \in {"sent", "served"}

\* A call that is under way is kept, and one that was answered may have had a token.
CallsAreKept ==
  /\ \A c \in Calls : UnderWay(c) <=> call[c] # NoCall
  /\ token.last <= Cardinality({c \in Calls : at[c] \in {"served", "done"}}) + 1

\* New cookies have a token that was issued, and come for a login, a registration or
\* a switch that succeeded.
CookiesAreEarned ==
  \A c \in Calls : at[c] = "served" /\ answer[c].sets =>
    /\ answer[c].cookies.refresh <= token.last
    /\ answer[c].cookies.tenant # None =>
         answer[c].ok /\ call[c].kind \in {"login", "register", "switch"}

\* The login page has no layout, only the billing page a call under way, and a tab
\* without a layout renders one.
PagesFit ==
  \A w \in Tabs :
    /\ page[w].route = "login" => shell[w] = None
    /\ page[w].of \in Calls => page[w].route = "billing"
    /\ todo[w].header # None => Busy(w)
    /\ Busy(w) /\ shell[w] = None => "layout" \in todo[w].parts

\* What the tab that moved the browser is about to render is the workspace in the cookies.
MoverRendersItsWorkspace ==
  \A w \in Tabs :
    mover = w /\ Busy(w) /\ jar.tenant # None =>
      /\ todo[w].header \in {None, jar.tenant}
      /\ "layout" \in todo[w].parts \/ shell[w] = jar.tenant

FInv ==
  /\ TypeOK /\ CallsAreKept /\ CookiesAreEarned /\ PagesFit
  /\ MoverRendersItsWorkspace /\ MoverSeesItsWorkspace

=============================================================================
