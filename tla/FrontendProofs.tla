---------------------------- MODULE FrontendProofs ----------------------------
(***************************************************************************)
(* Theorems about Frontend for any number of tabs, workspaces and calls,   *)
(* in whatever order answers arrive or get lost.                           *)
(***************************************************************************)
EXTENDS Frontend, FiniteSetTheorems, TLAPS

LEMMA Apart ==
  /\ None \notin Tenants /\ None \notin Tabs /\ None \notin Calls
  /\ Calls \cap Tenants = {}
BY NoneAssumption, UsersAssumption

\* There are as many tokens as there are calls, and one.
LEMMA Counted ==
  /\ Cardinality(Calls) \in Nat
  /\ \A S \in SUBSET Calls : Cardinality(S) \in Nat /\ Cardinality(S) <= Cardinality(Calls)
  /\ \A S \in SUBSET Calls : \A c \in Calls \ S : Cardinality(S \cup {c}) = Cardinality(S) + 1
<1>1. Cardinality(Calls) \in Nat
  BY CallsAssumption, FS_CardinalityType
<1>2. ASSUME NEW S \in SUBSET Calls
      PROVE  IsFiniteSet(S) /\ Cardinality(S) \in Nat /\ Cardinality(S) <= Cardinality(Calls)
  BY CallsAssumption, FS_Subset, FS_CardinalityType
<1>3. ASSUME NEW S \in SUBSET Calls, NEW c \in Calls \ S
      PROVE  Cardinality(S \cup {c}) = Cardinality(S) + 1
  BY <1>2, FS_AddElement
<1> QED BY <1>1, <1>2, <1>3

\* A call, field by field.
LEMMA CallFields ==
  ASSUME NEW k \in Call
  PROVE  /\ k # NoCall
         /\ k.kind \in {"login", "register", "switch", "billing", "logout", "remove"}
         /\ k.tab \in Tabs /\ k.jar \in Jar
         /\ k.kind \in {"login", "register", "switch"} => k.args \in Tenants
         /\ k.kind = "remove" => k.args.user \in Users
<1>1. k # NoCall
  <2>1. k.kind # None
    BY DEF Call, None
  <2> QED BY <2>1 DEF NoCall
<1> QED BY <1>1 DEF Call

\* The call that a tab makes.
LEMMA CallMade ==
  ASSUME NEW w \in Tabs, NEW j \in Jar
  PROVE  /\ \A kind \in {"login", "register", "switch"}, t \in Tenants :
              [kind |-> kind, tab |-> w, jar |-> j, args |-> t] \in Call
         /\ \A kind \in {"billing", "logout"} :
              [kind |-> kind, tab |-> w, jar |-> j, args |-> None] \in Call
         /\ \A u \in Users, t \in Tenants \cup Calls \cup {None} :
              [kind |-> "remove", tab |-> w, jar |-> j, args |-> [user |-> u, shown |-> t]] \in Call
BY DEF Call

\* The ranges of the variables, one by one.
LEMMA Ranges ==
  ASSUME TypeOK
  PROVE  /\ jar.tenant \in Tenants \cup {None} /\ jar.refresh \in Tokens \cup {0}
         /\ token.valid \subseteq Tokens /\ token.last \in Tokens \cup {0}
         /\ \A w \in Tabs :
              /\ shell[w] \in Tenants \cup {None}
              /\ page[w] \in Page /\ page[w].of \in Tenants \cup Calls \cup {None}
              /\ todo[w].parts \subseteq Everything /\ todo[w].header \in Tenants \cup {None}
              /\ (shell[w] = None) <=> (page[w] = Login)
              /\ page[w].route # "login" => shell[w] # None
         /\ \A c \in Calls :
              /\ at[c] \in {"idle", "sent", "served", "done"}
              /\ call[c] \in Call \cup {NoCall}
              /\ answer[c] \in Answer
BY DEF TypeOK, Jar, Page, Answer, ToDo, Login

LEMMA NoneToSee ==
  /\ NoCookies \in Jar /\ NoCookies.tenant = None
  /\ Login \in Page /\ Login.route = "login" /\ Login.of = None
  /\ NothingToDo \in ToDo /\ NothingToDo.header = None /\ NothingToDo.parts = {}
  /\ \A ok, clears \in BOOLEAN :
       /\ Plain(ok, clears) \in Answer
       /\ Plain(ok, clears).ok = ok /\ Plain(ok, clears).sets = clears
       /\ Plain(ok, clears).cookies = NoCookies
<1>1. NoCookies \in Jar /\ NoCookies.tenant = None
  BY DEF NoCookies, Jar
<1>2. Login \in Page /\ Login.route = "login" /\ Login.of = None
  BY DEF Login, Page
<1>3. NothingToDo \in ToDo /\ NothingToDo.header = None /\ NothingToDo.parts = {}
  BY DEF NothingToDo, ToDo, Everything
<1>4. \A ok, clears \in BOOLEAN :
        /\ Plain(ok, clears) \in Answer
        /\ Plain(ok, clears).ok = ok /\ Plain(ok, clears).sets = clears
        /\ Plain(ok, clears).cookies = NoCookies
  BY <1>1 DEF Plain, Answer
<1> QED BY <1>1, <1>2, <1>3, <1>4

-----------------------------------------------------------------------------
(* What a step leaves as it is.                                            *)

\* Calls that nothing happens to.
LEMMA CallsStay ==
  ASSUME CallsAreKept, CookiesAreEarned, UNCHANGED <<token, at, call, answer>>
  PROVE  CallsAreKept' /\ CookiesAreEarned'
BY DEF CallsAreKept, CookiesAreEarned, UnderWay

\* Tabs that nothing happens to, while the cookies stay or the access token runs out.
LEMMA TabsStay ==
  ASSUME FInv, UNCHANGED <<shell, page, todo, mover>>, jar'.tenant \in {jar.tenant, None}
  PROVE  PagesFit' /\ MoverRendersItsWorkspace' /\ MoverSeesItsWorkspace'
BY DEF FInv, PagesFit, MoverRendersItsWorkspace, MoverSeesItsWorkspace, Busy

-----------------------------------------------------------------------------
(* What the user does.                                                     *)

\* A tab makes a call.
LEMMA FetchKeeps ==
  ASSUME FInv, NEW c \in Calls, NEW w \in Tabs, NEW kind, NEW args, Fetch(c, w, kind, args),
         [kind |-> kind, tab |-> w, jar |-> jar, args |-> args] \in Call,
         UNCHANGED <<jar, api, answer, mover>>
  PROVE  /\ call' \in [Calls -> Call \cup {NoCall}]
         /\ at' \in [Calls -> {"idle", "sent", "served", "done"}]
         /\ CallsAreKept' /\ CookiesAreEarned'
<1> DEFINE k == [kind |-> kind, tab |-> w, jar |-> jar, args |-> args]
<1>1. /\ at[c] = "idle" /\ at' = [at EXCEPT ![c] = "sent"] /\ call' = [call EXCEPT ![c] = k]
      /\ UNCHANGED <<jar, token, members, account, answer, mover>>
  BY DEF Fetch, api
<1>2. k \in Call /\ k.kind = kind /\ k.tab = w /\ k # NoCall
  BY CallFields
<1> HIDE DEF k
<1>3. /\ at \in [Calls -> {"idle", "sent", "served", "done"}]
      /\ call \in [Calls -> Call \cup {NoCall}]
  BY DEF FInv, TypeOK
<1>4. /\ at' \in [Calls -> {"idle", "sent", "served", "done"}]
      /\ call' \in [Calls -> Call \cup {NoCall}]
      /\ at'[c] = "sent" /\ call'[c] = k
      /\ \A d \in Calls : d # c => at'[d] = at[d] /\ call'[d] = call[d]
  BY <1>1, <1>2, <1>3
<1>5. CallsAreKept'
  <2>1. {d \in Calls : at'[d] \in {"served", "done"}} = {d \in Calls : at[d] \in {"served", "done"}}
    BY <1>1, <1>4
  <2>2. \A d \in Calls : UnderWay(d)' <=> call'[d] # NoCall
    BY <1>2, <1>4 DEF FInv, CallsAreKept, UnderWay
  <2> QED BY <1>1, <2>1, <2>2 DEF FInv, CallsAreKept
<1>6. CookiesAreEarned'
  BY <1>1, <1>4 DEF FInv, CookiesAreEarned
<1> QED BY <1>4, <1>5, <1>6

LEMMA UserCalls ==
  ASSUME FInv, NEW c \in Calls, NEW w \in Tabs,
         \/ \E kind \in {"login", "register"} : handleSubmit(c, w, kind)
         \/ \E t \in Tenants : switchTenant(c, w, t)
         \/ \E u \in Users : removeMember(c, w, u)
         \/ handleLogout(c, w)
  PROVE  FInv'
<1>1. UNCHANGED <<jar, token, members, account, shell, page, todo, answer, mover>>
  BY DEF handleSubmit, switchTenant, removeMember, handleLogout, api, screen
<1>2. /\ call' \in [Calls -> Call \cup {NoCall}]
      /\ at' \in [Calls -> {"idle", "sent", "served", "done"}]
      /\ CallsAreKept' /\ CookiesAreEarned'
  <2>1. jar \in Jar /\ UNCHANGED <<jar, api, answer, mover>>
    BY <1>1 DEF FInv, TypeOK, api
  <2>2. CASE \E kind \in {"login", "register"} : handleSubmit(c, w, kind)
    <3>1. PICK kind \in {"login", "register"}, t \in Tenants : Fetch(c, w, kind, t)
      BY <2>2 DEF handleSubmit
    <3>2. [kind |-> kind, tab |-> w, jar |-> jar, args |-> t] \in Call
      BY <2>1, CallMade
    <3> QED BY <2>1, <3>1, <3>2, FetchKeeps
  <2>3. CASE \E t \in Tenants : switchTenant(c, w, t)
    <3>1. PICK t \in Tenants : shell[w] # None /\ Fetch(c, w, "switch", t)
      BY <2>3 DEF switchTenant
    <3>2. [kind |-> "switch", tab |-> w, jar |-> jar, args |-> t] \in Call
      BY <2>1, CallMade
    <3> QED BY <2>1, <3>1, <3>2, FetchKeeps
  <2>4. CASE \E u \in Users : removeMember(c, w, u)
    <3>1. PICK u \in Users : /\ page[w].route = "members"
                             /\ Fetch(c, w, "remove", [user |-> u, shown |-> page[w].of])
      BY <2>4 DEF removeMember
    <3>2. shell[w] # None /\ page[w].of \in Tenants \cup Calls \cup {None}
      BY <3>1, Ranges DEF FInv
    <3>3. [kind |-> "remove", tab |-> w, jar |-> jar,
           args |-> [user |-> u, shown |-> page[w].of]] \in Call
      BY <2>1, <3>2, CallMade
    <3> QED BY <2>1, <3>1, <3>2, <3>3, FetchKeeps
  <2>5. CASE handleLogout(c, w)
    <3>1. shell[w] # None /\ Fetch(c, w, "logout", None)
      BY <2>5 DEF handleLogout
    <3>2. [kind |-> "logout", tab |-> w, jar |-> jar, args |-> None] \in Call
      BY <2>1, CallMade
    <3> QED BY <2>1, <3>1, <3>2, FetchKeeps
  <2> QED BY <2>2, <2>3, <2>4, <2>5
<1>3. TypeOK'
  BY <1>1, <1>2 DEF FInv, TypeOK
<1> QED BY <1>1, <1>2, <1>3, TabsStay DEF FInv

LEMMA BillingCalls ==
  ASSUME FInv, NEW c \in Calls, NEW w \in Tabs, loadBilling(c, w)
  PROVE  FInv'
<1>1. /\ page[w].route = "billing" /\ Fetch(c, w, "billing", None)
      /\ page' = [page EXCEPT ![w].of = c]
      /\ UNCHANGED <<jar, token, members, account, shell, todo, answer, mover>>
  BY DEF loadBilling, api
<1>2. /\ shell[w] # None /\ page[w] \in Page
      /\ jar \in Jar /\ page \in [Tabs -> Page]
  BY <1>1, Ranges DEF FInv, TypeOK
<1>3. /\ call' \in [Calls -> Call \cup {NoCall}]
      /\ at' \in [Calls -> {"idle", "sent", "served", "done"}]
      /\ CallsAreKept' /\ CookiesAreEarned'
  <2>1. [kind |-> "billing", tab |-> w, jar |-> jar, args |-> None] \in Call
    BY <1>2, CallMade
  <2> QED BY <1>1, <1>2, <2>1, FetchKeeps DEF api
<1>4. /\ page' \in [Tabs -> Page]
      /\ page'[w].route = "billing" /\ page'[w].of = c
      /\ \A v \in Tabs : v # w => page'[v] = page[v]
  BY <1>1, <1>2 DEF Page
<1>5. page'[w] # Login
  BY <1>4, NoneToSee
<1>6. TypeOK'
  BY <1>1, <1>2, <1>3, <1>4, <1>5 DEF FInv, TypeOK
<1>7. PagesFit'
  BY <1>1, <1>4 DEF FInv, PagesFit, Busy
<1>8. MoverRendersItsWorkspace'
  BY <1>1 DEF FInv, MoverRendersItsWorkspace, Busy
<1>9. MoverSeesItsWorkspace'
  BY <1>1, <1>4 DEF FInv, MoverSeesItsWorkspace, Busy
<1> QED BY <1>3, <1>6, <1>7, <1>8, <1>9 DEF FInv

\* A tab begins to render: all of it, if it has no layout.
LEMMA RenderKeeps ==
  ASSUME FInv, NEW w \in Tabs, NEW parts \in SUBSET Everything, NEW route,
         route \in {"login", "dashboard", "members", "billing"}, parts # {},
         Render(w, parts, route),
         \/ parts = Everything
         \/ shell[w] # None /\ (mover = w /\ ~Busy(w) /\ jar.tenant # None => shell[w] = jar.tenant),
         UNCHANGED <<jar, api, shell, page, at, call, answer, mover>>
  PROVE  FInv'
<1>1. /\ todo \in [Tabs -> ToDo]
      /\ UNCHANGED <<jar, token, members, account, shell, page, at, call, answer, mover>>
  BY DEF FInv, TypeOK, api
<1>2. /\ todo' \in [Tabs -> ToDo]
      /\ todo'[w].parts = todo[w].parts \cup parts /\ todo'[w].header = None
      /\ \A v \in Tabs : v # w => todo'[v] = todo[v]
  BY <1>1, Apart DEF Render, ToDo
<1>3. TypeOK'
  BY <1>1, <1>2 DEF FInv, TypeOK
<1>4. CallsAreKept' /\ CookiesAreEarned'
  BY <1>1, CallsStay DEF FInv
<1>5. todo'[w].parts # {} /\ (parts = Everything => "layout" \in todo'[w].parts)
  BY <1>2 DEF Everything
<1>6. PagesFit'
  BY <1>1, <1>2, <1>5 DEF FInv, PagesFit, Busy
<1>7. MoverRendersItsWorkspace'
  <2> SUFFICES ASSUME NEW v \in Tabs, mover = v, todo'[v].parts # {}, jar.tenant # None
               PROVE  /\ todo'[v].header \in {None, jar.tenant}
                      /\ "layout" \in todo'[v].parts \/ shell[v] = jar.tenant
    BY <1>1 DEF MoverRendersItsWorkspace, Busy
  <2>1. CASE v = w
    <3>1. CASE parts = Everything
      BY <1>2, <1>5, <2>1, <3>1
    <3>2. CASE parts # Everything /\ ~Busy(w)
      BY <1>2, <2>1, <3>2
    <3>3. CASE parts # Everything /\ Busy(w)
      BY <1>2, <2>1, <3>3 DEF FInv, MoverRendersItsWorkspace
    <3> QED BY <3>1, <3>2, <3>3
  <2>2. CASE v # w
    BY <1>2, <2>2 DEF FInv, MoverRendersItsWorkspace, Busy
  <2> QED BY <2>1, <2>2
<1>8. MoverSeesItsWorkspace'
  BY <1>1, <1>2, <1>5 DEF FInv, MoverSeesItsWorkspace, Busy
<1> QED BY <1>3, <1>4, <1>6, <1>7, <1>8 DEF FInv

\* What there was to render is dropped, and the tab has no layout.
LEMMA DropKeeps ==
  ASSUME FInv, NEW w \in Tabs, OtherForm(w)
  PROVE  FInv'
<1>1. /\ todo' = [todo EXCEPT ![w] = NothingToDo]
      /\ UNCHANGED <<jar, token, members, account, shell, page, at, call, answer, mover>>
  BY DEF OtherForm, api
<1>2. shell[w] = None /\ todo \in [Tabs -> ToDo]
  BY DEF OtherForm, FInv, PagesFit, TypeOK
<1>3. /\ todo' \in [Tabs -> ToDo] /\ todo'[w] = NothingToDo
      /\ NothingToDo.header = None /\ NothingToDo.parts = {}
      /\ \A v \in Tabs : v # w => todo'[v] = todo[v]
  BY <1>1, <1>2, NoneToSee
<1>4. TypeOK'
  BY <1>1, <1>3 DEF FInv, TypeOK
<1>5. CallsAreKept' /\ CookiesAreEarned'
  BY <1>1, CallsStay DEF FInv
<1>6. PagesFit'
  BY <1>1, <1>3 DEF FInv, PagesFit, Busy
<1>7. MoverRendersItsWorkspace'
  BY <1>1, <1>3 DEF FInv, MoverRendersItsWorkspace, Busy
<1>8. MoverSeesItsWorkspace'
  BY <1>1, <1>2, <1>3 DEF FInv, MoverSeesItsWorkspace, Busy
<1> QED BY <1>4, <1>5, <1>6, <1>7, <1>8 DEF FInv

LEMMA LinkKeeps ==
  ASSUME FInv, NEW w \in Tabs, Visit(w) \/ \E route \in Links : Navigate(w, route)
  PROVE  FInv'
<1>1. CASE Visit(w)
  <2>1. /\ Render(w, Everything, "dashboard")
        /\ UNCHANGED <<jar, api, shell, page, at, call, answer, mover>>
    BY <1>1 DEF Visit
  <2>2. Everything # {}
    BY DEF Everything
  <2> QED BY <2>1, <2>2, RenderKeeps
<1>2. ASSUME NEW route \in Links, Navigate(w, route) PROVE FInv'
  <2>1. /\ Render(w, {"page"}, route) /\ shell[w] # None
        /\ UNCHANGED <<jar, api, shell, page, at, call, answer, mover>>
    BY <1>2 DEF Navigate
  <2>2. mover = w /\ ~Busy(w) /\ jar.tenant # None => shell[w] = jar.tenant
    BY <2>1 DEF FInv, MoverSeesItsWorkspace
  <2>3. route \in {"login", "dashboard", "members", "billing"} /\ {"page"} \in SUBSET Everything
    BY LinksAssumption DEF Everything
  <2> QED BY <2>1, <2>2, <2>3, RenderKeeps
<1> QED BY <1>1, <1>2

-----------------------------------------------------------------------------
(* The API.                                                                *)

\* A call is answered, with a token that is the next one if it has one.
LEMMA ReplyKeeps ==
  ASSUME FInv, NEW c \in Calls, NEW a \in Answer, Reply(c, a),
         token' = [valid |-> token'.valid, last |-> token'.last],
         \/ token'.last = token.last /\ token'.valid \subseteq token.valid
         \/ token'.last = token.last + 1 /\ token'.valid \subseteq token.valid \cup {token.last + 1},
         a.sets => /\ a.cookies.refresh <= token'.last
                   /\ a.cookies.tenant # None =>
                        a.ok /\ call[c].kind \in {"login", "register", "switch"},
         members' \in [Tenants -> SUBSET Users], account' \in BOOLEAN
  PROVE  FInv'
<1> DEFINE Answered == {d \in Calls : at[d] \in {"served", "done"}}
<1>1. /\ at[c] = "sent" /\ at' = [at EXCEPT ![c] = "served"]
      /\ answer' = [answer EXCEPT ![c] = a]
      /\ UNCHANGED <<jar, shell, page, todo, call, mover>>
  BY DEF Reply, screen
<1>2. /\ at \in [Calls -> {"idle", "sent", "served", "done"}]
      /\ answer \in [Calls -> Answer] /\ call \in [Calls -> Call \cup {NoCall}]
      /\ token.valid \subseteq Tokens /\ token.last \in Tokens \cup {0}
      /\ jar.refresh \in Tokens \cup {0} /\ jar.refresh <= token.last
  BY Ranges DEF FInv, TypeOK
<1>3. /\ at' \in [Calls -> {"idle", "sent", "served", "done"}] /\ at'[c] = "served"
      /\ answer' \in [Calls -> Answer] /\ answer'[c] = a
      /\ \A d \in Calls : d # c => at'[d] = at[d] /\ answer'[d] = answer[d]
  BY <1>1, <1>2
<1>4. /\ Cardinality(Answered) \in Nat /\ Cardinality(Answered') = Cardinality(Answered) + 1
      /\ Cardinality(Answered') <= Cardinality(Calls)
      /\ Cardinality(Calls) \in Nat
  <2>1. Answered' = Answered \cup {c} /\ Answered \in SUBSET Calls /\ c \in Calls \ Answered
    BY <1>1, <1>3
  <2>2. Answered' \in SUBSET Calls
    BY <2>1
  <2> HIDE DEF Answered
  <2> QED BY <2>1, <2>2, Counted
<1>5. token.last <= Cardinality(Answered) + 1
  BY DEF FInv, CallsAreKept
<1>6. /\ token'.last <= Cardinality(Answered') + 1
      /\ token'.last \in Tokens \cup {0} /\ token'.valid \subseteq Tokens
      /\ token.last \in Nat /\ token'.last \in Nat /\ token.last <= token'.last
  <2> HIDE DEF Answered
  <2>1. token.last \in Nat /\ token'.last \in Nat /\ token.last <= token'.last
    BY <1>2, <1>4 DEF Tokens
  <2>2. token'.last <= Cardinality(Answered') + 1
    BY <1>4, <1>5, <2>1
  <2>3. token.last + 1 <= Cardinality(Answered') + 1
    BY <1>4, <1>5, <2>1
  <2>4. token.last + 1 \in Tokens
    BY <1>4, <2>1, <2>3 DEF Tokens
  <2> QED BY <1>2, <2>1, <2>2, <2>4
<1>7. TypeOK'
  <2>1. token' \in [valid : SUBSET Tokens, last : Tokens \cup {0}]
    BY <1>6
  <2>2. jar.refresh <= token'.last
    BY <1>2, <1>4, <1>6 DEF Tokens
  <2> QED BY <1>1, <1>3, <2>1, <2>2 DEF FInv, TypeOK
<1>8. CallsAreKept'
  <2>1. \A d \in Calls : UnderWay(d)' <=> UnderWay(d)
    BY <1>1, <1>3 DEF UnderWay
  <2> QED BY <1>1, <1>6, <2>1 DEF FInv, CallsAreKept
<1>9. CookiesAreEarned'
  <2> SUFFICES ASSUME NEW d \in Calls, at'[d] = "served", answer'[d].sets
               PROVE  /\ answer'[d].cookies.refresh <= token'.last
                      /\ answer'[d].cookies.tenant # None =>
                           answer'[d].ok /\ call[d].kind \in {"login", "register", "switch"}
    BY <1>1 DEF CookiesAreEarned
  <2>1. CASE d = c
    BY <1>3, <2>1
  <2>2. CASE d # c
    <3>1. at[d] = "served" /\ answer'[d] = answer[d]
      BY <1>3, <2>2
    <3>2. /\ answer[d].cookies.refresh <= token.last
          /\ answer[d].cookies.tenant # None =>
               answer[d].ok /\ call[d].kind \in {"login", "register", "switch"}
      BY <3>1 DEF FInv, CookiesAreEarned
    <3>3. answer[d].cookies.refresh \in Tokens \cup {0}
      BY <1>2 DEF Answer, Jar
    <3>4. answer[d].cookies.refresh <= token'.last
      BY <1>4, <1>6, <3>2, <3>3 DEF Tokens
    <3> QED BY <3>1, <3>2, <3>4
  <2> QED BY <2>1, <2>2
<1> QED BY <1>1, <1>7, <1>8, <1>9, TabsStay DEF FInv

\* Plain answers, while at most tokens are taken back.
LEMMA PlainKeeps ==
  ASSUME FInv, NEW c \in Calls, NEW ok \in BOOLEAN, NEW clears \in BOOLEAN,
         Reply(c, Plain(ok, clears)),
         token' = token \/ \E old : token' = [token EXCEPT !.valid = @ \ old],
         members' \in [Tenants -> SUBSET Users], account' \in BOOLEAN
  PROVE  FInv'
<1> DEFINE a == Plain(ok, clears)
<1>1. a \in Answer /\ a.cookies = NoCookies
  BY NoneToSee
<1>2. a.cookies.tenant = None /\ a.cookies.refresh = 0
  BY <1>1 DEF NoCookies
<1>3. token \in [valid : SUBSET Tokens, last : Tokens \cup {0}]
  BY DEF FInv, TypeOK
<1>4. /\ token' = [valid |-> token'.valid, last |-> token'.last]
      /\ token'.last = token.last /\ token'.valid \subseteq token.valid
  BY <1>3
<1>5. 0 <= token'.last
  BY <1>3, <1>4, Counted DEF Tokens
<1> HIDE DEF a
<1> QED BY <1>1, <1>2, <1>4, <1>5, ReplyKeeps DEF a

LEMMA IssueKeeps ==
  ASSUME FInv, NEW c \in Calls, NEW t \in Tenants, NEW old, Issue(c, t, old),
         call[c].kind \in {"login", "register", "switch"},
         members' \in [Tenants -> SUBSET Users], account' \in BOOLEAN
  PROVE  FInv'
<1> DEFINE j == [tenant |-> t, refresh |-> token.last + 1]
           a == [ok |-> TRUE, sets |-> TRUE, cookies |-> j]
           S == {d \in Calls : at[d] \in {"served", "done"}}
<1>1. /\ at[c] = "sent" /\ Reply(c, a)
      /\ token' = [valid |-> (token.valid \ old) \cup {token.last + 1}, last |-> token.last + 1]
  BY DEF Issue, Reply
<1>2. token.last + 1 \in Tokens
  <2>1. S \in SUBSET Calls /\ c \in Calls \ S /\ S \cup {c} \in SUBSET Calls
    BY <1>1
  <2>2. token.last \in Tokens \cup {0} /\ token.last <= Cardinality(S) + 1
    BY Ranges DEF FInv, CallsAreKept
  <2> HIDE DEF S
  <2>3. /\ Cardinality(S) \in Nat /\ Cardinality(Calls) \in Nat
        /\ Cardinality(S) + 1 <= Cardinality(Calls)
    BY <2>1, Counted
  <2> QED BY <2>2, <2>3 DEF Tokens
<1>3. j \in Jar /\ j.refresh = token.last + 1
  BY <1>2 DEF Jar
<1> HIDE DEF j
<1>4. a \in Answer /\ a.ok = TRUE /\ a.cookies.refresh = token.last + 1
  BY <1>3 DEF Answer
<1>5. token'.last = token.last + 1 /\ token'.valid \subseteq token.valid \cup {token.last + 1}
  BY <1>1
<1>6. token' = [valid |-> token'.valid, last |-> token'.last]
  BY <1>1
<1>7. a.cookies.refresh <= token'.last
  BY <1>2, <1>4, <1>5 DEF Tokens
<1> HIDE DEF a
<1> QED BY <1>1, <1>4, <1>5, <1>6, <1>7, ReplyKeeps

LEMMA ServeKeeps ==
  ASSUME FInv, NEW c \in Calls, Serve(c)
  PROVE  FInv'
<1>1. members \in [Tenants -> SUBSET Users] /\ account \in BOOLEAN
  BY DEF FInv, TypeOK
<1>2. call[c] \in Call
  <2>1. at[c] = "sent"
    BY DEF Serve, handleRegister, handleLogin, AuthRequired, handleSwitch, handleRemoveMember,
           handleGetBilling, ServeLogout, Refuse, Issue, Reply
  <2> QED BY <2>1, Ranges DEF FInv, CallsAreKept, UnderWay
<1>3. CASE handleRegister(c)
  <2>1. /\ call[c].kind = "register" /\ call[c].args \in Tenants
        /\ Issue(c, call[c].args, {})
    BY <1>2, <1>3, CallFields DEF handleRegister
  <2>2. members' \in [Tenants -> SUBSET Users] /\ account' \in BOOLEAN
    BY <1>1, <1>3, <2>1 DEF handleRegister, Users
  <2> QED BY <2>1, <2>2, IssueKeeps
<1>4. CASE handleLogin(c)
  BY <1>1, <1>4, IssueKeeps DEF handleLogin
<1>5. CASE AuthRequired(c)
  BY <1>1, <1>5, PlainKeeps DEF AuthRequired, Unauthorized, api
<1>6. CASE handleSwitch(c)
  <2>1. /\ call[c].kind = "switch" /\ call[c].args \in Tenants
        /\ members' = members /\ account' = account
    BY <1>2, <1>6, CallFields DEF handleSwitch
  <2>2. CASE Issue(c, call[c].args, {call[c].jar.refresh})
    BY <1>1, <2>1, <2>2, IssueKeeps
  <2>3. CASE Reply(c, Unauthorized) /\ UNCHANGED token
    BY <1>1, <2>1, <2>3, PlainKeeps DEF Unauthorized
  <2> QED BY <1>6, <2>2, <2>3 DEF handleSwitch
<1>7. CASE handleRemoveMember(c)
  <2>1. members' \in [Tenants -> SUBSET Users]
    BY <1>1, <1>7 DEF handleRemoveMember
  <2> QED BY <1>1, <1>7, <2>1, PlainKeeps DEF handleRemoveMember, Success
<1>8. CASE handleGetBilling(c)
  BY <1>1, <1>8, PlainKeeps DEF handleGetBilling, Success, api
<1>9. CASE ServeLogout(c)
  BY <1>1, <1>9, PlainKeeps DEF ServeLogout
<1>10. CASE Refuse(c)
  BY <1>1, <1>10, PlainKeeps DEF Refuse, Refusal, api
<1> QED BY <1>3, <1>4, <1>5, <1>6, <1>7, <1>8, <1>9, <1>10 DEF Serve

-----------------------------------------------------------------------------
(* What comes back.                                                        *)

\* A call is over: of the others nothing changes.
LEMMA EndKeeps ==
  ASSUME FInv, NEW c \in Calls, End(c), UNCHANGED token
  PROVE  /\ call[c] \in Call /\ call[c].tab \in Tabs /\ UnderWay(c)
         /\ at' \in [Calls -> {"idle", "sent", "served", "done"}]
         /\ call' \in [Calls -> Call \cup {NoCall}] /\ answer' \in [Calls -> Answer]
         /\ CallsAreKept' /\ CookiesAreEarned'
<1>1. /\ at[c] = "served" /\ at' = [at EXCEPT ![c] = "done"]
      /\ call' = [call EXCEPT ![c] = NoCall] /\ answer' = [answer EXCEPT ![c] = Refusal]
  BY DEF End
<1>2. /\ at \in [Calls -> {"idle", "sent", "served", "done"}]
      /\ answer \in [Calls -> Answer] /\ call \in [Calls -> Call \cup {NoCall}]
  BY DEF FInv, TypeOK
<1>3. Refusal \in Answer /\ ~Refusal.sets
  BY NoneToSee DEF Refusal
<1>4. /\ at' \in [Calls -> {"idle", "sent", "served", "done"}] /\ at'[c] = "done"
      /\ answer' \in [Calls -> Answer]
      /\ call' \in [Calls -> Call \cup {NoCall}] /\ call'[c] = NoCall
      /\ \A d \in Calls : d # c => at'[d] = at[d] /\ answer'[d] = answer[d] /\ call'[d] = call[d]
  BY <1>1, <1>2, <1>3
<1>5. call[c] \in Call /\ call[c].tab \in Tabs /\ UnderWay(c)
  BY <1>1, <1>2, CallFields DEF FInv, CallsAreKept, UnderWay
<1>6. CallsAreKept'
  <2>1. {d \in Calls : at'[d] \in {"served", "done"}} = {d \in Calls : at[d] \in {"served", "done"}}
    BY <1>1, <1>4
  <2>2. \A d \in Calls : UnderWay(d)' <=> call'[d] # NoCall
    BY <1>4 DEF FInv, CallsAreKept, UnderWay
  <2> QED BY <2>1, <2>2 DEF FInv, CallsAreKept
<1>7. CookiesAreEarned'
  BY <1>4 DEF FInv, CookiesAreEarned
<1> QED BY <1>4, <1>5, <1>6, <1>7

\* A tab is shown the login page, while the cookies stay, are of no workspace, or come
\* to this tab.
LEMMA LoginShown ==
  ASSUME FInv, NEW w \in Tabs, ToLogin(w),
         \/ jar'.tenant = None
         \/ jar'.tenant = jar.tenant /\ mover' = mover
         \/ mover' = w
  PROVE  /\ shell' \in [Tabs -> Tenants \cup {None}] /\ page' \in [Tabs -> Page]
         /\ todo' \in [Tabs -> ToDo]
         /\ \A v \in Tabs : (shell'[v] = None) <=> (page'[v] = Login)
         /\ shell'[w] = None /\ todo'[w].parts = {}
         /\ \A v \in Tabs : v # w => shell'[v] = shell[v] /\ todo'[v] = todo[v]
         /\ PagesFit' /\ MoverRendersItsWorkspace' /\ MoverSeesItsWorkspace'
<1>1. /\ shell \in [Tabs -> Tenants \cup {None}] /\ page \in [Tabs -> Page]
      /\ todo \in [Tabs -> ToDo]
      /\ \A v \in Tabs : (shell[v] = None) <=> (page[v] = Login)
  BY DEF FInv, TypeOK
<1>2. /\ Login \in Page /\ Login.route = "login" /\ Login.of \notin Calls
      /\ NothingToDo \in ToDo /\ NothingToDo.header = None /\ NothingToDo.parts = {}
  BY NoneToSee, Apart
<1>3. /\ shell' = [shell EXCEPT ![w] = None] /\ page' = [page EXCEPT ![w] = Login]
      /\ todo' = [todo EXCEPT ![w] = NothingToDo]
  BY DEF ToLogin
<1>4. /\ shell' \in [Tabs -> Tenants \cup {None}] /\ page' \in [Tabs -> Page]
      /\ todo' \in [Tabs -> ToDo]
      /\ shell'[w] = None /\ page'[w] = Login /\ todo'[w] = NothingToDo
      /\ \A v \in Tabs : v # w => shell'[v] = shell[v] /\ page'[v] = page[v] /\ todo'[v] = todo[v]
  BY <1>1, <1>2, <1>3
<1>5. PagesFit'
  BY <1>2, <1>4 DEF FInv, PagesFit, Busy
<1>6. MoverRendersItsWorkspace'
  BY <1>2, <1>4 DEF FInv, MoverRendersItsWorkspace, Busy
<1>7. MoverSeesItsWorkspace'
  BY <1>2, <1>4 DEF FInv, MoverSeesItsWorkspace, Busy
<1> QED BY <1>1, <1>2, <1>4, <1>5, <1>6, <1>7

LEMMA LoseKeeps ==
  ASSUME FInv, NEW c \in Calls, Lose(c)
  PROVE  FInv'
<1>1. End(c) /\ UNCHANGED <<jar, token, members, account, shell, page, todo, mover>>
  BY DEF Lose, api, screen
<1>2. /\ at' \in [Calls -> {"idle", "sent", "served", "done"}]
      /\ call' \in [Calls -> Call \cup {NoCall}] /\ answer' \in [Calls -> Answer]
      /\ CallsAreKept' /\ CookiesAreEarned'
  BY <1>1, EndKeeps
<1>3. TypeOK'
  BY <1>1, <1>2 DEF FInv, TypeOK
<1> QED BY <1>1, <1>2, <1>3, TabsStay DEF FInv

\* The tab whose call has moved the browser renders everything, or is not signed in and
\* renders nothing; or it is not taken for the one that did.
LEMMA ArriveKeeps ==
  ASSUME FInv, NEW c \in Calls, Arrive(c)
  PROVE  FInv'
<1> DEFINE w == call[c].tab
<1>1. /\ End(c)
      /\ jar' = IF answer[c].sets THEN answer[c].cookies ELSE jar
      /\ mover' = IF answer[c].sets THEN MovedBy(c) ELSE mover
      /\ UNCHANGED <<token, members, account>>
  BY DEF Arrive, api
<1>2. /\ call[c] \in Call /\ w \in Tabs /\ UnderWay(c) /\ at[c] = "served"
      /\ at' \in [Calls -> {"idle", "sent", "served", "done"}]
      /\ call' \in [Calls -> Call \cup {NoCall}] /\ answer' \in [Calls -> Answer]
      /\ CallsAreKept' /\ CookiesAreEarned'
  BY <1>1, EndKeeps DEF End
<1>3. /\ MovedBy(c) \in {w, None}
      /\ call[c].kind # "login" \/ shell[w] = None => MovedBy(c) = w
      /\ call[c].kind = "login" /\ shell[w] # None => MovedBy(c) = None
  BY DEF MovedBy
<1>4. /\ jar' \in Jar /\ jar'.refresh <= token.last /\ mover' \in Tabs \cup {None}
      /\ answer[c].sets /\ jar'.tenant # None =>
           answer[c].ok /\ call[c].kind \in {"login", "register", "switch"}
  <2>1. answer[c] \in Answer /\ jar \in Jar /\ jar.refresh <= token.last /\ mover \in Tabs \cup {None}
    BY DEF FInv, TypeOK
  <2>2. answer[c].cookies \in Jar
    BY <2>1 DEF Answer
  <2> QED BY <1>1, <1>2, <1>3, <2>1, <2>2 DEF FInv, CookiesAreEarned
<1>5. /\ shell \in [Tabs -> Tenants \cup {None}] /\ page \in [Tabs -> Page]
      /\ todo \in [Tabs -> ToDo]
      /\ \A v \in Tabs : (shell[v] = None) <=> (page[v] = Login)
      /\ members \in [Tenants -> SUBSET Users] /\ account \in BOOLEAN
      /\ token \in [valid : SUBSET Tokens, last : Tokens \cup {0}]
  BY DEF FInv, TypeOK
<1>6. /\ call[c].kind \in {"login", "register", "switch", "billing", "logout", "remove"}
      /\ call[c].jar.tenant \in Tenants \cup {None}
  BY <1>2, CallFields DEF Jar
<1> SUFFICES /\ shell' \in [Tabs -> Tenants \cup {None}] /\ page' \in [Tabs -> Page]
             /\ todo' \in [Tabs -> ToDo]
             /\ \A v \in Tabs : (shell'[v] = None) <=> (page'[v] = Login)
             /\ PagesFit' /\ MoverRendersItsWorkspace' /\ MoverSeesItsWorkspace'
  <2>1. TypeOK'
    BY <1>1, <1>2, <1>4, <1>5 DEF TypeOK
  <2> QED BY <1>2, <2>1 DEF FInv
<1> HIDE DEF w
\* The screen stays: then the cookies are of no workspace, the same, or find no layout.
<1>7. CASE UNCHANGED screen /\ (answer[c].sets /\ jar'.tenant # None => shell[w] = None /\ ~Busy(w))
  <2>1. UNCHANGED <<shell, page, todo>>
    BY <1>7 DEF screen
  <2>2. PagesFit'
    BY <2>1 DEF FInv, PagesFit, Busy
  <2>3. MoverRendersItsWorkspace'
    BY <1>1, <1>3, <1>7, <2>1 DEF FInv, MoverRendersItsWorkspace, Busy
  <2>4. MoverSeesItsWorkspace'
    BY <1>1, <1>3, <1>7, <2>1 DEF FInv, MoverSeesItsWorkspace, Busy
  <2> QED BY <1>5, <2>1, <2>2, <2>3, <2>4
<1>8. ASSUME NEW route \in {"login", "dashboard", "members", "billing"},
             Render(w, Everything, route), UNCHANGED <<shell, page>>
      PROVE  todo' \in [Tabs -> ToDo] /\ PagesFit' /\ MoverRendersItsWorkspace' /\ MoverSeesItsWorkspace'
  <2>1. /\ todo' \in [Tabs -> ToDo]
        /\ todo'[w].parts = Everything /\ todo'[w].header = None
        /\ \A v \in Tabs : v # w => todo'[v] = todo[v]
    BY <1>2, <1>5, <1>8 DEF Render, ToDo
  <2>2. todo'[w].parts # {} /\ "layout" \in todo'[w].parts
    BY <2>1 DEF Everything
  <2>3. mover' \in Tabs /\ mover' # w => mover' = mover /\ jar' = jar
    BY <1>1, <1>3, Apart
  <2>4. PagesFit'
    BY <1>2, <1>8, <2>1, <2>2 DEF FInv, PagesFit, Busy
  <2>5. MoverRendersItsWorkspace'
    BY <1>8, <2>1, <2>2, <2>3 DEF FInv, MoverRendersItsWorkspace, Busy
  <2>6. MoverSeesItsWorkspace'
    BY <1>8, <2>1, <2>2, <2>3 DEF FInv, MoverSeesItsWorkspace, Busy
  <2> QED BY <2>1, <2>4, <2>5, <2>6
<1>9. CASE call[c].kind \in {"switch", "remove"}
  <2>1. AfterChange(c, w)
    BY <1>9 DEF Arrive, w
  <2>2. CASE answer[c].ok /\ (shell[w] # None \/ Busy(w))
    <3>1. /\ UNCHANGED <<shell, page>>
          /\ Render(w, Everything, IF Busy(w) THEN todo[w].route ELSE page[w].route)
      BY <2>1, <2>2 DEF AfterChange, Refresh
    <3>2. (IF Busy(w) THEN todo[w].route ELSE page[w].route) \in {"login", "dashboard", "members", "billing"}
      BY <1>2, <1>5 DEF Page, ToDo, w
    <3> QED BY <1>5, <1>8, <3>1, <3>2
  <2>3. CASE answer[c].ok /\ shell[w] = None /\ ~Busy(w)
    BY <1>7, <2>1, <2>3 DEF AfterChange, Refresh, screen
  <2>4. CASE ~answer[c].ok
    BY <1>4, <1>7, <2>1, <2>4 DEF AfterChange
  <2> QED BY <2>2, <2>3, <2>4
<1>10. CASE call[c].kind = "login"
  <2>1. AfterLogin(c, w)
    BY <1>10 DEF Arrive, w
  <2>2. CASE answer[c].ok /\ shell[w] = None
    BY <1>5, <1>8, <2>1, <2>2 DEF AfterLogin
  <2>3. CASE answer[c].ok /\ shell[w] # None
    <3>1. Render(w, {"page"}, "dashboard") /\ UNCHANGED <<shell, page>>
      BY <2>1, <2>3 DEF AfterLogin
    <3>2. /\ todo' \in [Tabs -> ToDo]
          /\ todo'[w].parts = todo[w].parts \cup {"page"} /\ todo'[w].header = None
          /\ \A v \in Tabs : v # w => todo'[v] = todo[v]
      BY <1>2, <1>5, <3>1 DEF Render, ToDo, Everything
    <3>3. mover' \in Tabs => mover' = mover /\ jar' = jar
      BY <1>1, <1>3, <1>10, <2>3, Apart
    <3>4. PagesFit'
      BY <2>3, <3>1, <3>2 DEF FInv, PagesFit, Busy
    <3>5. mover = w /\ jar.tenant # None => "layout" \in todo[w].parts \/ shell[w] = jar.tenant
      BY <1>2, <2>3 DEF FInv, MoverRendersItsWorkspace, MoverSeesItsWorkspace, w
    <3>6. MoverRendersItsWorkspace'
      BY <3>1, <3>2, <3>3, <3>5 DEF FInv, MoverRendersItsWorkspace, Busy
    <3>7. MoverSeesItsWorkspace'
      BY <3>1, <3>2, <3>3 DEF FInv, MoverSeesItsWorkspace, Busy
    <3> QED BY <1>5, <3>1, <3>2, <3>4, <3>6, <3>7
  <2>4. CASE ~answer[c].ok
    BY <1>4, <1>7, <2>1, <2>4 DEF AfterLogin
  <2> QED BY <2>2, <2>3, <2>4
<1>11. CASE call[c].kind = "billing"
  <2>1. /\ page' = IF page[w].of = c /\ answer[c].ok
                   THEN [page EXCEPT ![w].of = call[c].jar.tenant] ELSE page
        /\ UNCHANGED <<shell, todo>>
    BY <1>11 DEF Arrive, AfterBilling, w
  <2>2. jar'.tenant # None => jar' = jar /\ mover' = mover
    BY <1>1, <1>4, <1>11
  <2>3. CASE page' = page
    BY <1>1, <1>4, <1>7, <1>11, <2>1, <2>3 DEF screen
  <2>4. CASE page' # page
    <3>1. /\ page[w].of = c /\ page[w].route = "billing"
          /\ page' = [page EXCEPT ![w].of = call[c].jar.tenant]
      BY <1>2, <2>1, <2>4 DEF FInv, PagesFit, w
    <3>2. /\ page' \in [Tabs -> Page]
          /\ page'[w].route = "billing" /\ page'[w].of \notin Calls
          /\ \A v \in Tabs : v # w => page'[v] = page[v]
      BY <1>2, <1>5, <1>6, <3>1, Apart DEF Page, w
    <3>3. page'[w] # Login /\ page[w] # Login
      BY <3>1, <3>2, NoneToSee
    <3>4. \A v \in Tabs : (shell'[v] = None) <=> (page'[v] = Login)
      BY <1>5, <2>1, <3>2, <3>3
    <3>5. PagesFit'
      BY <2>1, <3>2 DEF FInv, PagesFit, Busy
    <3>6. MoverRendersItsWorkspace'
      BY <2>1, <2>2 DEF FInv, MoverRendersItsWorkspace, Busy
    <3>7. MoverSeesItsWorkspace'
      BY <2>1, <2>2, <3>2 DEF FInv, MoverSeesItsWorkspace, Busy
    <3> QED BY <1>5, <2>1, <3>2, <3>4, <3>5, <3>6, <3>7
  <2> QED BY <2>3, <2>4
<1>12. ASSUME ToLogin(w), call[c].kind \in {"register", "logout"}
       PROVE  /\ shell' \in [Tabs -> Tenants \cup {None}] /\ page' \in [Tabs -> Page]
              /\ todo' \in [Tabs -> ToDo]
              /\ \A v \in Tabs : (shell'[v] = None) <=> (page'[v] = Login)
              /\ PagesFit' /\ MoverRendersItsWorkspace' /\ MoverSeesItsWorkspace'
  <2>1. w \in Tabs
    BY <1>2 DEF w
  <2>2. mover' = w \/ (mover' = mover /\ jar' = jar)
    BY <1>1, <1>3, <1>12
  <2> QED BY <1>12, <2>1, <2>2, LoginShown
<1>13. CASE call[c].kind = "register"
  <2>1. AfterRegister(c, w)
    BY <1>13 DEF Arrive, w
  <2>2. CASE answer[c].ok
    BY <1>12, <1>13, <2>1, <2>2 DEF AfterRegister
  <2>3. CASE ~answer[c].ok
    BY <1>4, <1>7, <2>1, <2>3 DEF AfterRegister
  <2> QED BY <2>2, <2>3
<1>14. CASE call[c].kind = "logout"
  <2>1. ToLogin(w)
    BY <1>14 DEF Arrive, w
  <2> QED BY <1>12, <1>14, <2>1
<1> QED BY <1>6, <1>9, <1>10, <1>11, <1>13, <1>14

LEMMA ExpireKeeps == FInv /\ Expire => FInv'
<1> SUFFICES ASSUME FInv, Expire PROVE FInv'
  OBVIOUS
<1>1. /\ jar' = [jar EXCEPT !.tenant = None]
      /\ UNCHANGED <<token, members, account, shell, page, todo, at, call, answer, mover>>
  BY DEF Expire, api, screen
<1>2. jar' \in Jar /\ jar'.tenant = None /\ jar'.refresh = jar.refresh
  BY <1>1 DEF FInv, TypeOK, Jar
<1>3. TypeOK'
  BY <1>1, <1>2 DEF FInv, TypeOK
<1>4. CallsAreKept' /\ CookiesAreEarned'
  BY <1>1, CallsStay DEF FInv
<1> QED BY <1>1, <1>2, <1>3, <1>4, TabsStay DEF FInv

-----------------------------------------------------------------------------
(* Rendering.                                                              *)

LEMMA ToLoginKeeps ==
  ASSUME FInv, NEW w \in Tabs, ToLogin(w), UNCHANGED <<jar, api, at, call, answer, mover>>
  PROVE  FInv'
<1>1. UNCHANGED <<token, members, account>>
  BY DEF api
<1>2. /\ shell' \in [Tabs -> Tenants \cup {None}] /\ page' \in [Tabs -> Page]
      /\ todo' \in [Tabs -> ToDo]
      /\ \A v \in Tabs : (shell'[v] = None) <=> (page'[v] = Login)
      /\ shell'[w] = None /\ todo'[w].parts = {}
      /\ \A v \in Tabs : v # w => shell'[v] = shell[v] /\ todo'[v] = todo[v]
      /\ PagesFit' /\ MoverRendersItsWorkspace' /\ MoverSeesItsWorkspace'
  BY LoginShown
<1>3. TypeOK'
  BY <1>1, <1>2 DEF FInv, TypeOK
<1> QED BY <1>1, <1>2, <1>3, CallsStay DEF FInv

LEMMA ReadCookiesKeeps ==
  ASSUME FInv, NEW w \in Tabs, ReadCookies(w)
  PROVE  FInv'
<1>1. /\ Busy(w) /\ jar.tenant # None
      /\ todo' = [todo EXCEPT ![w].header = jar.tenant]
      /\ UNCHANGED <<jar, token, members, account, shell, page, at, call, answer, mover>>
  BY DEF ReadCookies, api
<1>2. todo \in [Tabs -> ToDo] /\ jar.tenant \in Tenants \cup {None}
  BY DEF FInv, TypeOK, Jar
<1>3. /\ todo' \in [Tabs -> ToDo]
      /\ todo'[w].header = jar.tenant /\ todo'[w].parts = todo[w].parts
      /\ \A v \in Tabs : v # w => todo'[v] = todo[v]
  BY <1>1, <1>2 DEF ToDo
<1>4. TypeOK'
  BY <1>1, <1>3 DEF FInv, TypeOK
<1>5. CallsAreKept' /\ CookiesAreEarned'
  BY <1>1, CallsStay DEF FInv
<1>6. PagesFit'
  BY <1>1, <1>3 DEF FInv, PagesFit, Busy
<1>7. MoverRendersItsWorkspace'
  BY <1>1, <1>3 DEF FInv, MoverRendersItsWorkspace, Busy
<1>8. MoverSeesItsWorkspace'
  BY <1>1, <1>3 DEF FInv, MoverSeesItsWorkspace, Busy
<1> QED BY <1>4, <1>5, <1>6, <1>7, <1>8 DEF FInv

LEMMA ShowKeeps ==
  ASSUME FInv, NEW w \in Tabs, Show(w)
  PROVE  FInv'
<1> DEFINE h == todo[w].header
<1>1. /\ h # None /\ AppLayout(w)
      /\ DashboardPage(w) \/ MembersPage(w) \/ BillingPage(w)
      /\ todo' = [todo EXCEPT ![w] = NothingToDo]
      /\ UNCHANGED <<jar, token, members, account, at, call, answer, mover>>
  BY DEF Show, api
<1>2. /\ shell \in [Tabs -> Tenants \cup {None}] /\ page \in [Tabs -> Page]
      /\ todo \in [Tabs -> ToDo] /\ members \in [Tenants -> SUBSET Users]
      /\ \A v \in Tabs : (shell[v] = None) <=> (page[v] = Login)
  BY DEF FInv, TypeOK
<1>3. /\ h \in Tenants /\ Busy(w)
      /\ shell[w] = None => "layout" \in todo[w].parts
      /\ page[w].of \in Calls => page[w].route = "billing"
  BY <1>1, <1>2 DEF FInv, PagesFit, ToDo
<1>4. /\ todo' \in [Tabs -> ToDo] /\ todo'[w] = NothingToDo
      /\ NothingToDo.header = None /\ NothingToDo.parts = {}
      /\ \A v \in Tabs : v # w => todo'[v] = todo[v]
  BY <1>1, <1>2, NoneToSee
<1>5. /\ shell' \in [Tabs -> Tenants \cup {None}]
      /\ shell'[w] # None
      /\ shell'[w] = IF "layout" \in todo[w].parts THEN h ELSE shell[w]
      /\ \A v \in Tabs : v # w => shell'[v] = shell[v]
  BY <1>1, <1>2, <1>3, Apart DEF AppLayout
<1>6. /\ page' \in [Tabs -> Page]
      /\ page'[w].route \in {"dashboard", "members", "billing"}
      /\ page'[w].of \in Calls => page'[w].route = "billing"
      /\ page'[w].route \in {"dashboard", "members"} => page'[w].of = h
      /\ \A v \in Tabs : v # w => page'[v] = page[v]
  <2> HIDE DEF h
  <2>1. CASE DashboardPage(w)
    <3>1. page' = [page EXCEPT ![w] = [route |-> "dashboard", of |-> h, users |-> {}]]
      BY <2>1 DEF DashboardPage, h
    <3> QED BY <1>2, <1>3, <3>1, Apart DEF Page
  <2>2. CASE MembersPage(w)
    <3>1. PICK users \in {members[h], {}} :
            page' = [page EXCEPT ![w] = [route |-> "members", of |-> h, users |-> users]]
      BY <2>2 DEF MembersPage, h
    <3> QED BY <1>2, <1>3, <3>1, Apart DEF Page
  <2>3. CASE BillingPage(w)
    <3>1. page' = IF page[w].route = "billing" THEN page
                  ELSE [page EXCEPT ![w] = [route |-> "billing", of |-> None, users |-> {}]]
      BY <2>3 DEF BillingPage
    <3> QED BY <1>2, <3>1 DEF Page
  <2> QED BY <1>1, <2>1, <2>2, <2>3
<1> HIDE DEF h
<1>7. page'[w] # Login
  BY <1>6, NoneToSee
<1>8. TypeOK'
  BY <1>1, <1>2, <1>4, <1>5, <1>6, <1>7 DEF FInv, TypeOK
<1>9. PagesFit'
  BY <1>4, <1>5, <1>6 DEF FInv, PagesFit, Busy
<1>10. MoverRendersItsWorkspace'
  BY <1>1, <1>4, <1>5 DEF FInv, MoverRendersItsWorkspace, Busy
<1>11. MoverSeesItsWorkspace'
  <2> SUFFICES ASSUME NEW v \in Tabs, mover = v, todo'[v].parts = {}, shell'[v] # None, jar.tenant # None
               PROVE  /\ shell'[v] = jar.tenant
                      /\ page'[v].route \in {"dashboard", "members"} => page'[v].of = jar.tenant
    BY <1>1 DEF MoverSeesItsWorkspace, Busy
  <2>1. CASE v = w
    <3>1. h = jar.tenant /\ ("layout" \in todo[w].parts \/ shell[w] = jar.tenant)
      BY <1>1, <1>3, <2>1 DEF FInv, MoverRendersItsWorkspace, h
    <3> QED BY <1>5, <1>6, <2>1, <3>1
  <2>2. CASE v # w
    BY <1>4, <1>5, <1>6, <2>2 DEF FInv, MoverSeesItsWorkspace, Busy
  <2> QED BY <2>1, <2>2
<1> QED BY <1>1, <1>8, <1>9, <1>10, <1>11, CallsStay DEF FInv

LEMMA RouterKeeps ==
  ASSUME FInv, NEW w \in Tabs, Router(w)
  PROVE  FInv'
BY ReadCookiesKeeps, ShowKeeps, ToLoginKeeps DEF Router, proxy, Redirect

-----------------------------------------------------------------------------

LEMMA InvariantAtFirst == Init => FInv
<1> SUFFICES ASSUME Init PROVE FInv
  OBVIOUS
<1>1. /\ \A w \in Tabs : shell[w] = None /\ page[w] = Login /\ todo[w] = NothingToDo
      /\ \A c \in Calls : at[c] = "idle" /\ call[c] = NoCall /\ answer[c] = Refusal
      /\ mover = None /\ account \in BOOLEAN
  BY DEF Init
<1>2. /\ jar \in Jar /\ token \in [valid : SUBSET Tokens, last : Tokens \cup {0}]
      /\ jar.refresh <= token.last /\ token.last <= 1
  <2>1. 1 \in Tokens
    BY Counted DEF Tokens
  <2>2. CASE jar = NoCookies /\ token = [valid |-> {}, last |-> 0]
    BY <2>2 DEF NoCookies, Jar
  <2>3. CASE /\ \E t \in Tenants : jar = [tenant |-> t, refresh |-> 1]
             /\ token = [valid |-> {1}, last |-> 1]
    BY <2>1, <2>3 DEF Jar
  <2> QED BY <2>2, <2>3 DEF Init
<1>3. TypeOK
  <2>1. members \in [Tenants -> SUBSET Users]
    BY DEF Init
  <2>2. /\ shell \in [Tabs -> Tenants \cup {None}] /\ page \in [Tabs -> Page] /\ todo \in [Tabs -> ToDo]
        /\ answer \in [Calls -> Answer] /\ call \in [Calls -> Call \cup {NoCall}]
        /\ at \in [Calls -> {"idle", "sent", "served", "done"}]
    BY NoneToSee DEF Init, Refusal
  <2> QED BY <1>1, <1>2, <2>1, <2>2 DEF TypeOK
<1>4. CallsAreKept
  <2>1. {c \in Calls : at[c] \in {"served", "done"}} = {}
    BY <1>1
  <2>2. Cardinality({}) = 0
    BY FS_EmptySet
  <2> QED BY <1>1, <1>2, <2>1, <2>2 DEF CallsAreKept, UnderWay
<1>5. CookiesAreEarned
  BY <1>1 DEF CookiesAreEarned
<1>6. PagesFit
  BY <1>1, NoneToSee, Apart DEF PagesFit, Busy
<1>7. MoverRendersItsWorkspace /\ MoverSeesItsWorkspace
  BY <1>1, Apart DEF MoverRendersItsWorkspace, MoverSeesItsWorkspace
<1> QED BY <1>3, <1>4, <1>5, <1>6, <1>7 DEF FInv

LEMMA InvariantKept == FInv /\ [Next]_vars => FInv'
<1> SUFFICES ASSUME FInv, [Next]_vars PROVE FInv'
  OBVIOUS
<1>1. ASSUME NEW w \in Tabs, User(w) PROVE FInv'
  BY <1>1, LinkKeeps, DropKeeps, UserCalls, BillingCalls DEF User
<1>2. CASE UNCHANGED vars
  <2>1. UNCHANGED <<jar, token, members, account, shell, page, todo, at, call, answer, mover>>
    BY <1>2 DEF vars, api, screen
  <2>2. TypeOK'
    BY <2>1 DEF FInv, TypeOK
  <2> QED BY <2>1, <2>2, CallsStay, TabsStay DEF FInv
<1> QED BY <1>1, <1>2, RouterKeeps, ServeKeeps, ArriveKeeps, LoseKeeps, ExpireKeeps DEF Next

\* Calls, cookies and what the tabs show or render fit together, whatever the order of
\* answers and clicks.
THEOREM Inductive == Spec => []FInv
BY InvariantAtFirst, InvariantKept, PTL DEF Spec

\* Every variable stays in its range; a tab has a workspace just when it does not show
\* the login page; and the token in the cookies is one that was issued.
THEOREM TypesHold == Spec => []TypeOK
<1>1. FInv => TypeOK
  BY DEF FInv
<1> QED BY <1>1, Inductive, PTL

\* The tab that moved the browser to a workspace, by a switch or by a login from outside,
\* shows it in its layout and on its page when it has rendered what it has to, with any
\* number of forms submitted and calls under way.
THEOREM MoverSees == Spec => []MoverSeesItsWorkspace
<1>1. FInv => MoverSeesItsWorkspace
  BY DEF FInv
<1> QED BY <1>1, Inductive, PTL

=============================================================================
