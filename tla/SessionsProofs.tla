--------------------------- MODULE SessionsProofs ---------------------------
(***************************************************************************)
(* Theorems about Sessions for every set of users, tenants, tokens and     *)
(* requests.                                                               *)
(***************************************************************************)
EXTENDS Sessions, TLAPS

LEMMA NoneApart ==
  /\ None \notin Users /\ None \notin Tenants /\ None \notin Roles /\ None \notin Tokens
  /\ NoSession \notin Session /\ NoClaims \notin Claims
<1>1. None \notin Users /\ None \notin Tenants /\ None \notin Roles /\ None \notin Tokens
  BY NoneAssumption
<1>2. NoClaims \notin Claims
  BY <1>1 DEF NoClaims, Claims
<1>3. NoSession \notin Session
  BY DEF NoSession, Session
<1> QED BY <1>1, <1>2, <1>3

\* What a message in flight consists of.
LEMMA OrderFields ==
  ASSUME NEW o \in Order
  PROVE  /\ o.kind \in {"login", "switch", "refresh", "logout", "get"}
         /\ o.kind = "login" => o.user \in Users
         /\ o.kind = "switch" => o.tenant \in Tenants
BY DEF Order

LEMMA MessageFields ==
  ASSUME TypeOK, NEW r \in Requests, pc[r] \notin {"idle", "done"}
  PROVE  /\ msg[r].order \in Order
         /\ msg[r].order.kind \in {"login", "switch", "refresh", "logout", "get"}
         /\ msg[r].order.kind = "login" => msg[r].order.user \in Users
         /\ msg[r].order.kind = "switch" => msg[r].order.tenant \in Tenants
         /\ msg[r].jar \in Jar
         /\ msg[r].jar.refresh # None => msg[r].jar.refresh \in Tokens
         /\ msg[r].jar.access # NoClaims => msg[r].jar.access \in Claims
<1>1. msg[r] \in Message
  BY DEF TypeOK
<1>2. msg[r].order \in Order /\ msg[r].jar \in Jar
  BY <1>1 DEF Message
<1> QED BY <1>2, OrderFields DEF Jar

LEMMA AnswerSet ==
  ASSUME NEW t \in Tokens, NEW c \in Claims
  PROVE  /\ Set(t, c) \in Answer
         /\ Set(t, c).cookies = "set"
         /\ Set(t, c).jar \in Jar
         /\ Set(t, c).jar.refresh = t
         /\ Set(t, c).jar.access = c
BY DEF Set, Answer, Jar

LEMMA AnswerOther ==
  /\ Keep \in Answer /\ Keep.cookies # "set"
  /\ Clear \in Answer /\ Clear.cookies # "set"
BY DEF Keep, Clear, Answer

\* An answer that sets cookies holds a jar.
LEMMA AnswerJar ==
  ASSUME NEW a \in Answer, a.cookies = "set"
  PROVE  a.jar \in Jar
BY DEF Answer, Keep, Clear, Set, Jar

LEMMA WorkSet ==
  ASSUME TypeOK, NEW r \in Requests, NEW a \in Answer, Respond(r, a)
  PROVE  /\ work' \in [Requests -> Work]
         /\ work'[r].answer = a
         /\ \A s \in Requests \ {r} : work'[s] = work[s]
<1>1. work' = [work EXCEPT ![r] = [work[r] EXCEPT !.answer = a]]
  BY DEF TypeOK, Respond
<1>2. [work[r] EXCEPT !.answer = a] \in Work
  BY DEF TypeOK, Work
<1>3. [work[r] EXCEPT !.answer = a].answer = a
  BY DEF TypeOK, Work
<1> QED BY <1>1, <1>2, <1>3 DEF TypeOK

\* An answer with cookies that agree, and nothing else.
LEMMA JustAnswer ==
  ASSUME SInv, NEW r \in Requests, pc[r] \notin {"idle", "done"}, NEW a \in Answer,
         Respond(r, a), a.cookies = "set" => Agree(issued, a.jar),
         UNCHANGED <<row, issued, jar, msg, memb, held, loggedOut>>
  PROVE  SInv'
<1>1. pc'[r] = "answered" /\ \A s \in Requests \ {r} : pc'[s] = pc[s] /\ work'[s] = work[s]
  BY WorkSet DEF SInv, TypeOK, Respond, GoTo
<1>2. TypeOK'
  BY <1>1, WorkSet DEF SInv, TypeOK, Respond, GoTo, Pc
<1>3. CookiesAgreeEverywhere'
  BY <1>1, WorkSet DEF SInv, CookiesAgreeEverywhere
<1>4. Staged'
  BY <1>1 DEF SInv, Staged, At
<1>5. RowsAreStored'
  BY DEF SInv, RowsAreStored
<1>6. SessionsAreNamed'
  BY <1>1 DEF SInv, SessionsAreNamed, Stored, Session
<1>7. LockIsExclusive'
  BY <1>1 DEF SInv, LockIsExclusive
<1>8. OneTokenPerSession'
  BY DEF SInv, OneTokenPerSession, LiveOf
<1> QED BY <1>2, <1>3, <1>4, <1>5, <1>6, <1>7, <1>8 DEF SInv

\* A token that is stored for the first time leaves what was stored before.
LEMMA Inserted ==
  ASSUME SInv, NEW t \in Tokens, New(t), NEW u \in Users, NEW n \in Tenants, NEW s \in Requests,
         Insert(t, u, n, s)
  PROVE  /\ issued' \in [Tokens -> Session \cup {NoSession}]
         /\ Stored(issued', t)
         /\ issued'[t].user = u /\ issued'[t].tenant = n /\ issued'[t].session = s
         /\ \A v \in Tokens \ {t} : issued'[v] = issued[v]
         /\ ~Stored(issued, t) /\ row[t] = "absent"
         /\ \A j : Agree(issued, j) => Agree(issued', j)
<1> DEFINE new == [user |-> u, tenant |-> n, session |-> s]
<1>1. new \in Session /\ new.user = u /\ new.tenant = n /\ new.session = s
  BY DEF Session
<1>2. issued' = [issued EXCEPT ![t] = new] /\ issued \in [Tokens -> Session \cup {NoSession}]
  BY DEF Insert, SInv, TypeOK
<1>3. issued'[t] = new /\ \A v \in Tokens \ {t} : issued'[v] = issued[v]
  BY <1>2
<1>4. ~Stored(issued, t)
  BY NoneApart DEF New, Stored
<1>5. row[t] = "absent"
  BY <1>4 DEF SInv, RowsAreStored
<1>6. \A v : Stored(issued, v) => Stored(issued', v) /\ issued'[v] = issued[v]
  BY <1>3, <1>4 DEF Stored
<1>7. \A j : Agree(issued, j) => Agree(issued', j)
  BY <1>6 DEF Agree
<1> HIDE DEF new
<1>8. issued' \in [Tokens -> Session \cup {NoSession}]
  BY <1>1, <1>2
<1>9. Stored(issued', t)
  BY <1>1, <1>3 DEF Stored
<1> QED BY <1>1, <1>3, <1>4, <1>5, <1>7, <1>8, <1>9

\* The exchange of a token by the transaction that holds its row.
LEMMA Exchanged ==
  ASSUME SInv, NEW r \in Requests, pc[r] = "holding", NEW t \in Tokens, Exchange(r, t),
         NEW to \in {"rotated", "answered"}, pc' = [pc EXCEPT ![r] = to], UNCHANGED msg
  PROVE  /\ row' \in [Tokens -> {"absent", "fresh", "expired"}]
         /\ issued' \in [Tokens -> Session \cup {NoSession}]
         /\ Stored(issued', t)
         /\ \A v : Stored(issued, v) => Stored(issued', v)
         /\ \A j : Agree(issued, j) => Agree(issued', j)
         /\ issued'[t].user = issued[msg[r].jar.refresh].user
         /\ issued'[t].tenant = IF msg[r].order.kind = "switch" THEN msg[r].order.tenant
                                ELSE issued[msg[r].jar.refresh].tenant
         /\ RowsAreStored' /\ SessionsAreNamed' /\ LockIsExclusive' /\ OneTokenPerSession'
<1> DEFINE old == msg[r].jar.refresh
           user == issued[old].user
           tenant == IF msg[r].order.kind = "switch" THEN msg[r].order.tenant ELSE issued[old].tenant
           session == issued[old].session
<1>1. old \in Tokens /\ row[old] # "absent" /\ Stored(issued, old)
  BY MessageFields DEF SInv, Staged, LockIsExclusive, RowsAreStored
<1>2. user \in Users /\ tenant \in Tenants /\ session \in Requests
  BY <1>1, MessageFields DEF SInv, Stored, Session
<1>3. New(t) /\ Insert(t, user, tenant, session)
      /\ row' = [row EXCEPT ![old] = "absent", ![t] = "fresh"]
  BY DEF Exchange
<1> HIDE DEF user, tenant, session, old
<1>4. /\ issued' \in [Tokens -> Session \cup {NoSession}]
      /\ Stored(issued', t)
      /\ issued'[t].user = user /\ issued'[t].tenant = tenant /\ issued'[t].session = session
      /\ \A v \in Tokens \ {t} : issued'[v] = issued[v]
      /\ ~Stored(issued, t) /\ row[t] = "absent"
      /\ \A j : Agree(issued, j) => Agree(issued', j)
  BY <1>2, <1>3, Inserted
<1>5. old # t
  BY <1>1, <1>4
<1>6. row \in [Tokens -> {"absent", "fresh", "expired"}]
  BY DEF SInv, TypeOK
<1>7. /\ row' \in [Tokens -> {"absent", "fresh", "expired"}]
      /\ row'[old] = "absent" /\ row'[t] = "fresh"
      /\ \A v \in Tokens \ {t, old} : row'[v] = row[v]
  BY <1>1, <1>3, <1>5, <1>6
<1>8. \A v : Stored(issued, v) => Stored(issued', v)
  BY <1>4 DEF Stored
<1>9. pc'[r] = to /\ \A s \in Requests \ {r} : pc'[s] = pc[s]
  BY DEF SInv, TypeOK
<1>10. RowsAreStored'
  BY <1>4, <1>7, <1>8 DEF SInv, RowsAreStored
<1>11. SessionsAreNamed'
  <2> SUFFICES ASSUME NEW v \in Tokens, Stored(issued', v)
               PROVE  pc'[issued'[v].session] \in {"answered", "done"}
    BY DEF SessionsAreNamed
  <2>1. PICK w \in Tokens : Stored(issued, w) /\ issued'[v].session = issued[w].session
    <3>1. CASE v = t
      BY <3>1, <1>1, <1>4 DEF session
    <3>2. CASE v # t
      BY <3>2, <1>4 DEF Stored
    <3> QED BY <3>1, <3>2
  <2>2. pc[issued[w].session] \in {"answered", "done"} /\ issued[w].session \in Requests
    BY <2>1 DEF SInv, SessionsAreNamed, Stored, Session
  <2> QED BY <2>1, <2>2, <1>9
<1>12. LockIsExclusive'
  <2> SUFFICES ASSUME NEW s \in Requests, pc'[s] = "holding"
               PROVE  /\ row'[msg[s].jar.refresh] # "absent"
                      /\ \A q \in Requests : pc'[q] = "holding" /\ msg[q].jar.refresh = msg[s].jar.refresh
                                             => q = s
    BY DEF LockIsExclusive
  <2>1. s # r /\ pc[s] = "holding"
    BY <1>9
  <2>2. msg[s].jar.refresh # old
    BY <2>1 DEF SInv, LockIsExclusive, old
  <2>3. msg[s].jar.refresh \in Tokens /\ row[msg[s].jar.refresh] # "absent"
    BY <2>1, MessageFields DEF SInv, Staged, LockIsExclusive
  <2>4. row'[msg[s].jar.refresh] # "absent"
    BY <2>2, <2>3, <1>4, <1>7
  <2> QED BY <2>1, <2>4, <1>9 DEF SInv, LockIsExclusive
<1>13. OneTokenPerSession'
  <2> SUFFICES ASSUME NEW s \in Requests, NEW v \in Tokens, NEW w \in Tokens,
                      row'[v] # "absent", issued'[v].session = s,
                      row'[w] # "absent", issued'[w].session = s
               PROVE  v = w
    BY DEF OneTokenPerSession, LiveOf
  <2>1. \A x \in Tokens \ {t} : row'[x] # "absent" =>
          row[x] # "absent" /\ issued[x].session = issued'[x].session /\ x # old
    BY <1>4, <1>7
  <2>2. \A x, y \in Tokens : /\ row[x] # "absent" /\ row[y] # "absent"
                              /\ issued[x].session = issued[y].session
                              /\ issued[x].session \in Requests
                              => x = y
    BY DEF SInv, OneTokenPerSession, LiveOf
  <2>3. \A x \in Tokens \ {t} : row'[x] # "absent" => issued'[x].session # session
    BY <2>1, <2>2, <1>1, <1>2 DEF session
  <2>4. CASE v = t \/ w = t
    BY <2>3, <2>4, <1>4
  <2>5. CASE v # t /\ w # t
    BY <2>1, <2>2, <2>5
  <2> QED BY <2>4, <2>5
<1> QED BY <1>4, <1>7, <1>8, <1>10, <1>11, <1>12, <1>13 DEF old, user, tenant

-----------------------------------------------------------------------------
(* The steps, one lemma for each kind.                                     *)

LEMMA InitStep == Init => SInv
<1> SUFFICES ASSUME Init PROVE SInv
  OBVIOUS
<1>1. \A r \in Requests : pc[r] = "idle"
  BY DEF Init
<1>2. \A t \in Tokens : row[t] = "absent" /\ ~Stored(issued, t)
  BY NoneApart DEF Init, Stored
<1>3. jar = EmptyJar /\ EmptyJar \in Jar
  BY DEF Init, EmptyJar, Jar
<1>4. Fresh \in Work
  BY AnswerOther DEF Fresh, Work
<1>5. TypeOK
  BY <1>1, <1>3, <1>4 DEF Init, TypeOK, Pc, Memberships
<1>6. Agree(issued, jar)
  BY <1>3 DEF Agree, EmptyJar
<1> QED BY <1>1, <1>2, <1>5, <1>6 DEF SInv, CookiesAgreeEverywhere, Staged, At, RowsAreStored,
           SessionsAreNamed, LockIsExclusive, OneTokenPerSession, LiveOf

LEMMA MembershipStep ==
  ASSUME SInv, NEW u \in Users, NEW n \in Tenants, NEW role \in Roles \cup {None},
         ChangeMembership(u, n, role)
  PROVE  SInv'
<1>1. TypeOK'
  BY DEF SInv, TypeOK, ChangeMembership, Memberships
<1> QED BY <1>1 DEF ChangeMembership, SInv, CookiesAgreeEverywhere, Staged, At, RowsAreStored,
           SessionsAreNamed, LockIsExclusive, OneTokenPerSession, LiveOf

\* Rows go, or age, where no transaction holds them.
LEMMA RowStep ==
  ASSUME SInv, UNCHANGED <<memb, issued, jar, pc, msg, work, held>>, loggedOut' \subseteq Requests,
         row' \in [Tokens -> {"absent", "fresh", "expired"}],
         \A t \in Tokens : row[t] = "absent" => row'[t] = "absent",
         \A t \in Tokens : Locked(t) /\ row'[t] = "absent" => row[t] = "absent"
  PROVE  SInv'
<1>1. TypeOK'
  BY DEF SInv, TypeOK
<1>2. LockIsExclusive'
  BY MessageFields DEF SInv, LockIsExclusive, Locked, Staged
<1>3. OneTokenPerSession'
  BY DEF SInv, OneTokenPerSession, LiveOf
<1> QED BY <1>1, <1>2, <1>3 DEF SInv, CookiesAgreeEverywhere, Staged, At, RowsAreStored,
           SessionsAreNamed

LEMMA ExpireTokenStep ==
  ASSUME SInv, NEW t \in Tokens, ExpireToken(t)
  PROVE  SInv'
<1>1. row \in [Tokens -> {"absent", "fresh", "expired"}] /\ loggedOut \subseteq Requests
  BY DEF SInv, TypeOK
<1> QED BY <1>1, RowStep DEF ExpireToken

LEMMA PruneStep ==
  ASSUME SInv, Prune
  PROVE  SInv'
<1>1. row \in [Tokens -> {"absent", "fresh", "expired"}] /\ loggedOut \subseteq Requests
  BY DEF SInv, TypeOK
<1> QED BY <1>1, RowStep DEF Prune

LEMMA ExpireAccessStep ==
  ASSUME SInv, ExpireAccess
  PROVE  SInv'
<1>1. jar' \in Jar /\ jar'.refresh = jar.refresh /\ jar'.access = NoClaims
  BY DEF SInv, TypeOK, ExpireAccess, Jar
<1>2. TypeOK'
  BY <1>1 DEF SInv, TypeOK, ExpireAccess, database
<1>3. Agree(issued, jar')
  BY <1>1 DEF SInv, CookiesAgreeEverywhere, Agree
<1> QED BY <1>2, <1>3 DEF ExpireAccess, database, SInv, CookiesAgreeEverywhere, Staged, At,
           RowsAreStored, SessionsAreNamed, LockIsExclusive, OneTokenPerSession, LiveOf

LEMMA SendStep ==
  ASSUME SInv, NEW r \in Requests, NEW o \in Order, Send(r, o)
  PROVE  SInv'
<1> DEFINE m == [order |-> o, jar |-> jar]
<1>1. m \in Message /\ m.jar = jar
  BY DEF SInv, TypeOK, Message
<1>2. /\ pc[r] = "idle" /\ pc'[r] = "sent" /\ msg'[r] = m
      /\ \A s \in Requests \ {r} : pc'[s] = pc[s] /\ msg'[s] = msg[s]
      /\ UNCHANGED <<memb, row, issued, held, jar, work, loggedOut>>
  BY DEF Send, SInv, TypeOK, database
<1> HIDE DEF m
<1>3. TypeOK'
  BY <1>1, <1>2 DEF SInv, TypeOK, Send, Pc, m
<1>4. CookiesAgreeEverywhere'
  BY <1>1, <1>2 DEF SInv, CookiesAgreeEverywhere
<1>5. Staged'
  BY <1>2 DEF SInv, Staged, At
<1>6. SessionsAreNamed'
  BY <1>2 DEF SInv, SessionsAreNamed, Stored, Session
<1>7. LockIsExclusive'
  BY <1>2 DEF SInv, LockIsExclusive
<1> QED BY <1>2, <1>3, <1>4, <1>5, <1>6, <1>7
        DEF SInv, RowsAreStored, OneTokenPerSession, LiveOf

\* The end of a request, with the jar as it is, emptied, or as answered.
LEMMA ForgetStep ==
  ASSUME SInv, NEW r \in Requests, Deliver(r) \/ Lose(r)
  PROVE  SInv'
<1>1. Fresh \in Work
  BY AnswerOther DEF Fresh, Work
<1>2. /\ pc[r] = "answered" /\ pc'[r] = "done"
      /\ \A s \in Requests \ {r} : pc'[s] = pc[s] /\ msg'[s] = msg[s] /\ work'[s] = work[s]
      /\ UNCHANGED <<memb, row, issued, held, loggedOut>>
  BY DEF Deliver, Lose, Forget, SInv, TypeOK, database
<1>3. work[r].answer \in Answer
  BY DEF SInv, TypeOK, Work
<1>4. jar' \in Jar /\ Agree(issued, jar')
  <2>1. jar \in Jar /\ Agree(issued, jar)
    BY DEF SInv, TypeOK, CookiesAgreeEverywhere
  <2>2. EmptyJar \in Jar /\ Agree(issued, EmptyJar)
    BY DEF EmptyJar, Jar, Agree
  <2>3. work[r].answer.cookies = "set" =>
          work[r].answer.jar \in Jar /\ Agree(issued, work[r].answer.jar)
    BY <1>2, <1>3, AnswerJar DEF SInv, CookiesAgreeEverywhere
  <2>4. work[r].answer.cookies \in {"keep", "clear", "set"}
    BY <1>3 DEF Answer, Keep, Clear, Set
  <2> QED BY <2>1, <2>2, <2>3, <2>4 DEF Deliver, Lose
<1>5. TypeOK'
  BY <1>1, <1>2, <1>4 DEF SInv, TypeOK, Deliver, Lose, Forget, Pc
<1>6. CookiesAgreeEverywhere'
  BY <1>2, <1>4 DEF SInv, CookiesAgreeEverywhere
<1>7. Staged'
  BY <1>2 DEF SInv, Staged, At
<1>8. SessionsAreNamed'
  BY <1>2 DEF SInv, SessionsAreNamed, Stored, Session
<1>9. LockIsExclusive'
  BY <1>2 DEF SInv, LockIsExclusive
<1> QED BY <1>2, <1>5, <1>6, <1>7, <1>8, <1>9
        DEF SInv, RowsAreStored, OneTokenPerSession, LiveOf

\* A request goes on with a membership it has read.
LEMMA CheckedStep ==
  ASSUME SInv, NEW r \in Requests, pc[r] = "sent", GoTo(r, "checked"),
         NEW w \in Work, work' = [work EXCEPT ![r] = w],
         UNCHANGED <<database, jar, msg, loggedOut>>,
         msg[r].order.kind \in {"login", "switch"},
         w.role \in Roles,
         msg[r].order.kind = "login" => w.tenant \in Tenants,
         msg[r].order.kind = "switch" => msg[r].jar.access # NoClaims /\ msg[r].jar.refresh # None
  PROVE  SInv'
<1>1. /\ pc'[r] = "checked" /\ work'[r] = w
      /\ \A s \in Requests \ {r} : pc'[s] = pc[s] /\ work'[s] = work[s]
      /\ UNCHANGED <<memb, row, issued, held, jar, msg, loggedOut>>
  BY DEF GoTo, SInv, TypeOK, database
<1>2. TypeOK'
  BY <1>1 DEF SInv, TypeOK, GoTo, Pc
<1>3. CookiesAgreeEverywhere'
  BY <1>1 DEF SInv, CookiesAgreeEverywhere
<1>4. Staged'
  BY <1>1 DEF SInv, Staged, At
<1>5. SessionsAreNamed'
  BY <1>1 DEF SInv, SessionsAreNamed, Stored, Session
<1>6. LockIsExclusive'
  BY <1>1 DEF SInv, LockIsExclusive
<1> QED BY <1>1, <1>2, <1>3, <1>4, <1>5, <1>6
        DEF SInv, RowsAreStored, OneTokenPerSession, LiveOf

LEMMA MembershipRead ==
  ASSUME SInv, NEW u \in Users, NEW n \in Tenants
  PROVE  memb[<<u, n>>] \in Roles \cup {None}
BY DEF SInv, TypeOK

LEMMA FindTenantStep ==
  ASSUME SInv, NEW r \in Requests, FindTenant(r)
  PROVE  SInv'
<1>1. pc[r] = "sent" /\ msg[r].order.kind = "login" /\ msg[r].order.user \in Users
  BY MessageFields DEF FindTenant, At, SInv
<1>2. PICK n \in Tenants : /\ memb[<<msg[r].order.user, n>>] # None
        /\ work' = [work EXCEPT ![r].tenant = n, ![r].role = memb[<<msg[r].order.user, n>>]]
  BY DEF FindTenant
<1> DEFINE role == memb[<<msg[r].order.user, n>>]
           w == [work[r] EXCEPT !.tenant = n, !.role = role]
<1>3. role \in Roles
  BY <1>1, <1>2, MembershipRead
<1> HIDE DEF role
<1>4. w \in Work /\ w.tenant = n /\ w.role = role
  BY <1>3 DEF SInv, TypeOK, Work
<1>5. work' = [work EXCEPT ![r] = w]
  BY <1>2 DEF SInv, TypeOK, role
<1> HIDE DEF w
<1> QED BY <1>1, <1>3, <1>4, <1>5, CheckedStep DEF FindTenant

LEMMA CheckMemberStep ==
  ASSUME SInv, NEW r \in Requests, CheckMember(r)
  PROVE  SInv'
<1> DEFINE role == memb[<<msg[r].jar.access.user, msg[r].order.tenant>>]
           w == [work[r] EXCEPT !.role = role]
<1>1. /\ pc[r] = "sent" /\ msg[r].order.kind = "switch"
      /\ msg[r].jar.access # NoClaims /\ msg[r].jar.refresh # None
      /\ UNCHANGED <<database, jar, msg, loggedOut>>
  BY DEF CheckMember, At
<1>2. CASE role = None
  BY <1>1, <1>2, AnswerOther, JustAnswer DEF CheckMember, database
<1>3. CASE role # None
  <2>1. msg[r].jar.access.user \in Users /\ msg[r].order.tenant \in Tenants
    BY <1>1, MessageFields DEF SInv, Claims
  <2>2. role \in Roles
    BY <1>3, <2>1, MembershipRead
  <2>3. work' = [work EXCEPT ![r].role = role] /\ GoTo(r, "checked")
    BY <1>3 DEF CheckMember
  <2> HIDE DEF role
  <2>4. w \in Work /\ w.role = role
    BY <2>2 DEF SInv, TypeOK, Work
  <2>5. work' = [work EXCEPT ![r] = w]
    BY <2>3 DEF SInv, TypeOK
  <2> HIDE DEF w
  <2> QED BY <1>1, <2>2, <2>3, <2>4, <2>5, CheckedStep
<1> QED BY <1>2, <1>3

LEMMA StoreStep ==
  ASSUME SInv, NEW r \in Requests, Store(r)
  PROVE  SInv'
<1> DEFINE u == msg[r].order.user
           n == work[r].tenant
<1>1. PICK t \in Tokens, ok \in {TRUE, FALSE} :
        /\ New(t) /\ Insert(t, u, n, r) /\ row' = [row EXCEPT ![t] = "fresh"]
        /\ Respond(r, IF ok THEN Set(t, [user |-> u, tenant |-> n, role |-> work[r].role]) ELSE Keep)
  BY DEF Store
<1> DEFINE c == [user |-> u, tenant |-> n, role |-> work[r].role]
           a == IF ok THEN Set(t, c) ELSE Keep
<1>2. /\ pc[r] = "checked" /\ u \in Users /\ n \in Tenants /\ work[r].role \in Roles
      /\ UNCHANGED <<memb, held, jar, msg, loggedOut>>
  BY MessageFields DEF Store, At, SInv, Staged
<1>3. c \in Claims /\ c.user = u /\ c.tenant = n
  BY <1>2 DEF Claims
<1> HIDE DEF c, u, n
<1>4. a \in Answer /\ Respond(r, a)
  BY <1>1, <1>3, AnswerSet, AnswerOther DEF c
<1>5. /\ issued' \in [Tokens -> Session \cup {NoSession}]
      /\ Stored(issued', t)
      /\ issued'[t].user = u /\ issued'[t].tenant = n /\ issued'[t].session = r
      /\ \A v \in Tokens \ {t} : issued'[v] = issued[v]
      /\ ~Stored(issued, t) /\ row[t] = "absent"
      /\ \A j : Agree(issued, j) => Agree(issued', j)
  BY <1>1, <1>2, Inserted
<1>6. a.cookies = "set" => Agree(issued', a.jar)
  BY <1>3, <1>5, AnswerSet, AnswerOther DEF Agree
<1> HIDE DEF a
<1>7. /\ pc'[r] = "answered" /\ work'[r].answer = a
      /\ \A s \in Requests \ {r} : pc'[s] = pc[s] /\ work'[s] = work[s]
      /\ work' \in [Requests -> Work]
  BY <1>4, WorkSet DEF SInv, TypeOK, Respond, GoTo
<1>8. /\ row' \in [Tokens -> {"absent", "fresh", "expired"}]
      /\ row'[t] = "fresh" /\ \A v \in Tokens \ {t} : row'[v] = row[v]
  BY <1>1 DEF SInv, TypeOK
<1>9. TypeOK'
  BY <1>2, <1>4, <1>5, <1>7, <1>8 DEF SInv, TypeOK, Respond, GoTo, Pc
<1>10. CookiesAgreeEverywhere'
  BY <1>2, <1>5, <1>6, <1>7 DEF SInv, CookiesAgreeEverywhere
<1>11. Staged'
  BY <1>2, <1>5, <1>7 DEF SInv, Staged, At, Stored
<1>12. RowsAreStored'
  BY <1>5, <1>8 DEF SInv, RowsAreStored, Stored
<1>13. SessionsAreNamed'
  BY <1>5, <1>7 DEF SInv, SessionsAreNamed, Stored, Session
<1>14. LockIsExclusive'
  <2>1. \A s \in Requests : pc[s] = "holding" => msg[s].jar.refresh \in Tokens
    BY MessageFields DEF SInv, Staged
  <2> QED BY <1>2, <1>5, <1>7, <1>8, <2>1 DEF SInv, LockIsExclusive
<1>15. OneTokenPerSession'
  <2>1. \A v \in Tokens \ {t} : row'[v] # "absent" => issued'[v].session # r
    BY <1>2, <1>5, <1>8 DEF SInv, RowsAreStored, SessionsAreNamed
  <2> QED BY <1>5, <1>8, <2>1 DEF SInv, OneTokenPerSession, LiveOf
<1> QED BY <1>9, <1>10, <1>11, <1>12, <1>13, <1>14, <1>15 DEF SInv

LEMMA ConsumeStep ==
  ASSUME SInv, NEW r \in Requests, Consume(r)
  PROVE  SInv'
<1> DEFINE t == msg[r].jar.refresh
<1>1. /\ pc[r] \in {"sent", "checked"} /\ msg[r].order.kind \in {"refresh", "switch"} /\ t # None
      /\ msg[r].order.kind = "switch" => pc[r] = "checked"
      /\ ~Locked(t) /\ UNCHANGED <<memb, row, issued, held, jar, msg, loggedOut>>
  BY DEF Consume, AtExchange, At, database, SInv, Staged
<1>2. CASE row[t] # "fresh"
  BY <1>1, <1>2, AnswerOther, JustAnswer DEF Consume
<1>3. CASE row[t] = "fresh"
  <2>1. /\ pc'[r] = "holding" /\ pc' \in [Requests -> Pc]
        /\ \A s \in Requests \ {r} : pc'[s] = pc[s]
        /\ UNCHANGED work
    BY <1>3 DEF Consume, GoTo, SInv, TypeOK, Pc
  <2>2. TypeOK'
    BY <1>1, <2>1 DEF SInv, TypeOK
  <2>3. CookiesAgreeEverywhere'
    BY <1>1, <2>1 DEF SInv, CookiesAgreeEverywhere
  <2>4. Staged'
    BY <1>1, <2>1 DEF SInv, Staged, At
  <2>5. SessionsAreNamed'
    BY <1>1, <2>1 DEF SInv, SessionsAreNamed, Stored, Session
  <2>6. LockIsExclusive'
    BY <1>1, <1>3, <2>1 DEF SInv, LockIsExclusive, Locked
  <2> QED BY <1>1, <2>2, <2>3, <2>4, <2>5, <2>6
          DEF SInv, RowsAreStored, OneTokenPerSession, LiveOf
<1> QED BY <1>2, <1>3

\* An exchange that answers at once, or goes on to read the role.
LEMMA ExchangeStep ==
  ASSUME SInv, NEW r \in Requests, pc[r] = "holding", NEW t \in Tokens, Exchange(r, t),
         UNCHANGED <<memb, held, jar, msg, loggedOut>>,
         work' \in [Requests -> Work], \A s \in Requests \ {r} : work'[s] = work[s],
         \/ GoTo(r, "rotated") /\ work'[r].token = t
         \/ /\ GoTo(r, "answered")
            /\ work'[r].answer.cookies = "set" => Agree(issued', work'[r].answer.jar)
  PROVE  SInv'
<1>1. PICK to \in {"rotated", "answered"} : pc' = [pc EXCEPT ![r] = to]
  BY DEF GoTo
<1>2. pc'[r] = to /\ \A s \in Requests \ {r} : pc'[s] = pc[s]
  BY <1>1 DEF SInv, TypeOK
<1>3. /\ row' \in [Tokens -> {"absent", "fresh", "expired"}]
      /\ issued' \in [Tokens -> Session \cup {NoSession}]
      /\ Stored(issued', t)
      /\ \A v : Stored(issued, v) => Stored(issued', v)
      /\ \A j : Agree(issued, j) => Agree(issued', j)
      /\ RowsAreStored' /\ SessionsAreNamed' /\ LockIsExclusive' /\ OneTokenPerSession'
  BY <1>1, Exchanged
<1>4. TypeOK'
  BY <1>1, <1>2, <1>3 DEF SInv, TypeOK, Pc
<1>5. CookiesAgreeEverywhere'
  BY <1>2, <1>3 DEF GoTo, SInv, TypeOK, CookiesAgreeEverywhere
<1>6. Staged'
  BY <1>2, <1>3 DEF GoTo, SInv, TypeOK, Staged, At
<1> QED BY <1>3, <1>4, <1>5, <1>6 DEF SInv

LEMMA CommitRotateStep ==
  ASSUME SInv, NEW r \in Requests, CommitRotate(r)
  PROVE  SInv'
<1>1. PICK t \in Tokens : Exchange(r, t) /\ work' = [work EXCEPT ![r].token = t]
  BY DEF CommitRotate
<1> DEFINE w == [work[r] EXCEPT !.token = t]
<1>2. w \in Work /\ w.token = t
  BY DEF SInv, TypeOK, Work
<1>3. work' = [work EXCEPT ![r] = w]
  BY <1>1 DEF SInv, TypeOK
<1> HIDE DEF w
<1>4. /\ work' \in [Requests -> Work] /\ work'[r].token = t
      /\ \A s \in Requests \ {r} : work'[s] = work[s]
  BY <1>2, <1>3 DEF SInv, TypeOK
<1> QED BY <1>1, <1>4, ExchangeStep DEF CommitRotate, At

LEMMA CommitSwitchStep ==
  ASSUME SInv, NEW r \in Requests, CommitSwitch(r)
  PROVE  SInv'
<1> DEFINE j == msg[r].jar
           c == [user |-> j.access.user, tenant |-> msg[r].order.tenant, role |-> work[r].role]
<1>1. PICK t \in Tokens : Exchange(r, t) /\ Respond(r, Set(t, c))
  BY DEF CommitSwitch
<1>2. /\ pc[r] = "holding" /\ msg[r].order.kind = "switch"
      /\ UNCHANGED <<memb, held, jar, msg, loggedOut>>
      /\ j.access # NoClaims /\ j.refresh # None /\ work[r].role \in Roles
  BY DEF CommitSwitch, At, SInv, Staged
<1>3. j.access \in Claims /\ msg[r].order.tenant \in Tenants
  BY <1>2, MessageFields DEF SInv
<1>4. c \in Claims /\ c.user = j.access.user /\ c.tenant = msg[r].order.tenant
  BY <1>2, <1>3 DEF Claims
<1>5. issued[j.refresh].user = j.access.user
  BY <1>2 DEF SInv, CookiesAgreeEverywhere, Agree
<1> HIDE DEF c
<1>6. /\ Stored(issued', t) /\ issued'[t].user = c.user /\ issued'[t].tenant = c.tenant
  BY <1>1, <1>2, <1>4, <1>5, Exchanged DEF Respond, GoTo
<1>7. Agree(issued', Set(t, c).jar)
  BY <1>4, <1>6, AnswerSet DEF Agree
<1>8. /\ work' \in [Requests -> Work] /\ work'[r].answer = Set(t, c)
      /\ \A s \in Requests \ {r} : work'[s] = work[s]
  BY <1>1, <1>4, AnswerSet, WorkSet DEF SInv
<1> QED BY <1>1, <1>2, <1>7, <1>8, ExchangeStep DEF Respond

LEMMA ExchangeFailsStep ==
  ASSUME SInv, NEW r \in Requests, ExchangeFails(r)
  PROVE  SInv'
<1>1. pc[r] = "holding" /\ Respond(r, Clear) /\ UNCHANGED <<memb, held, jar, msg, loggedOut>>
  BY DEF ExchangeFails
<1>2. CASE \E t \in Tokens : Exchange(r, t)
  BY <1>1, <1>2, AnswerOther, WorkSet, ExchangeStep DEF SInv, Respond
<1>3. CASE UNCHANGED <<issued, row>>
  BY <1>1, <1>3, AnswerOther, JustAnswer
<1> QED BY <1>2, <1>3 DEF ExchangeFails

LEMMA SignForRoleStep ==
  ASSUME SInv, NEW r \in Requests, SignForRole(r)
  PROVE  SInv'
<1> DEFINE t == work[r].token
           user == issued[t].user
           tenant == issued[t].tenant
           role == memb[<<user, tenant>>]
           c == [user |-> user, tenant |-> tenant, role |-> role]
           a == IF role = None THEN Keep ELSE Set(t, c)
<1>1. pc[r] = "rotated" /\ Respond(r, a) /\ UNCHANGED <<memb, row, issued, held, jar, msg, loggedOut>>
  BY DEF SignForRole, At, database
<1>2. Stored(issued, t) /\ t \in Tokens /\ t # None /\ user \in Users /\ tenant \in Tenants
  BY <1>1, NoneApart DEF SInv, Staged, Stored, Session
<1>3. role # None => c \in Claims /\ c.user = user /\ c.tenant = tenant
  BY <1>2, MembershipRead DEF Claims
<1> HIDE DEF c, role
<1>4. a \in Answer /\ (a.cookies = "set" => Agree(issued, a.jar))
  BY <1>2, <1>3, AnswerSet, AnswerOther DEF Agree
<1> HIDE DEF a
<1> QED BY <1>1, <1>4, JustAnswer

LEMMA RevokeStep ==
  ASSUME SInv, NEW r \in Requests, Revoke(r)
  PROVE  SInv'
<1> DEFINE t == msg[r].jar.refresh
<1>1. /\ pc[r] = "sent" /\ Respond(r, Clear) /\ UNCHANGED <<memb, issued, held, jar, msg>>
  BY DEF Revoke, At
<1>2. CASE t = None
  BY <1>1, <1>2, AnswerOther, JustAnswer DEF Revoke
<1>3. CASE t # None
  <2>1. t \in Tokens /\ Stored(issued, t)
    BY <1>1, <1>3, MessageFields DEF SInv, CookiesAgreeEverywhere, Agree
  <2>2. ~Locked(t) /\ row' = [row EXCEPT ![t] = "absent"]
        /\ loggedOut' = loggedOut \cup {issued[t].session}
    BY <1>3 DEF Revoke
  <2>3. issued[t].session \in Requests
    BY <2>1 DEF Stored, Session
  <2>4. /\ row' \in [Tokens -> {"absent", "fresh", "expired"}]
        /\ row'[t] = "absent" /\ \A v \in Tokens \ {t} : row'[v] = row[v]
    BY <2>1, <2>2 DEF SInv, TypeOK
  <2>5. /\ pc'[r] = "answered" /\ work'[r].answer = Clear
        /\ \A s \in Requests \ {r} : pc'[s] = pc[s] /\ work'[s] = work[s]
        /\ work' \in [Requests -> Work]
    BY <1>1, AnswerOther, WorkSet DEF SInv, TypeOK, Respond, GoTo
  <2>6. TypeOK'
    BY <1>1, <2>2, <2>3, <2>4, <2>5 DEF SInv, TypeOK, Respond, GoTo, Pc
  <2>7. CookiesAgreeEverywhere'
    BY <1>1, <2>5, AnswerOther DEF SInv, CookiesAgreeEverywhere
  <2>8. Staged'
    BY <1>1, <2>5 DEF SInv, Staged, At
  <2>9. RowsAreStored'
    BY <1>1, <2>4 DEF SInv, RowsAreStored
  <2>10. SessionsAreNamed'
    BY <1>1, <2>5 DEF SInv, SessionsAreNamed, Stored, Session
  <2>11. LockIsExclusive'
    <3>1. \A s \in Requests : pc[s] = "holding" => msg[s].jar.refresh \in Tokens \ {t}
      BY <2>2, MessageFields DEF SInv, Staged, Locked
    <3> QED BY <1>1, <2>4, <2>5, <3>1 DEF SInv, LockIsExclusive
  <2>12. OneTokenPerSession'
    BY <1>1, <2>4 DEF SInv, OneTokenPerSession, LiveOf
  <2> QED BY <2>6, <2>7, <2>8, <2>9, <2>10, <2>11, <2>12 DEF SInv
<1> QED BY <1>2, <1>3

\* The answers that leave everything else alone.
LEMMA PlainStep ==
  ASSUME SInv, NEW r \in Requests,
         AuthRequired(r) \/ Get(r) \/ BadRequest(r) \/ NoTenant(r) \/ NoCookie(r) \/ StatementFails(r)
  PROVE  SInv'
<1>1. /\ pc[r] \notin {"idle", "done"} /\ UNCHANGED <<row, issued, jar, msg, memb, held, loggedOut>>
      /\ Respond(r, Keep) \/ Respond(r, Clear)
  BY DEF AuthRequired, Get, BadRequest, NoTenant, NoCookie, StatementFails, At, AtExchange, database
<1> QED BY <1>1, AnswerOther, JustAnswer

LEMMA SInvStep == SInv /\ [Next]_vars => SInv'
<1> SUFFICES ASSUME SInv, [Next]_vars PROVE SInv'
  OBVIOUS
<1>1. CASE Environment
  BY <1>1, MembershipStep, ExpireTokenStep, ExpireAccessStep, PruneStep DEF Environment
<1>2. CASE \E r \in Requests, o \in Order : Send(r, o)
  BY <1>2, SendStep
<1>3. ASSUME NEW r \in Requests, Step(r) PROVE SInv'
  BY <1>3, PlainStep, FindTenantStep, StoreStep, CheckMemberStep, ConsumeStep, CommitRotateStep,
     CommitSwitchStep, SignForRoleStep, RevokeStep, ForgetStep DEF Step
<1>4. ASSUME NEW r \in Requests, Fault(r) PROVE SInv'
  BY <1>4, PlainStep, ExchangeFailsStep, ForgetStep DEF Fault
<1>5. CASE UNCHANGED vars
  BY <1>5 DEF vars, SInv, TypeOK, CookiesAgreeEverywhere, Staged, At, RowsAreStored,
     SessionsAreNamed, LockIsExclusive, OneTokenPerSession, LiveOf, Memberships
<1> QED BY <1>1, <1>2, <1>3, <1>4, <1>5 DEF Next

THEOREM Inductive == Spec => []SInv
BY InitStep, SInvStep, PTL DEF Spec

\* A handler goes on from a lookup only with what it found, and no cookie names a
\* token or tenant that there is not.
THEOREM TypesHold == Spec => []TypeOK
<1>1. SInv => TypeOK
  BY DEF SInv
<1> QED BY <1>1, Inductive, PTL

\* However many tabs exchange a session's token at once, and whatever fails, the
\* table holds one token of the session at most.
THEOREM OneToken == Spec => []OneTokenPerSession
<1>1. SInv => OneTokenPerSession
  BY DEF SInv
<1> QED BY <1>1, Inductive, PTL

\* The browser never holds an access token of one user or tenant beside a refresh
\* token of another.
THEOREM CookiesStayTogether == Spec => []CookiesAgree
<1>1. SInv => CookiesAgree
  BY DEF SInv, CookiesAgreeEverywhere, CookiesAgree, Agree
<1> QED BY <1>1, Inductive, PTL
-----------------------------------------------------------------------------
(* Sessions that have ended.                                               *)

\* No row of session s comes from a step that leaves the stored tokens alone.
LEMMA NothingStored ==
  ASSUME UNCHANGED issued, \A t \in Tokens : row[t] = "absent" => row'[t] = "absent",
         NEW s \in Requests, LiveOf(s) = {}
  PROVE  LiveOf(s)' = {}
BY DEF LiveOf

LEMMA DeadStaysDead ==
  ASSUME SInv, Next, NEW s \in Requests, \E t \in Tokens : issued[t].session = s, LiveOf(s) = {}
  PROVE  LiveOf(s)' = {}
<1>1. pc[s] \in {"answered", "done"}
  <2>1. PICK t \in Tokens : issued[t].session = s
    OBVIOUS
  <2>2. issued[t] # NoSession
    BY <2>1, NoneAssumption DEF NoSession
  <2>3. Stored(issued, t)
    BY <2>2 DEF SInv, TypeOK, Stored
  <2> QED BY <2>1, <2>3 DEF SInv, SessionsAreNamed
<1>2. ASSUME NEW r \in Requests, Store(r) PROVE LiveOf(s)' = {}
  <2>1. pc[r] = "checked" /\ msg[r].order.user \in Users /\ work[r].tenant \in Tenants
    BY <1>2, MessageFields DEF Store, At, SInv, Staged
  <2>2. PICK t \in Tokens : /\ New(t) /\ Insert(t, msg[r].order.user, work[r].tenant, r)
                            /\ row' = [row EXCEPT ![t] = "fresh"]
    BY <1>2 DEF Store
  <2>3. issued'[t].session = r /\ \A v \in Tokens \ {t} : issued'[v] = issued[v] /\ row'[v] = row[v]
    BY <2>1, <2>2, Inserted DEF SInv, TypeOK
  <2> QED BY <1>1, <2>1, <2>3 DEF LiveOf
<1>3. ASSUME NEW r \in Requests, NEW t \in Tokens, pc[r] = "holding", Exchange(r, t)
      PROVE  LiveOf(s)' = {}
  <2> DEFINE old == msg[r].jar.refresh
             tenant == IF msg[r].order.kind = "switch" THEN msg[r].order.tenant ELSE issued[old].tenant
  <2>1. old \in Tokens /\ row[old] # "absent" /\ Stored(issued, old)
    BY <1>3, MessageFields DEF SInv, Staged, LockIsExclusive, RowsAreStored
  <2>2. issued[old].user \in Users /\ tenant \in Tenants /\ issued[old].session \in Requests
    BY <1>3, <2>1, MessageFields DEF SInv, Stored, Session
  <2>3. New(t) /\ Insert(t, issued[old].user, tenant, issued[old].session)
        /\ row' = [row EXCEPT ![old] = "absent", ![t] = "fresh"]
    BY <1>3 DEF Exchange
  <2>4. issued[old].session # s
    BY <2>1 DEF LiveOf
  <2> HIDE DEF tenant, old
  <2>5. issued'[t].session = issued[old].session /\ \A v \in Tokens \ {t} : issued'[v] = issued[v]
    BY <2>2, <2>3, Inserted
  <2>6. \A v \in Tokens \ {t} : row'[v] # "absent" => row[v] # "absent"
    BY <2>3 DEF SInv, TypeOK
  <2> QED BY <2>4, <2>5, <2>6 DEF LiveOf
<1>4. CASE Environment \/ \E r \in Requests, o \in Order : Send(r, o)
  <2>1. UNCHANGED issued /\ \A t \in Tokens : row[t] = "absent" => row'[t] = "absent"
    BY <1>4 DEF Environment, ChangeMembership, ExpireToken, ExpireAccess, Prune, Send, database, SInv, TypeOK
  <2> QED BY <2>1, NothingStored
<1>5. ASSUME NEW r \in Requests,
             \/ AuthRequired(r) \/ Get(r) \/ BadRequest(r) \/ FindTenant(r) \/ NoTenant(r) \/ NoCookie(r)
             \/ CheckMember(r) \/ Consume(r) \/ SignForRole(r) \/ Revoke(r) \/ Deliver(r)
             \/ StatementFails(r) \/ Lose(r)
      PROVE  LiveOf(s)' = {}
  <2>1. UNCHANGED issued /\ \A t \in Tokens : row[t] = "absent" => row'[t] = "absent"
    BY <1>5 DEF AuthRequired, Get, BadRequest, FindTenant, NoTenant, NoCookie, CheckMember, Consume,
           SignForRole, Revoke, Deliver, StatementFails, Lose, database, SInv, TypeOK
  <2> QED BY <2>1, NothingStored
<1>6. ASSUME NEW r \in Requests, CommitRotate(r) \/ CommitSwitch(r) \/ ExchangeFails(r)
      PROVE  LiveOf(s)' = {}
  BY <1>3, <1>6, NothingStored DEF CommitRotate, CommitSwitch, ExchangeFails, At
<1> QED BY <1>2, <1>4, <1>5, <1>6 DEF Next, Step, Fault

\* Once the last row of a session is gone, by logout, prune or an exchange, no request
\* still under way brings the session back.
THEOREM DeadSessions == Spec => DeadSessionStaysDead
<1> DEFINE Dead == \A s \in Requests :
                     (\E t \in Tokens : issued[t].session = s) /\ LiveOf(s) = {} => LiveOf(s)' = {}
<1>1. SInv /\ [Next]_vars => [Dead]_vars
  BY DeadStaysDead
<1>2. Spec => [][Dead]_vars
  BY <1>1, Inductive, PTL DEF Spec
<1> QED BY <1>2 DEF DeadSessionStaysDead

-----------------------------------------------------------------------------
(* The claims of access tokens.                                            *)

WasHeld(u, n, role) == [user |-> u, tenant |-> n, role |-> role] \in held

\* The claims in the jar, in flight and about to be signed name memberships that
\* there have been.
ClaimsInv ==
  /\ Memberships(memb) \subseteq held
  /\ ClaimsWereTrue
  /\ \A r \in Requests :
       /\ pc[r] \notin {"idle", "done"} /\ msg[r].jar.access # NoClaims => msg[r].jar.access \in held
       /\ pc[r] = "answered" /\ work[r].answer.cookies = "set" => work[r].answer.jar.access \in held
       /\ At(r, "checked", {"login"}) => WasHeld(msg[r].order.user, work[r].tenant, work[r].role)
       /\ At(r, "checked", {"switch"}) \/ At(r, "holding", {"switch"}) =>
            WasHeld(msg[r].jar.access.user, msg[r].order.tenant, work[r].role)

LEMMA MembershipHeld ==
  ASSUME SInv, ClaimsInv, NEW u \in Users, NEW n \in Tenants, memb[<<u, n>>] # None
  PROVE  WasHeld(u, n, memb[<<u, n>>])
<1> DEFINE c == [user |-> u, tenant |-> n, role |-> memb[<<u, n>>]]
<1>1. c \in Claims
  BY MembershipRead DEF Claims
<1>2. c \in Memberships(memb)
  BY <1>1 DEF Memberships
<1> QED BY <1>2 DEF ClaimsInv, WasHeld

\* A step of request r inside its handler: what it leaves there is all that counts.
LEMMA HandlerStep ==
  ASSUME ClaimsInv, NEW r \in Requests, pc[r] \notin {"idle", "done"},
         UNCHANGED <<memb, held, jar, msg>>,
         \A s \in Requests \ {r} : pc'[s] = pc[s] /\ work'[s] = work[s],
         pc'[r] = "answered" /\ work'[r].answer.cookies = "set" => work'[r].answer.jar.access \in held,
         At(r, "checked", {"login"})' => WasHeld(msg[r].order.user, work'[r].tenant, work'[r].role),
         At(r, "checked", {"switch"})' \/ At(r, "holding", {"switch"})' =>
           WasHeld(msg[r].jar.access.user, msg[r].order.tenant, work'[r].role)
  PROVE  ClaimsInv'
BY DEF ClaimsInv, ClaimsWereTrue, At, WasHeld, Memberships

\* An answer whose claims were held.
LEMMA AnswerStep ==
  ASSUME SInv, ClaimsInv, NEW r \in Requests, pc[r] \notin {"idle", "done"}, NEW a \in Answer, Respond(r, a),
         a.cookies = "set" => a.jar.access \in held, UNCHANGED <<memb, held, jar, msg>>
  PROVE  ClaimsInv'
<1>1. /\ pc'[r] = "answered" /\ work'[r].answer = a
      /\ \A s \in Requests \ {r} : pc'[s] = pc[s] /\ work'[s] = work[s]
  BY WorkSet DEF SInv, TypeOK, Respond, GoTo
<1> QED BY <1>1, HandlerStep DEF At

LEMMA ClaimsInit == Init => ClaimsInv
<1> SUFFICES ASSUME Init PROVE ClaimsInv
  OBVIOUS
<1>1. \A r \in Requests : pc[r] = "idle"
  BY DEF Init
<1>2. jar.access = NoClaims
  BY DEF Init, EmptyJar
<1> QED BY <1>1, <1>2 DEF Init, ClaimsInv, ClaimsWereTrue, At

LEMMA ClaimsEnvironment ==
  ASSUME SInv, ClaimsInv, Environment
  PROVE  ClaimsInv'
<1>1. CASE \E u \in Users, n \in Tenants, role \in Roles \cup {None} : ChangeMembership(u, n, role)
  <2>1. held' = held \cup Memberships(memb') /\ UNCHANGED <<jar, pc, msg, work>>
    BY <1>1 DEF ChangeMembership
  <2>2. Memberships(memb)' = Memberships(memb')
    BY DEF Memberships
  <2> QED BY <2>1, <2>2 DEF ClaimsInv, ClaimsWereTrue, At, WasHeld
<1>2. CASE (\E t \in Tokens : ExpireToken(t)) \/ Prune
  BY <1>2 DEF ExpireToken, Prune, ClaimsInv, ClaimsWereTrue, At, WasHeld, Memberships
<1>3. CASE ExpireAccess
  <2>1. jar'.access = NoClaims /\ UNCHANGED <<memb, held, pc, msg, work>>
    BY <1>3 DEF ExpireAccess, database, SInv, TypeOK, Jar
  <2> QED BY <2>1 DEF ClaimsInv, ClaimsWereTrue, At, WasHeld, Memberships
<1> QED BY <1>1, <1>2, <1>3 DEF Environment

LEMMA ClaimsSend ==
  ASSUME SInv, ClaimsInv, NEW r \in Requests, NEW o \in Order, Send(r, o)
  PROVE  ClaimsInv'
<1>1. /\ pc'[r] = "sent" /\ msg'[r].jar = jar
      /\ \A s \in Requests \ {r} : pc'[s] = pc[s] /\ msg'[s] = msg[s]
      /\ UNCHANGED <<memb, held, jar, work>>
  BY DEF Send, SInv, TypeOK, database
<1> QED BY <1>1 DEF ClaimsInv, ClaimsWereTrue, At, WasHeld, Memberships

LEMMA ClaimsForget ==
  ASSUME SInv, ClaimsInv, NEW r \in Requests, Deliver(r) \/ Lose(r)
  PROVE  ClaimsInv'
<1>1. /\ pc[r] = "answered" /\ pc'[r] = "done"
      /\ \A s \in Requests \ {r} : pc'[s] = pc[s] /\ msg'[s] = msg[s] /\ work'[s] = work[s]
      /\ UNCHANGED <<memb, held>>
  BY DEF Deliver, Lose, Forget, SInv, TypeOK, database
<1>2. work[r].answer.cookies \in {"keep", "clear", "set"}
  BY DEF SInv, TypeOK, Work, Answer, Keep, Clear, Set
<1>3. \/ jar' = jar \/ jar' = EmptyJar
      \/ work[r].answer.cookies = "set" /\ jar' = work[r].answer.jar
  BY <1>2 DEF Deliver, Lose
<1>4. ClaimsWereTrue'
  BY <1>1, <1>3 DEF ClaimsInv, ClaimsWereTrue, EmptyJar
<1> QED BY <1>1, <1>4 DEF ClaimsInv, At, WasHeld, Memberships

LEMMA ClaimsStep == SInv /\ ClaimsInv /\ [Next]_vars => ClaimsInv'
<1> SUFFICES ASSUME SInv, ClaimsInv, [Next]_vars PROVE ClaimsInv'
  OBVIOUS
<1>1. ASSUME NEW r \in Requests,
             AuthRequired(r) \/ Get(r) \/ BadRequest(r) \/ NoTenant(r) \/ NoCookie(r)
               \/ StatementFails(r) \/ ExchangeFails(r) \/ Revoke(r)
      PROVE  ClaimsInv'
  <2>1. /\ pc[r] \notin {"idle", "done"} /\ UNCHANGED <<jar, msg, memb, held>>
        /\ Respond(r, Keep) \/ Respond(r, Clear)
    BY <1>1 DEF AuthRequired, Get, BadRequest, NoTenant, NoCookie, StatementFails, ExchangeFails, Revoke,
           At, AtExchange, database
  <2> QED BY <2>1, AnswerOther, AnswerStep
<1>2. ASSUME NEW r \in Requests, FindTenant(r) PROVE ClaimsInv'
  <2>1. pc[r] = "sent" /\ msg[r].order.kind = "login" /\ msg[r].order.user \in Users
        /\ UNCHANGED <<memb, held, jar, msg>>
    BY <1>2, MessageFields DEF FindTenant, At, SInv, database
  <2>2. PICK n \in Tenants : /\ memb[<<msg[r].order.user, n>>] # None
          /\ work' = [work EXCEPT ![r].tenant = n, ![r].role = memb[<<msg[r].order.user, n>>]]
    BY <1>2 DEF FindTenant
  <2>3. WasHeld(msg[r].order.user, n, memb[<<msg[r].order.user, n>>])
    BY <2>1, <2>2, MembershipHeld
  <2>4. /\ pc'[r] = "checked" /\ work'[r].tenant = n /\ work'[r].role = memb[<<msg[r].order.user, n>>]
        /\ \A s \in Requests \ {r} : pc'[s] = pc[s] /\ work'[s] = work[s]
    BY <1>2, <2>2 DEF FindTenant, GoTo, SInv, TypeOK, Work
  <2> QED BY <2>1, <2>3, <2>4, HandlerStep DEF At
<1>3. ASSUME NEW r \in Requests, CheckMember(r) PROVE ClaimsInv'
  <2> DEFINE role == memb[<<msg[r].jar.access.user, msg[r].order.tenant>>]
  <2>1. /\ pc[r] = "sent" /\ msg[r].order.kind = "switch" /\ UNCHANGED <<memb, held, jar, msg>>
        /\ msg[r].jar.access.user \in Users /\ msg[r].order.tenant \in Tenants
    BY <1>3, MessageFields DEF CheckMember, At, database, SInv, Claims
  <2>2. CASE role = None
    BY <1>3, <2>1, <2>2, AnswerOther, AnswerStep DEF CheckMember
  <2>3. CASE role # None
    <3>1. WasHeld(msg[r].jar.access.user, msg[r].order.tenant, role)
      BY <2>1, <2>3, MembershipHeld
    <3>2. work' = [work EXCEPT ![r].role = role] /\ GoTo(r, "checked")
      BY <1>3, <2>3 DEF CheckMember
    <3> HIDE DEF role
    <3>3. /\ pc'[r] = "checked" /\ work'[r].role = role
          /\ \A s \in Requests \ {r} : pc'[s] = pc[s] /\ work'[s] = work[s]
      BY <3>2 DEF GoTo, SInv, TypeOK, Work
    <3> QED BY <2>1, <3>1, <3>3, HandlerStep DEF At
  <2> QED BY <2>2, <2>3
<1>4. ASSUME NEW r \in Requests, Store(r) PROVE ClaimsInv'
  <2> DEFINE c == [user |-> msg[r].order.user, tenant |-> work[r].tenant, role |-> work[r].role]
  <2>1. pc[r] = "checked" /\ UNCHANGED <<memb, held, jar, msg>> /\ c \in held
    BY <1>4 DEF Store, At, ClaimsInv, WasHeld
  <2>2. c \in Claims
    BY <2>1 DEF SInv, TypeOK
  <2>3. PICK t \in Tokens, ok \in {TRUE, FALSE} : Respond(r, IF ok THEN Set(t, c) ELSE Keep)
    BY <1>4 DEF Store
  <2> HIDE DEF c
  <2> QED BY <2>1, <2>2, <2>3, AnswerSet, AnswerOther, AnswerStep
<1>5. ASSUME NEW r \in Requests, Consume(r) PROVE ClaimsInv'
  <2>1. pc[r] \in {"sent", "checked"} /\ UNCHANGED <<memb, held, jar, msg>>
        /\ (msg[r].order.kind = "switch" => pc[r] = "checked")
    BY <1>5 DEF Consume, AtExchange, At, database
  <2>2. CASE GoTo(r, "holding") /\ UNCHANGED work
    <3>1. pc'[r] = "holding" /\ \A s \in Requests \ {r} : pc'[s] = pc[s]
      BY <2>2 DEF GoTo, SInv, TypeOK
    <3>2. At(r, "holding", {"switch"})' => At(r, "checked", {"switch"})
      BY <2>1 DEF At
    <3> QED BY <2>1, <2>2, <3>1, <3>2, HandlerStep DEF At, ClaimsInv
  <2>3. CASE Respond(r, Clear)
    BY <2>1, <2>3, AnswerOther, AnswerStep
  <2> QED BY <1>5, <2>2, <2>3 DEF Consume
<1>6. ASSUME NEW r \in Requests, CommitRotate(r) PROVE ClaimsInv'
  <2>1. /\ pc[r] = "holding" /\ pc'[r] = "rotated" /\ UNCHANGED <<memb, held, jar, msg>>
        /\ \A s \in Requests \ {r} : pc'[s] = pc[s] /\ work'[s] = work[s]
    BY <1>6 DEF CommitRotate, At, GoTo, SInv, TypeOK
  <2> QED BY <2>1, HandlerStep DEF At
<1>7. ASSUME NEW r \in Requests, CommitSwitch(r) PROVE ClaimsInv'
  <2> DEFINE c == [user |-> msg[r].jar.access.user, tenant |-> msg[r].order.tenant, role |-> work[r].role]
  <2>1. pc[r] = "holding" /\ UNCHANGED <<memb, held, jar, msg>> /\ c \in held
    BY <1>7 DEF CommitSwitch, At, ClaimsInv, WasHeld
  <2>2. c \in Claims
    BY <2>1 DEF SInv, TypeOK
  <2>3. PICK t \in Tokens : Respond(r, Set(t, c))
    BY <1>7 DEF CommitSwitch
  <2> HIDE DEF c
  <2> QED BY <2>1, <2>2, <2>3, AnswerSet, AnswerStep
<1>8. ASSUME NEW r \in Requests, SignForRole(r) PROVE ClaimsInv'
  <2> DEFINE t == work[r].token
             user == issued[t].user
             tenant == issued[t].tenant
             role == memb[<<user, tenant>>]
             c == [user |-> user, tenant |-> tenant, role |-> role]
             a == IF role = None THEN Keep ELSE Set(t, c)
  <2>1. pc[r] = "rotated" /\ Respond(r, a) /\ UNCHANGED <<memb, held, jar, msg>>
    BY <1>8 DEF SignForRole, At, database
  <2>2. t \in Tokens /\ user \in Users /\ tenant \in Tenants
    BY <2>1 DEF SInv, Staged, Stored, Session
  <2>3. role # None => c \in held /\ c \in Claims
    BY <2>2, MembershipHeld DEF WasHeld, SInv, TypeOK
  <2> HIDE DEF c, role
  <2>4. a \in Answer /\ (a.cookies = "set" => a.jar.access \in held)
    BY <2>2, <2>3, AnswerSet, AnswerOther
  <2> HIDE DEF a
  <2> QED BY <2>1, <2>4, AnswerStep
<1>9. CASE UNCHANGED vars
  BY <1>9 DEF vars, ClaimsInv, ClaimsWereTrue, At, WasHeld, Memberships
<1> QED
  BY <1>1, <1>2, <1>3, <1>4, <1>5, <1>6, <1>7, <1>8, <1>9, ClaimsEnvironment, ClaimsSend, ClaimsForget
     DEF Next, Step, Fault

\* No access token that reaches the browser claims a role its user never had.
THEOREM ClaimsAreTrue == Spec => []ClaimsWereTrue
<1>1. ClaimsInv => ClaimsWereTrue
  BY DEF ClaimsInv
<1> QED BY <1>1, ClaimsInit, ClaimsStep, Inductive, PTL DEF Spec

=============================================================================
