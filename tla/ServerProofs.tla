----------------------------- MODULE ServerProofs -----------------------------
(***************************************************************************)
(* The server: theorems of Router, for any number of requests and          *)
(* connections and whatever the requests ask for; and of Lifecycle, for    *)
(* any number of requests and connections, wherever a signal, a failure or *)
(* the end of main comes.                                                  *)
(***************************************************************************)
EXTENDS Router, Lifecycle, FiniteSetTheorems, TLAPS

-----------------------------------------------------------------------------
(* The routes of setup() and README.md's table.                            *)

\* Every route has a line of its own.
LEMMA Lines ==
  /\ \A s \in setup : s.line \in 28..89
  /\ \A s, t \in setup : s.line = t.line => s = t
<1> USE DEF Group, Route
<1>1. /\ \A s \in Global : s.line \in {28, 37, 38, 89}
      /\ \A s, t \in Global : s.line = t.line => s = t
  BY DEF Global
<1>2. /\ \A s \in Public : s.line \in 44..52
      /\ \A s, t \in Public : s.line = t.line => s = t
  BY DEF Public
<1>3. /\ \A s \in Me : s.line \in 55..61
      /\ \A s, t \in Me : s.line = t.line => s = t
  BY DEF Me
<1>4. /\ \A s \in Membership : s.line \in 64..67
      /\ \A s, t \in Membership : s.line = t.line => s = t
  BY DEF Membership
<1>5. /\ \A s \in Inviting : s.line \in 70..76
      /\ \A s, t \in Inviting : s.line = t.line => s = t
  BY DEF Inviting
<1>6. /\ \A s \in Projects : s.line \in 79..87
      /\ \A s, t \in Projects : s.line = t.line => s = t
  BY DEF Projects
<1> QED BY <1>1, <1>2, <1>3, <1>4, <1>5, <1>6 DEF setup

LEMMA HandlersAre ==
  ASSUME NEW s \in setup
  PROVE  /\ DOMAIN s.handlers \subseteq 1..4
         /\ \A k \in DOMAIN s.handlers : s.handlers[k] \in Handler
<1> USE DEF Handler, Group, Route
<1>1. CASE s \in Global
  BY <1>1 DEF Global
<1>2. CASE s \in Public
  BY <1>2 DEF Public
<1>3. CASE s \in Me
  BY <1>3 DEF Me
<1>4. CASE s \in Membership
  BY <1>4 DEF Membership
<1>5. CASE s \in Inviting
  BY <1>5 DEF Inviting
<1>6. CASE s \in Projects
  BY <1>6 DEF Projects
<1> QED BY <1>1, <1>2, <1>3, <1>4, <1>5, <1>6 DEF setup

\* A place is that of a handler of a route that the request matches.
LEMMA PlaceOf ==
  ASSUME NEW m, NEW p
  PROVE  p \in Places(m) <=>
           \E s \in setup, k \in 1..4 :
             Matches(s, m) /\ k \in DOMAIN s.handlers /\ p = Place(s, k)
BY HandlersAre DEF Places

\* Of two places one is the earlier.
LEMMA PlacesAreOrdered ==
  ASSUME NEW m, NEW p \in Places(m), NEW q \in Places(m)
  PROVE  /\ p \in [line : 28..89, index : 1..4, handler : Handler]
         /\ p = q \/ Earlier(p, q) \/ Earlier(q, p)
<1>1. PICK s \in setup, k \in 1..4 : p = Place(s, k) /\ s.handlers[k] \in Handler
  BY PlaceOf, HandlersAre
<1>2. PICK t \in setup, j \in 1..4 : q = Place(t, j)
  BY PlaceOf
<1>3. s.line \in 28..89 /\ t.line \in 28..89
  BY Lines
<1>4. s.line = t.line => s = t
  BY Lines
<1> QED BY <1>1, <1>2, <1>3, <1>4 DEF Place, Earlier

LEMMA Begins ==
  ASSUME NEW path, NEW first
  PROVE  /\ IsPrefix(<<first>>, path) => path[1] = first
         /\ \A second : IsPrefix(<<first, second>>, path) => path[1] = first
<1>1. ASSUME IsPrefix(<<first>>, path) PROVE path[1] = first
  <2>1. SubSeq(<<first>>, 1, 1)[1] = first /\ SubSeq(path, 1, 1)[1] = path[1]
    OBVIOUS
  <2> QED BY <1>1, <2>1 DEF IsPrefix
<1>2. ASSUME NEW second, IsPrefix(<<first, second>>, path) PROVE path[1] = first
  <2>1. SubSeq(<<first, second>>, 1, 2)[1] = first /\ SubSeq(path, 1, 2)[1] = path[1]
    OBVIOUS
  <2> QED BY <1>2, <2>1 DEF IsPrefix
<1> QED BY <1>1, <1>2

\* What the table of routes lets in: a handler is reached by those only who have passed
\* what is registered before it.
LEMMA ServedIsPermitted ==
  ASSUME NEW m \in Message, NEW p \in Places(m), p.handler = "handle",
         \A q \in Places(m) : Earlier(q, p) => Passes(q.handler, m)
  PROVE  Permitted(m)
<1>1. PICK s \in setup, k \in 1..4 :
        Matches(s, m) /\ k \in DOMAIN s.handlers /\ p = Place(s, k) /\ s.handlers[k] = "handle"
  BY PlaceOf DEF Place
<1>2. ASSUME NEW t \in setup, Matches(t, m), NEW j \in DOMAIN t.handlers,
             t.line < s.line \/ (t = s /\ j < k)
      PROVE  Passes(t.handlers[j], m)
  <2>1. Place(t, j) \in Places(m)
    BY <1>2, HandlersAre, PlaceOf
  <2> QED BY <1>1, <1>2, <2>1 DEF Place, Earlier
<1> USE DEF Group, Route, Matches, Permitted
<1>3. CASE s \in Global
  BY <1>1, <1>3 DEF Global
<1>4. CASE s \in Public
  BY <1>1, <1>2, <1>4 DEF Public, Documented, Row, Passes
<1>5. CASE s \in Me
  <2>1. m.role # None
    <3>1. Group(55, <<"/me">>, <<"AuthRequired">>) \in setup
      BY DEF setup, Me
    <3>2. Matches(Group(55, <<"/me">>, <<"AuthRequired">>), m) /\ s.line > 55
      BY <1>1, <1>5 DEF Me, IsPrefix
    <3> QED BY <1>2, <3>1, <3>2 DEF Passes
  <2> QED BY <1>1, <1>5, <2>1 DEF Me, Documented, Row
<1>6. CASE s \in Membership
  <2> DEFINE g == Group(64, <<"/me", "mbers">>, <<"AuthRequired", "TenantTx">>)
  <2>1. g \in setup /\ Matches(g, m) /\ s.line > 64
    BY <1>1, <1>6 DEF setup, Membership, IsPrefix
  <2>2. m.role # None
    BY <1>2, <2>1 DEF Passes
  <2>3. k > 1 => Passes(s.handlers[1], m)
    BY <1>1, <1>2, <1>6 DEF Membership
  <2> HIDE DEF g
  <2> QED BY <1>1, <1>6, <2>2, <2>3 DEF Membership, Documented, Row, Passes
<1>7. CASE s \in Inviting
  <2> DEFINE g == Group(73, <<"/invites">>, <<"AuthRequired", "TenantTx", "admin">>)
  <2>1. CASE s.line = 70
    <3>1. k = 2 /\ Passes("AuthRequired", m)
      BY <1>1, <1>2, <1>7, <2>1 DEF Inviting
    <3> QED BY <1>1, <1>7, <2>1, <3>1 DEF Inviting, Documented, Row, Passes
  <2>2. CASE s.line # 70
    <3>1. g \in setup /\ Matches(g, m) /\ s.line > 73
      BY <1>1, <1>7, <2>2 DEF setup, Inviting, IsPrefix
    <3>2. Passes("AuthRequired", m) /\ Passes("admin", m)
      BY <1>2, <3>1
    <3> QED BY <1>1, <1>7, <2>2, <3>2 DEF Inviting, Documented, Row, Passes
  <2> QED BY <2>1, <2>2
<1>8. CASE s \in Projects
  <2> DEFINE g == Group(79, <<"/projects">>, <<"AuthRequired", "TenantTx">>)
  <2>1. CASE s.line = 87
    <3>1. k = 4 /\ Passes("AuthRequired", m) /\ Passes("admin", m)
      BY <1>1, <1>2, <1>8, <2>1 DEF Projects
    <3> QED BY <1>1, <1>8, <2>1, <3>1 DEF Projects, Documented, Row, Passes
  <2>2. CASE s.line # 87
    <3>1. g \in setup /\ Matches(g, m) /\ s.line > 79
      BY <1>1, <1>8, <2>2 DEF setup, Projects, IsPrefix
    <3>2. Passes("AuthRequired", m) /\ k = 2 /\ Passes(s.handlers[1], m)
      BY <1>1, <1>2, <1>8, <2>2, <3>1 DEF Projects
    <3> QED BY <1>1, <1>8, <2>2, <3>2 DEF Projects, Documented, Row, Passes
  <2> QED BY <2>1, <2>2
<1> QED BY <1>1, <1>3, <1>4, <1>5, <1>6, <1>7, <1>8 DEF setup

\* Nobody else is turned away: who does not pass a handler before the innermost one is
\* not let in by the table.
LEMMA RefusedIsNotPermitted ==
  ASSUME NEW m, NEW p \in Places(m), p.handler \in {"AuthRequired", "member", "admin"},
         ~Passes(p.handler, m),
         \A q \in Places(m) : Earlier(q, p) => q.handler # "handle"
  PROVE  ~Permitted(m)
<1> SUFFICES ASSUME NEW d \in Documented, d.method = m.method, d.path = m.path,
                    d.auth => m.role # None,
                    d.role # None => RoleAtLeast(m.role, d.role)
             PROVE  FALSE
  BY DEF Permitted
<1>1. PICK s \in setup, k \in 1..4 :
        Matches(s, m) /\ k \in DOMAIN s.handlers /\ p = Place(s, k) /\ s.handlers[k] = p.handler
  BY PlaceOf DEF Place
<1>2. ASSUME NEW t \in setup, Matches(t, m), NEW j \in DOMAIN t.handlers, t.line < s.line
      PROVE  t.handlers[j] # "handle"
  <2>1. Place(t, j) \in Places(m)
    BY <1>2, HandlersAre, PlaceOf
  <2> QED BY <1>1, <1>2, <2>1 DEF Place, Earlier
<1>3. p.handler = "AuthRequired" => ~d.auth
  BY DEF Passes
<1>4. p.handler \in {"member", "admin"} => d.role # p.handler
  BY DEF Passes, None
<1> USE DEF Group, Route, Matches
<1>5. CASE s \in Global \cup Public
  BY <1>1, <1>3, <1>4, <1>5 DEF Global, Public, Documented, Row
<1>6. CASE s \in Me
  <2>1. p.handler = "AuthRequired" /\ d.path[1] = "/me"
    BY <1>1, <1>6 DEF Me, IsPrefix
  <2> QED BY <1>3, <2>1 DEF Documented, Row
<1>7. CASE s \in Membership
  <2>1. d.path[1] = "/me"
    BY <1>1, <1>7 DEF Membership, IsPrefix
  <2>2. CASE p.handler = "AuthRequired"
    BY <1>3, <2>1, <2>2 DEF Documented, Row
  <2>3. CASE p.handler # "AuthRequired"
    BY <1>1, <1>4, <1>7, <2>3 DEF Membership, Documented, Row
  <2> QED BY <2>2, <2>3
<1>8. CASE s \in Inviting
  <2>1. d.path[1] = "/invites"
    BY <1>1, <1>8, Begins DEF Inviting
  <2>2. CASE p.handler = "AuthRequired"
    BY <1>3, <2>1, <2>2 DEF Documented, Row
  <2>3. CASE p.handler # "AuthRequired"
    <3>1. s.line = 73 /\ p.handler = "admin"
      BY <1>1, <1>8, <2>3 DEF Inviting
    <3>2. d.method = "POST" /\ d.path = <<"/invites", "/accept">>
      BY <1>4, <2>1, <3>1 DEF Documented, Row
    <3>3. Route(70, "POST", <<"/invites", "/accept">>, <<"AuthRequired", "handle">>) \in setup
      BY DEF setup, Inviting
    <3> QED BY <1>2, <3>1, <3>2, <3>3
  <2> QED BY <2>2, <2>3
<1>9. CASE s \in Projects
  <2>1. d.path[1] \in {"/projects", "/audit"}
    BY <1>1, <1>9 DEF Projects, IsPrefix
  <2>2. CASE p.handler = "AuthRequired"
    BY <1>3, <2>1, <2>2 DEF Documented, Row
  <2>3. CASE p.handler # "AuthRequired"
    BY <1>1, <1>4, <1>9, <2>3 DEF Projects, Documented, Row
  <2> QED BY <2>2, <2>3
<1> QED BY <1>5, <1>6, <1>7, <1>8, <1>9 DEF setup

\* Every row of the table has its handler, before Fiber's own error.
LEMMA PermittedIsRouted ==
  ASSUME NEW m, Permitted(m)
  PROVE  \E p \in Places(m) : p.handler = "handle" /\ p.line < 89
<1>1. PICK d \in Documented : d.method = m.method /\ d.path = m.path
  BY DEF Permitted
<1> DEFINE R(line, handlers) == Route(line, d.method, d.path, handlers)
<1>2. ASSUME NEW line \in 28..88, NEW handlers, R(line, handlers) \in setup,
             NEW k \in DOMAIN handlers, handlers[k] = "handle"
      PROVE  \E p \in Places(m) : p.handler = "handle" /\ p.line < 89
  <2>1. Matches(R(line, handlers), m)
    BY <1>1 DEF Matches, Route, Documented, Row
  <2>2. Place(R(line, handlers), k) \in Places(m)
    BY <1>2, <2>1, HandlersAre, PlaceOf DEF Route
  <2> QED BY <1>2, <2>2 DEF Place, Route
<1>3. CASE d.path[1] \in {"/auth", "/webhooks"}
  <2>1. \/ R(44, <<"handle">>) \in Public \/ R(45, <<"handle">>) \in Public
        \/ R(46, <<"handle">>) \in Public \/ R(47, <<"handle">>) \in Public
        \/ R(52, <<"handle">>) \in Public
        \/ R(48, <<"AuthRequired", "handle">>) \in Public
        \/ R(49, <<"AuthRequired", "handle">>) \in Public
    <3>1. \/ /\ d.method = "POST"
             /\ d.path \in { <<"/auth", "/register">>, <<"/auth", "/login">>, <<"/auth", "/refresh">>,
                             <<"/auth", "/logout">>, <<"/auth", "/switch">>, <<"/webhooks", "/stripe">> }
          \/ d.method = "GET" /\ d.path = <<"/auth", "/tenants">>
      BY <1>3 DEF Documented, Row
    <3> QED BY <3>1 DEF Public, Route
  <2> HIDE DEF R
  <2> QED BY <1>2, <2>1 DEF setup
<1>4. CASE d.path[1] = "/me"
  <2>1. \/ R(56, <<"handle">>) \in Me \/ R(57, <<"handle">>) \in Me
        \/ R(58, <<"handle">>) \in Me \/ R(59, <<"handle">>) \in Me
        \/ R(60, <<"handle">>) \in Me \/ R(61, <<"handle">>) \in Me
        \/ d.path \in {<<"/me", "mbers">>, <<"/me", "mbers", "/:uid">>}
    BY <1>4 DEF Documented, Row, Me, Route
  <2>2. d.path \in {<<"/me", "mbers">>, <<"/me", "mbers", "/:uid">>} =>
        \/ R(65, <<"member", "handle">>) \in Membership
        \/ R(66, <<"admin", "handle">>) \in Membership
        \/ R(67, <<"handle">>) \in Membership
    BY DEF Documented, Row, Membership, Route
  <2> HIDE DEF R
  <2> QED BY <1>2, <2>1, <2>2 DEF setup
<1>5. CASE d.path[1] = "/invites"
  <2>1. \/ R(70, <<"AuthRequired", "handle">>) \in Inviting
        \/ R(74, <<"handle">>) \in Inviting \/ R(75, <<"handle">>) \in Inviting
        \/ R(76, <<"handle">>) \in Inviting
    BY <1>5 DEF Documented, Row, Inviting, Route
  <2> HIDE DEF R
  <2> QED BY <1>2, <2>1 DEF setup
<1>6. CASE d.path[1] \in {"/projects", "/audit"}
  <2>1. \/ R(80, <<"member", "handle">>) \in Projects \/ R(81, <<"admin", "handle">>) \in Projects
        \/ R(82, <<"member", "handle">>) \in Projects \/ R(83, <<"admin", "handle">>) \in Projects
        \/ R(84, <<"admin", "handle">>) \in Projects
        \/ d.path[1] = "/audit"
    BY <1>6 DEF Documented, Row, Projects, Route
  <2>2. d.path[1] = "/audit" => R(87, <<"AuthRequired", "TenantTx", "admin", "handle">>) \in Projects
    BY DEF Documented, Row, Projects, Route
  <2> HIDE DEF R
  <2> QED BY <1>2, <2>1, <2>2 DEF setup
<1>7. d.path[1] \in {"/auth", "/webhooks", "/me", "/invites", "/projects", "/audit"}
  BY DEF Documented, Row
<1> QED BY <1>3, <1>4, <1>5, <1>6, <1>7

\* No request gets two transactions.
LEMMA OneTransaction ==
  ASSUME NEW m, NEW p \in Places(m), NEW q \in Places(m),
         p.handler = "TenantTx", q.handler = "TenantTx"
  PROVE  p = q
<1>1. PICK s \in setup, k \in 1..4 :
        Matches(s, m) /\ k \in DOMAIN s.handlers /\ p = Place(s, k) /\ s.handlers[k] = "TenantTx"
  BY PlaceOf DEF Place
<1>2. PICK t \in setup, j \in 1..4 :
        Matches(t, m) /\ j \in DOMAIN t.handlers /\ q = Place(t, j) /\ t.handlers[j] = "TenantTx"
  BY PlaceOf DEF Place
<1>3. ASSUME NEW u \in setup, NEW i \in DOMAIN u.handlers, u.handlers[i] = "TenantTx"
      PROVE  /\ i = 2
             /\ u \in { Group(64, <<"/me", "mbers">>, <<"AuthRequired", "TenantTx">>),
                        Group(73, <<"/invites">>, <<"AuthRequired", "TenantTx", "admin">>),
                        Group(79, <<"/projects">>, <<"AuthRequired", "TenantTx">>),
                        Route(87, "GET", <<"/audit">>, <<"AuthRequired", "TenantTx", "admin", "handle">>) }
  <2>1. u \notin Global \cup Public \cup Me
    BY <1>3 DEF Global, Public, Me, Group, Route
  <2>2. CASE u \in Membership
    BY <1>3, <2>2 DEF Membership, Group, Route
  <2>3. CASE u \in Inviting
    BY <1>3, <2>3 DEF Inviting, Group, Route
  <2>4. CASE u \in Projects
    BY <1>3, <2>4 DEF Projects, Group, Route
  <2> QED BY <2>1, <2>2, <2>3, <2>4 DEF setup
<1>4. ASSUME NEW u \in setup, NEW i \in DOMAIN u.handlers, u.handlers[i] = "TenantTx", Matches(u, m)
      PROVE  /\ u.line = 64 <=> m.path[1] = "/me"
             /\ u.line = 73 <=> m.path[1] = "/invites"
             /\ u.line = 79 <=> m.path[1] = "/projects"
             /\ u.line = 87 <=> m.path[1] = "/audit"
             /\ u.line \in {64, 73, 79, 87}
  <2>1. ASSUME u.line = 64 PROVE m.path[1] = "/me"
    <3>1. u.path = <<"/me", "mbers">> /\ u.method = "any"
      BY <1>3, <1>4, <2>1 DEF Group, Route
    <3>2. IsPrefix(<<"/me", "mbers">>, m.path)
      BY <1>4, <3>1 DEF Matches
    <3> QED BY <3>2, Begins
  <2>2. u.line = 73 => m.path[1] = "/invites"
    BY <1>3, <1>4, Begins DEF Matches, Group, Route
  <2>3. u.line = 79 => m.path[1] = "/projects"
    BY <1>3, <1>4, Begins DEF Matches, Group, Route
  <2>4. u.line = 87 => m.path[1] = "/audit"
    BY <1>3, <1>4 DEF Matches, Group, Route
  <2>5. u.line \in {64, 73, 79, 87}
    BY <1>3, <1>4 DEF Group, Route
  <2> QED BY <2>1, <2>2, <2>3, <2>4, <2>5
<1>5. s = t
  BY <1>1, <1>2, <1>4, Lines
<1> QED BY <1>1, <1>2, <1>3, <1>5 DEF Place

\* What is around every handler.
LEMMA Around ==
  ASSUME NEW m, NEW p \in Places(m)
  PROVE  /\ Top \in Places(m)
         /\ [line |-> 38, index |-> 1, handler |-> "recover"] \in Places(m)
         /\ p.handler = "errorHandler" <=> p.line = 28
         /\ p.handler = "requestLogger" <=> p.line = 37
         /\ p.handler = "recover" <=> p.line = 38
         /\ p.handler = "NotFound" <=> p.line = 89
         /\ p.line \in {28, 37, 38} => p.index = 1
         /\ p.line \in {28, 37} \/ p.line >= 38
<1>1. PICK s \in setup, k \in 1..4 :
        Matches(s, m) /\ k \in DOMAIN s.handlers /\ p = Place(s, k) /\ s.handlers[k] = p.handler
  BY PlaceOf DEF Place
<1>2. Group(28, <<>>, <<"errorHandler">>) \in setup /\ Group(38, <<>>, <<"recover">>) \in setup
  BY DEF setup, Global
<1>3. Matches(Group(28, <<>>, <<"errorHandler">>), m) /\ Matches(Group(38, <<>>, <<"recover">>), m)
  BY DEF Matches, Group, IsPrefix
<1>4. /\ s.handlers[k] = "errorHandler" <=> s.line = 28
      /\ s.handlers[k] = "requestLogger" <=> s.line = 37
      /\ s.handlers[k] = "recover" <=> s.line = 38
      /\ s.handlers[k] = "NotFound" <=> s.line = 89
      /\ s.line \in {28, 37, 38} => k = 1
      /\ s.line \in {28, 37} \/ s.line >= 38
  <2> USE <1>1 DEF Group, Route
  <2>1. CASE s \in Global
    BY <2>1 DEF Global
  <2>2. CASE s \in Public
    BY <2>2 DEF Public
  <2>3. CASE s \in Me
    BY <2>3 DEF Me
  <2>4. CASE s \in Membership
    BY <2>4 DEF Membership
  <2>5. CASE s \in Inviting
    BY <2>5 DEF Inviting
  <2>6. CASE s \in Projects
    BY <2>6 DEF Projects
  <2> QED BY <2>1, <2>2, <2>3, <2>4, <2>5, <2>6 DEF setup
<1>5. Place(Group(28, <<>>, <<"errorHandler">>), 1) \in Places(m)
  BY <1>2, <1>3, PlaceOf DEF Group
<1>6. Place(Group(38, <<>>, <<"recover">>), 1) \in Places(m)
  BY <1>2, <1>3, PlaceOf DEF Group
<1> QED BY <1>1, <1>4, <1>5, <1>6 DEF Place, Group, Top

\* What is earlier than the next place is this one, or earlier than this one.
LEMMA Neighbours ==
  ASSUME NEW m, NEW p \in Places(m), NEW q \in Places(m), Follow(Places(m), p, q)
  PROVE  \A o \in Places(m) : Earlier(o, q) <=> o = p \/ Earlier(o, p)
<1> SUFFICES ASSUME NEW o \in Places(m)
             PROVE  Earlier(o, q) <=> o = p \/ Earlier(o, p)
  OBVIOUS
<1>1. /\ o.line \in Nat /\ o.index \in Nat /\ p.line \in Nat /\ p.index \in Nat
      /\ q.line \in Nat /\ q.index \in Nat
      /\ o = p \/ Earlier(p, o) \/ Earlier(o, p)
  BY PlacesAreOrdered
<1> QED BY <1>1 DEF Follow, Earlier

\* Nothing is between recover and the handlers inside it.
LEMMA AfterRecover ==
  ASSUME NEW m, NEW p \in Places(m), NEW q \in Places(m), Follow(Places(m), p, q), q.line > 38
  PROVE  p.line >= 38
<1> DEFINE c == [line |-> 38, index |-> 1, handler |-> "recover"]
<1>1. c \in Places(m) /\ c.line = 38
  BY Around
<1> HIDE DEF c
<1>2. Earlier(c, q)
  BY <1>1 DEF Earlier
<1>3. c = p \/ Earlier(c, p)
  BY <1>1, <1>2, Neighbours
<1>4. p.line \in Int
  BY PlacesAreOrdered
<1> QED BY <1>1, <1>3, <1>4 DEF Earlier

-----------------------------------------------------------------------------
(* The steps of a request.                                                 *)

OnTheWay == {"200", "4xx", "401", "403"}

\* TenantTx has called the handler whose turn it is, or one that has called that one.
Called(r) == \E p \in Places(msg[r]) : p.handler = "TenantTx" /\ Earlier(p, at[r])

\* What the invariant says of one request.
Kept(r) ==
  /\ at[r] \in IF phase[r] = "idle" THEN {Top} ELSE Places(msg[r])
  /\ IF phase[r] = "idle" THEN tx[r] = None /\ status[r] = "200" /\ err[r] = None /\ ~ran[r]
     ELSE msg[r] \in Sent
  /\ phase[r] = "in" =>
       /\ \A p \in Places(msg[r]) : Earlier(p, at[r]) => Passes(p.handler, msg[r])
       /\ status[r] = "200" /\ err[r] = None /\ ~ran[r]
       /\ tx[r] = IF Inside(r) THEN "open" ELSE None
  /\ phase[r] = "out" =>
       /\ status[r] \in OnTheWay
       /\ ran[r] => Permitted(msg[r])
       /\ Permitted(msg[r]) => ran[r] \/ err[r] = "500"
       /\ err[r] = "panic" => at[r].line >= 38
       /\ IF Inside(r) THEN tx[r] \in {"open", "aborted"} ELSE Fits(status[r], err[r], tx[r])
  /\ phase[r] = "answered" =>
       /\ ran[r] => Permitted(msg[r])
       /\ Permitted(msg[r]) => ran[r] \/ status[r] = "500"
       /\ status[r] = "200" => tx[r] \in {None, "committed"}
       /\ status[r] \in {"404", "500"} => tx[r] \in {None, "rolled back", "left", "unanswered"}

Ranges ==
  /\ msg \in [Requests -> Sent \cup {NoMessage}]
  /\ phase \in [Requests -> {"idle", "in", "hung", "out", "answered"}]
  /\ at \in [Requests -> [line : 28..89, index : 1..4, handler : Handler]]
  /\ status \in [Requests -> Status]
  /\ err \in [Requests -> {None, "404", "500", "panic"}]
  /\ tx \in [Requests -> Transaction]
  /\ logged \in [Requests -> Status \cup {None}]
  /\ ran \in [Requests -> BOOLEAN]

LEMMA InvParts ==
  RInv <=> /\ Ranges /\ IsFiniteSet(InUse) /\ Cardinality(InUse) <= MaxConns
           /\ \A r \in Requests : Kept(r)
BY DEF RInv, TypeOK, Ranges, Kept, InUse, Unsent, WayIn, WayOut, TableIsEnforced,
       AnswerTellsOutcome, OnTheWay

\* A step of one request leaves the others as they are.
Others(r) ==
  \A q \in Requests \ {r} :
    /\ msg'[q] = msg[q] /\ phase'[q] = phase[q] /\ at'[q] = at[q] /\ status'[q] = status[q]
    /\ err'[q] = err[q] /\ tx'[q] = tx[q] /\ ran'[q] = ran[q]

LEMMA StepKeeps ==
  ASSUME RInv, NEW r \in Requests, Ranges', Others(r), Kept(r)',
         IsFiniteSet(InUse'), Cardinality(InUse') <= MaxConns
  PROVE  RInv'
<1>1. ASSUME NEW q \in Requests, q # r PROVE Kept(q)'
  <2>1. Kept(q)
    BY InvParts
  <2>2. /\ msg'[q] = msg[q] /\ phase'[q] = phase[q] /\ at'[q] = at[q] /\ status'[q] = status[q]
        /\ err'[q] = err[q] /\ tx'[q] = tx[q] /\ ran'[q] = ran[q]
    BY <1>1 DEF Others
  <2>3. Inside(q)' <=> Inside(q)
    BY <2>2 DEF Inside
  <2> QED BY <2>1, <2>2, <2>3 DEF Kept
<1>2. \A q \in Requests : Kept(q)'
  BY <1>1
<1> QED BY <1>2 DEF RInv, TypeOK, Ranges, Kept, InUse, Unsent, WayIn, WayOut, TableIsEnforced,
                    AnswerTellsOutcome, OnTheWay

\* The connections in use, when a request has not begun a transaction.
LEMMA NoMoreInUse ==
  ASSUME RInv, NEW r \in Requests, Others(r),
         tx'[r] \in {"open", "aborted", "left"} => tx[r] \in {"open", "aborted", "left"}
  PROVE  IsFiniteSet(InUse') /\ Cardinality(InUse') <= MaxConns
<1>1. InUse' \subseteq InUse
  BY DEF InUse, Others
<1>2. IsFiniteSet(InUse) /\ Cardinality(InUse) <= MaxConns
  BY InvParts
<1>3. IsFiniteSet(InUse') /\ Cardinality(InUse') <= Cardinality(InUse)
  BY <1>1, <1>2, FS_Subset
<1> QED BY <1>2, <1>3, FS_CardinalityType, SentAssumption

\* A handler that passes a request on.
LEMMA DeeperKeeps ==
  ASSUME RInv, NEW r \in Requests, phase[r] = "in", Deeper(r),
         Passes(at[r].handler, msg[r]),
         err' = err,
         tx' = [tx EXCEPT ![r] = IF at[r].handler = "TenantTx" THEN "open" ELSE tx[r]],
         IsFiniteSet(InUse'), Cardinality(InUse') <= MaxConns
  PROVE  RInv'
<1> DEFINE places == Places(msg[r])
<1>1. Ranges /\ Kept(r)
  BY InvParts
<1>2. PICK p \in places : Follow(places, at[r], p) /\ at' = [at EXCEPT ![r] = p]
  BY DEF Deeper
<1>3. UNCHANGED <<msg, phase, status, logged, ran>>
  BY DEF Deeper
<1>4. /\ at[r] \in places /\ p \in [line : 28..89, index : 1..4, handler : Handler]
      /\ \A o \in places : Earlier(o, p) <=> o = at[r] \/ Earlier(o, at[r])
  BY <1>1, <1>2, PlacesAreOrdered, Neighbours DEF Kept
<1>5. Ranges' /\ Others(r) /\ at'[r] = p
  BY <1>1, <1>2, <1>3, <1>4 DEF Ranges, Others, Transaction
<1>6. Inside(r)' <=> at[r].handler = "TenantTx" \/ Inside(r)
  BY <1>3, <1>4, <1>5 DEF Inside
<1>7. tx'[r] = IF at[r].handler = "TenantTx" THEN "open" ELSE tx[r]
  BY <1>1 DEF Ranges
<1>8. Kept(r)'
  BY <1>1, <1>3, <1>4, <1>5, <1>6, <1>7 DEF Kept
<1> QED BY <1>5, <1>8, StepKeeps

\* A handler that returns to the one that has called it.
LEMMA ReturnKeeps ==
  ASSUME RInv, NEW r \in Requests, phase[r] \in {"in", "out"},
         NEW s \in OnTheWay, NEW e \in {None, "404", "500", "panic"}, Return(r, s, e),
         tx' \in [Requests -> Transaction],
         logged' \in [Requests -> Status \cup {None}],
         ran' \in [Requests -> BOOLEAN],
         \A q \in Requests \ {r} : tx'[q] = tx[q] /\ ran'[q] = ran[q],
         tx'[r] \in {"open", "aborted", "left"} => tx[r] \in {"open", "aborted", "left"},
         ran'[r] => Permitted(msg[r]),
         Permitted(msg[r]) => ran'[r] \/ e = "500",
         e = "panic" => at[r].line > 38,
         IF Called(r) THEN tx'[r] \in {"open", "aborted"} ELSE Fits(s, e, tx'[r])
  PROVE  RInv'
<1> DEFINE places == Places(msg[r])
<1>1. Ranges /\ Kept(r)
  BY InvParts
<1>2. PICK p \in places : Follow(places, p, at[r]) /\ at' = [at EXCEPT ![r] = p]
  BY DEF Return
<1>3. /\ phase' = [phase EXCEPT ![r] = "out"] /\ status' = [status EXCEPT ![r] = s]
      /\ err' = [err EXCEPT ![r] = e] /\ msg' = msg
  BY DEF Return
<1>4. /\ at[r] \in places /\ p \in [line : 28..89, index : 1..4, handler : Handler]
      /\ \A o \in places : Earlier(o, at[r]) <=> o = p \/ Earlier(o, p)
  BY <1>1, <1>2, PlacesAreOrdered, Neighbours DEF Kept
<1>5. Ranges' /\ Others(r) /\ at'[r] = p /\ phase'[r] = "out" /\ status'[r] = s /\ err'[r] = e
  BY <1>1, <1>2, <1>3, <1>4 DEF Ranges, Others, OnTheWay, Status
<1>6. Inside(r)' <=> Called(r)
  BY <1>3, <1>4, <1>5 DEF Inside, Called
<1>7. e = "panic" => p.line >= 38
  <2> SUFFICES ASSUME e = "panic" PROVE p.line >= 38
    OBVIOUS
  <2>1. at[r].line > 38
    OBVIOUS
  <2> QED BY <1>2, <1>4, <2>1, AfterRecover
<1>8. msg[r] \in Sent
  BY <1>1 DEF Kept
<1>9. Kept(r)'
  BY <1>3, <1>5, <1>6, <1>7, <1>8 DEF Kept
<1> QED BY <1>5, <1>9, StepKeeps, NoMoreInUse

LEMMA InitInv == Init => RInv
<1> SUFFICES ASSUME Init PROVE RInv
  OBVIOUS
<1>1. Ranges
  BY DEF Init, Ranges, Status, Top, Handler, Transaction
<1>2. InUse = {}
  BY DEF Init, InUse, None
<1>3. IsFiniteSet(InUse) /\ Cardinality(InUse) <= MaxConns
  BY <1>2, FS_EmptySet, SentAssumption
<1>4. \A r \in Requests : Kept(r)
  BY DEF Init, Kept
<1> QED BY <1>1, <1>3, <1>4, InvParts

LEMMA SendKeeps ==
  ASSUME RInv, NEW r \in Requests, NEW m \in Sent, Send(r, m)
  PROVE  RInv'
<1>1. Ranges /\ Kept(r) /\ phase[r] = "idle"
  BY InvParts DEF Send
<1>2. PICK p \in Places(m) : Follow(Places(m), Top, p) /\ at' = [at EXCEPT ![r] = p]
  BY DEF Send
<1>3. /\ Top \in Places(m) /\ p \in [line : 28..89, index : 1..4, handler : Handler]
      /\ \A o \in Places(m) : Earlier(o, p) <=> o = Top \/ Earlier(o, Top)
  BY <1>2, Around, PlacesAreOrdered, Neighbours
<1>4. \A o \in Places(m) : ~Earlier(o, Top)
  <2> SUFFICES ASSUME NEW o \in Places(m), Earlier(o, Top) PROVE FALSE
    OBVIOUS
  <2>1. o.line \in 28..89 /\ o.index \in 1..4
    BY PlacesAreOrdered
  <2> QED BY <2>1 DEF Earlier, Top
<1>5. /\ Ranges' /\ Others(r) /\ at'[r] = p /\ msg'[r] = m /\ phase'[r] = "in"
      /\ UNCHANGED <<status, err, tx, logged, ran>>
  BY <1>1, <1>2, <1>3 DEF Send, Ranges, Others
<1>6. ~Inside(r)'
  BY <1>3, <1>4, <1>5 DEF Inside, Top
<1>7. Kept(r)'
  BY <1>1, <1>3, <1>4, <1>5, <1>6 DEF Kept, Passes, Top
<1> QED BY <1>5, <1>7, StepKeeps, NoMoreInUse

\* What is known of a request on its way in, and out.
LEMMA OnTheWayIn ==
  ASSUME RInv, NEW r \in Requests, phase[r] = "in"
  PROVE  /\ msg[r] \in Message /\ at[r] \in Places(msg[r])
         /\ \A p \in Places(msg[r]) : Earlier(p, at[r]) => Passes(p.handler, msg[r])
         /\ status[r] = "200" /\ err[r] = None /\ ~ran[r]
         /\ tx[r] = IF Called(r) THEN "open" ELSE None
<1>1. Kept(r) /\ (Inside(r) <=> Called(r))
  BY InvParts DEF Inside, Called
<1> QED BY <1>1, SentAssumption DEF Kept

LEMMA OnTheWayOut ==
  ASSUME RInv, NEW r \in Requests, phase[r] = "out"
  PROVE  /\ msg[r] \in Message /\ at[r] \in Places(msg[r])
         /\ status[r] \in OnTheWay
         /\ ran[r] => Permitted(msg[r])
         /\ Permitted(msg[r]) => ran[r] \/ err[r] = "500"
         /\ err[r] = "panic" => at[r].line >= 38
         /\ IF Called(r) \/ at[r].handler = "TenantTx" THEN tx[r] \in {"open", "aborted"}
            ELSE Fits(status[r], err[r], tx[r])
<1>1. Kept(r)
  BY InvParts
<1>2. at[r] \in Places(msg[r])
  BY <1>1 DEF Kept
<1>3. Inside(r) <=> Called(r) \/ at[r].handler = "TenantTx"
  BY <1>2 DEF Inside, Called
<1> QED BY <1>1, <1>2, <1>3, SentAssumption DEF Kept

\* The types of what a step may leave as it is.
LEMMA Unchanged ==
  ASSUME RInv
  PROVE  /\ tx \in [Requests -> Transaction]
         /\ logged \in [Requests -> Status \cup {None}]
         /\ ran \in [Requests -> BOOLEAN]
         /\ err \in [Requests -> {None, "404", "500", "panic"}]
         /\ status \in [Requests -> Status]
BY InvParts DEF Ranges

LEMMA EnterKeeps ==
  ASSUME RInv, NEW r \in Requests, Enter(r)
  PROVE  RInv'
<1>1. phase[r] = "in" /\ at[r].handler \in {"requestLogger", "recover"}
  BY DEF Enter, Turn
<1>2. Deeper(r) /\ err' = err /\ tx' = tx
  BY DEF Enter
<1>3. tx' = [tx EXCEPT ![r] = IF at[r].handler = "TenantTx" THEN "open" ELSE tx[r]]
  BY <1>1, <1>2, Unchanged
<1>4. Others(r)
  BY <1>2, InvParts DEF Deeper, Others, Ranges
<1> QED BY <1>1, <1>2, <1>3, <1>4, DeeperKeeps, NoMoreInUse DEF Passes

\* Who is refused is told so, and the table does not let them in.
LEMMA RefusalKeeps ==
  ASSUME RInv, NEW r \in Requests, phase[r] = "in",
         at[r].handler \in {"AuthRequired", "member", "admin"},
         ~Passes(at[r].handler, msg[r]),
         NEW s \in {"401", "403"}, Return(r, s, None), UNCHANGED <<tx, logged, ran>>
  PROVE  RInv'
<1>1. ~Permitted(msg[r])
  BY OnTheWayIn, RefusedIsNotPermitted DEF Passes
<1>2. ~ran[r] /\ tx[r] = IF Called(r) THEN "open" ELSE None
  BY OnTheWayIn
<1> QED BY <1>1, <1>2, ReturnKeeps, Unchanged DEF OnTheWay, None, Fits

LEMMA AuthRequiredKeeps ==
  ASSUME RInv, NEW r \in Requests, AuthRequired(r)
  PROVE  RInv'
<1>1. phase[r] = "in" /\ at[r].handler = "AuthRequired" /\ tx' = tx
  BY DEF AuthRequired, Turn
<1>2. CASE msg[r].role = None
  BY <1>1, <1>2, RefusalKeeps DEF AuthRequired, Passes
<1>3. CASE msg[r].role # None
  <2>1. Deeper(r) /\ err' = err /\ Passes(at[r].handler, msg[r])
    BY <1>1, <1>3 DEF AuthRequired, Passes
  <2>2. tx' = [tx EXCEPT ![r] = IF at[r].handler = "TenantTx" THEN "open" ELSE tx[r]]
    BY <1>1, Unchanged
  <2>3. Others(r)
    BY <1>1, <2>1, InvParts DEF Deeper, Others, Ranges
  <2> QED BY <1>1, <2>1, <2>2, <2>3, DeeperKeeps, NoMoreInUse
<1> QED BY <1>2, <1>3

LEMMA RequireRoleKeeps ==
  ASSUME RInv, NEW r \in Requests, RequireRole(r)
  PROVE  RInv'
<1>1. PICK need \in {"member", "admin"} :
        /\ Turn(r, "in", need)
        /\ IF RoleAtLeast(msg[r].role, need) THEN Deeper(r) /\ UNCHANGED err
           ELSE Return(r, "403", None) /\ UNCHANGED <<logged, ran>>
  BY DEF RequireRole
<1>2. phase[r] = "in" /\ at[r].handler = need /\ tx' = tx
  BY <1>1 DEF RequireRole, Turn
<1>3. CASE ~RoleAtLeast(msg[r].role, need)
  BY <1>1, <1>2, <1>3, RefusalKeeps DEF Passes
<1>4. CASE RoleAtLeast(msg[r].role, need)
  <2>1. Deeper(r) /\ err' = err /\ Passes(at[r].handler, msg[r])
    BY <1>1, <1>2, <1>4 DEF Passes
  <2>2. tx' = [tx EXCEPT ![r] = IF at[r].handler = "TenantTx" THEN "open" ELSE tx[r]]
    BY <1>2, Unchanged
  <2>3. Others(r)
    BY <1>2, <2>1, InvParts DEF Deeper, Others, Ranges
  <2> QED BY <1>2, <2>1, <2>2, <2>3, DeeperKeeps, NoMoreInUse
<1> QED BY <1>3, <1>4

\* Where the handlers are that every request meets.
LEMMA Whereabouts ==
  ASSUME RInv, NEW r \in Requests, phase[r] \in {"in", "out"}
  PROVE  /\ at[r].handler = "errorHandler" => at[r].line = 28 /\ at[r].index = 1
         /\ at[r].handler = "requestLogger" => at[r].line = 37
         /\ at[r].handler = "NotFound" => at[r].line = 89
         /\ at[r].handler \notin {"errorHandler", "requestLogger", "recover"} => at[r].line > 38
<1>1. at[r] \in Places(msg[r])
  BY OnTheWayIn, OnTheWayOut
<1>2. at[r].line \in 28..89
  BY <1>1, PlacesAreOrdered
<1> QED BY <1>1, <1>2, Around

\* A connection is taken from the pool.
LEMMA BeginKeeps ==
  ASSUME RInv, NEW r \in Requests, Begin(r)
  PROVE  RInv'
<1>1. /\ phase[r] = "in" /\ at[r].handler = "TenantTx" /\ Deeper(r) /\ err' = err
      /\ tx' = [tx EXCEPT ![r] = "open"] /\ Cardinality(InUse) < MaxConns
  BY DEF Begin, Turn
<1>2. InUse' = InUse \cup {r}
  BY <1>1, Unchanged DEF InUse
<1>3. IsFiniteSet(InUse) /\ Cardinality(InUse) \in Nat
  BY InvParts, FS_CardinalityType
<1>4. /\ IsFiniteSet(InUse')
      /\ Cardinality(InUse') = IF r \in InUse THEN Cardinality(InUse) ELSE Cardinality(InUse) + 1
  BY <1>2, <1>3, FS_AddElement
<1>5. Cardinality(InUse') <= MaxConns
  BY <1>1, <1>3, <1>4, SentAssumption
<1>6. Passes(at[r].handler, msg[r])
  BY <1>1 DEF Passes
<1> QED BY <1>1, <1>4, <1>5, <1>6, DeeperKeeps

\* TenantTx has not been called by another of its kind.
LEMMA NotCalledTwice ==
  ASSUME NEW r, at[r] \in Places(msg[r]), at[r].handler = "TenantTx"
  PROVE  ~Called(r)
<1> SUFFICES ASSUME NEW p \in Places(msg[r]), p.handler = "TenantTx", Earlier(p, at[r])
             PROVE  FALSE
  BY DEF Called
<1>1. p = at[r]
  BY OneTransaction
<1>2. p.line \in 28..89 /\ p.index \in 1..4
  BY PlacesAreOrdered
<1> QED BY <1>1, <1>2 DEF Earlier

LEMMA BeginFailsKeeps ==
  ASSUME RInv, NEW r \in Requests, BeginFails(r)
  PROVE  RInv'
<1>1. phase[r] = "in" /\ at[r].handler = "TenantTx" /\ UNCHANGED <<logged, ran>>
  BY DEF BeginFails, Turn
<1>2. ~Called(r) /\ tx[r] = None /\ ~ran[r] /\ status[r] = "200"
  BY <1>1, OnTheWayIn, NotCalledTwice
<1>3. Return(r, "200", "500")
  BY <1>2 DEF BeginFails
<1>4. tx' = tx \/ tx' = [tx EXCEPT ![r] = "rolled back"]
  BY DEF BeginFails
<1>5. /\ tx' \in [Requests -> Transaction]
      /\ tx'[r] \in {None, "rolled back"}
      /\ \A q \in Requests \ {r} : tx'[q] = tx[q]
  BY <1>2, <1>4, Unchanged DEF Transaction, None
<1> QED BY <1>1, <1>2, <1>3, <1>5, ReturnKeeps, Unchanged DEF OnTheWay, None, Fits

LEMMA HandleKeeps ==
  ASSUME RInv, NEW r \in Requests, Handle(r)
  PROVE  RInv'
<1>1. phase[r] = "in" /\ at[r].handler = "handle" /\ logged' = logged
  BY DEF Handle, Turn
<1>2. PICK s \in {"200", "4xx"}, e \in {None, "500", "panic"} : Return(r, s, e)
  BY <1>1, OnTheWayIn DEF Handle
<1>3. ran' = [ran EXCEPT ![r] = TRUE]
  BY DEF Handle
<1>4. tx' = tx \/ tx' = [tx EXCEPT ![r] = IF @ = "open" THEN "aborted" ELSE @]
  BY DEF Handle
<1>5. /\ tx' \in [Requests -> Transaction]
      /\ tx'[r] \in IF Called(r) THEN {"open", "aborted"} ELSE {None}
      /\ tx[r] = IF Called(r) THEN "open" ELSE None
      /\ \A q \in Requests \ {r} : tx'[q] = tx[q]
  BY <1>1, <1>4, Unchanged, OnTheWayIn DEF None, Transaction
<1>6. Permitted(msg[r])
  BY <1>1, OnTheWayIn, ServedIsPermitted
<1>7. at[r].line > 38
  BY <1>1, Whereabouts
<1>8. /\ ran' \in [Requests -> BOOLEAN] /\ ran'[r]
      /\ \A q \in Requests \ {r} : ran'[q] = ran[q]
  BY <1>3, Unchanged
<1> QED BY <1>1, <1>2, <1>5, <1>6, <1>7, <1>8, ReturnKeeps, Unchanged DEF OnTheWay, None, Fits

\* Who waits for the mail server keeps its connection, and takes no other.
LEMMA HangKeeps ==
  ASSUME RInv, NEW r \in Requests, Hang(r)
  PROVE  RInv'
<1>1. /\ phase[r] = "in" /\ phase' = [phase EXCEPT ![r] = "hung"]
      /\ UNCHANGED <<msg, at, status, err, tx, logged, ran>>
  BY DEF Hang, Turn
<1>2. Ranges /\ Kept(r) /\ IsFiniteSet(InUse) /\ Cardinality(InUse) <= MaxConns
  BY InvParts
<1>3. Ranges' /\ Others(r) /\ phase'[r] = "hung" /\ InUse' = InUse
  BY <1>1, <1>2 DEF Ranges, Others, InUse
<1>4. Kept(r)'
  BY <1>1, <1>2, <1>3 DEF Kept
<1> QED BY <1>2, <1>3, <1>4, StepKeeps

LEMMA NotFoundKeeps ==
  ASSUME RInv, NEW r \in Requests, NotFound(r)
  PROVE  RInv'
<1>1. /\ phase[r] = "in" /\ at[r].handler = "NotFound" /\ UNCHANGED <<tx, logged, ran>>
      /\ Return(r, status[r], "404")
  BY DEF NotFound, Turn
<1>2. /\ at[r] \in Places(msg[r]) /\ at[r].line = 89 /\ status[r] = "200" /\ ~ran[r]
      /\ \A p \in Places(msg[r]) : Earlier(p, at[r]) => Passes(p.handler, msg[r])
      /\ tx[r] = IF Called(r) THEN "open" ELSE None
  BY <1>1, OnTheWayIn, Whereabouts
<1>3. ~Permitted(msg[r])
  <2> SUFFICES ASSUME NEW p \in Places(msg[r]), p.handler = "handle", p.line < 89
               PROVE  FALSE
    BY PermittedIsRouted
  <2> QED BY <1>2 DEF Earlier, Passes
<1> QED BY <1>1, <1>2, <1>3, ReturnKeeps, Unchanged DEF OnTheWay, None, Fits

\* A handler that hands on what has come back to it.
LEMMA HandsOn ==
  ASSUME RInv, NEW r \in Requests, phase[r] = "out", at[r].handler # "TenantTx",
         err[r] = "panic" => at[r].line > 38,
         Return(r, status[r], err[r]), UNCHANGED <<tx, ran>>,
         logged' \in [Requests -> Status \cup {None}]
  PROVE  RInv'
<1>1. /\ status[r] \in OnTheWay
      /\ ran[r] => Permitted(msg[r])
      /\ Permitted(msg[r]) => ran[r] \/ err[r] = "500"
      /\ IF Called(r) THEN tx[r] \in {"open", "aborted"} ELSE Fits(status[r], err[r], tx[r])
  BY OnTheWayOut
<1>2. err[r] \in {None, "404", "500", "panic"}
  BY Unchanged
<1> QED BY <1>1, <1>2, ReturnKeeps, Unchanged

LEMMA LeaveKeeps ==
  ASSUME RInv, NEW r \in Requests, Leave(r)
  PROVE  RInv'
<1>1. /\ phase[r] = "out" /\ at[r].handler \in {"AuthRequired", "member", "admin"}
      /\ Return(r, status[r], err[r]) /\ UNCHANGED <<tx, logged, ran>>
  BY DEF Leave, Turn
<1> QED BY <1>1, HandsOn, Whereabouts, Unchanged

LEMMA EndKeeps ==
  ASSUME RInv, NEW r \in Requests, End(r)
  PROVE  RInv'
<1>1. phase[r] = "out" /\ at[r].handler = "TenantTx" /\ UNCHANGED <<logged, ran>>
  BY DEF End, Turn
<1>2. ~Called(r) /\ tx[r] \in {"open", "aborted"} /\ status[r] \in OnTheWay
  BY <1>1, OnTheWayOut, NotCalledTwice
<1>3. at[r].line > 38
  BY <1>1, Whereabouts
<1>4. (ran[r] => Permitted(msg[r])) /\ (Permitted(msg[r]) => ran[r] \/ err[r] = "500")
  BY <1>1, OnTheWayOut
<1> DEFINE Becomes(t) ==
      /\ tx' \in [Requests -> Transaction]
      /\ tx'[r] = t /\ \A q \in Requests \ {r} : tx'[q] = tx[q]
<1>5. ASSUME NEW t \in Transaction, tx' = [tx EXCEPT ![r] = t] PROVE Becomes(t)
  BY <1>5, Unchanged
<1>6. CASE err[r] = "panic" /\ tx' = [tx EXCEPT ![r] = "left"] /\ Return(r, status[r], err[r])
  <2>1. Becomes("left")
    BY <1>5, <1>6 DEF Transaction
  <2>2. Return(r, status[r], "panic") /\ tx[r] \in {"open", "aborted", "left"}
    BY <1>2, <1>6
  <2>3. Fits(status[r], "panic", tx'[r])
    BY <2>1 DEF Fits, None
  <2>4. Permitted(msg[r]) => ran[r]
    BY <1>4, <1>6
  <2>5. UNCHANGED <<logged, ran>> /\ "panic" # None
    BY <1>1 DEF None
  <2> QED BY <1>1, <1>2, <1>3, <1>4, <2>1, <2>2, <2>3, <2>4, <2>5, ReturnKeeps, Unchanged
<1>7. CASE /\ err[r] \in {"404", "500"}
           /\ tx' = [tx EXCEPT ![r] = "rolled back"] /\ Return(r, status[r], err[r])
  <2>1. Becomes("rolled back")
    BY <1>5, <1>7 DEF Transaction
  <2>2. PICK e \in {"404", "500"} : e = err[r] /\ Return(r, status[r], e)
    BY <1>7
  <2>3. Permitted(msg[r]) => ran[r] \/ e = "500"
    BY <1>4, <2>2
  <2> QED BY <1>1, <1>2, <1>4, <2>1, <2>2, <2>3, ReturnKeeps, Unchanged DEF None, Fits
<1>8. CASE err[r] = None /\ Commit(r)
  <2>1. CASE tx' = [tx EXCEPT ![r] = "committed"] /\ Return(r, status[r], None)
    <3>1. Becomes("committed")
      BY <1>5, <2>1 DEF Transaction
    <3> QED BY <1>1, <1>2, <1>4, <1>8, <2>1, <3>1, ReturnKeeps, Unchanged DEF None, Fits
  <2>2. ASSUME NEW t \in {"rolled back", "unanswered"}, tx' = [tx EXCEPT ![r] = t],
               Return(r, status[r], IF status[r] \in {"4xx", "403"} THEN None ELSE "500")
        PROVE  RInv'
    <3>1. Becomes(t)
      BY <1>5, <2>2 DEF Transaction
    <3>2. CASE status[r] \in {"4xx", "403"}
      <4>1. Return(r, status[r], None)
        BY <2>2, <3>2
      <4> QED BY <1>1, <1>2, <1>4, <1>8, <3>1, <3>2, <4>1, ReturnKeeps, Unchanged DEF None, Fits
    <3>3. CASE status[r] \notin {"4xx", "403"}
      <4>1. Return(r, status[r], "500")
        BY <2>2, <3>3
      <4> QED BY <1>1, <1>2, <1>4, <3>1, <4>1, ReturnKeeps, Unchanged DEF None, Fits
    <3> QED BY <3>2, <3>3
  <2> QED BY <1>8, <2>1, <2>2 DEF Commit
<1> QED BY <1>6, <1>7, <1>8 DEF End

LEMMA RecoverKeeps ==
  ASSUME RInv, NEW r \in Requests, Recover(r)
  PROVE  RInv'
<1>1. /\ phase[r] = "out" /\ at[r].handler = "recover" /\ UNCHANGED <<tx, logged, ran>>
      /\ Return(r, status[r], IF err[r] = "panic" THEN "500" ELSE err[r])
  BY DEF Recover, Turn
<1>2. PICK e \in {None, "404", "500"} :
        /\ Return(r, status[r], e)
        /\ e = IF err[r] = "panic" THEN "500" ELSE err[r]
  BY <1>1, Unchanged DEF None
<1>3. IF Called(r) THEN tx[r] \in {"open", "aborted"} ELSE Fits(status[r], err[r], tx[r])
  BY <1>1, OnTheWayOut
<1>4. /\ status[r] \in OnTheWay
      /\ ran[r] => Permitted(msg[r])
      /\ Permitted(msg[r]) => ran[r] \/ err[r] = "500"
  BY <1>1, OnTheWayOut
<1> QED BY <1>1, <1>2, <1>3, <1>4, ReturnKeeps, Unchanged DEF None, Fits

LEMMA LoggerKeeps ==
  ASSUME RInv, NEW r \in Requests, requestLogger(r)
  PROVE  RInv'
<1>1. /\ phase[r] = "out" /\ at[r].handler = "requestLogger" /\ UNCHANGED <<tx, ran>>
      /\ Return(r, status[r], err[r]) /\ logged' = [logged EXCEPT ![r] = status[r]]
  BY DEF requestLogger, Turn
<1>2. err[r] # "panic"
  BY <1>1, OnTheWayOut, Whereabouts
<1>3. logged' \in [Requests -> Status \cup {None}]
  BY <1>1, Unchanged
<1> QED BY <1>1, <1>2, <1>3, HandsOn

LEMMA ErrorHandlerKeeps ==
  ASSUME RInv, NEW r \in Requests, errorHandler(r)
  PROVE  RInv'
<1>1. /\ phase[r] = "out" /\ at[r].handler = "errorHandler"
      /\ status' = [status EXCEPT ![r] = IF err[r] = None THEN @ ELSE err[r]]
      /\ phase' = [phase EXCEPT ![r] = "answered"]
      /\ UNCHANGED <<msg, at, err, tx, logged, ran>>
  BY DEF errorHandler, Turn
<1>2. at[r] \in Places(msg[r]) /\ at[r].line = 28 /\ at[r].index = 1
  BY <1>1, OnTheWayOut, Whereabouts
<1>3. ~Called(r)
  <2> SUFFICES ASSUME NEW p \in Places(msg[r]), Earlier(p, at[r]) PROVE FALSE
    BY DEF Called
  <2>1. p.line \in 28..89 /\ p.index \in 1..4
    BY PlacesAreOrdered
  <2> QED BY <1>2, <2>1 DEF Earlier
<1>4. Ranges /\ Kept(r) /\ IsFiniteSet(InUse) /\ Cardinality(InUse) <= MaxConns
  BY InvParts
<1>5. err[r] \in {None, "404", "500"}
  <2>1. err[r] # "panic"
    BY <1>1, <1>2, OnTheWayOut
  <2> QED BY <2>1, Unchanged
<1>6. Ranges' /\ Others(r) /\ status'[r] = (IF err[r] = None THEN status[r] ELSE err[r])
      /\ phase'[r] = "answered"
  BY <1>1, <1>4, <1>5 DEF Ranges, Others, Status, None
<1>7. Kept(r)'
  BY <1>1, <1>2, <1>3, <1>4, <1>5, <1>6, OnTheWayOut DEF Kept, OnTheWay, None, Fits
<1>8. InUse' = InUse
  BY <1>1 DEF InUse
<1> QED BY <1>4, <1>6, <1>7, <1>8, StepKeeps

LEMMA RouterKept == RInv /\ [Next]_vars => RInv'
<1>1. ASSUME RInv, Next PROVE RInv'
  BY <1>1, SendKeeps, EnterKeeps, AuthRequiredKeeps, BeginKeeps, BeginFailsKeeps, RequireRoleKeeps,
     HandleKeeps, HangKeeps, NotFoundKeeps, LeaveKeeps, EndKeeps, RecoverKeeps, LoggerKeeps, ErrorHandlerKeeps
     DEF Next, Step
<1>2. ASSUME RInv, UNCHANGED vars PROVE RInv'
  BY <1>2 DEF vars, RInv, TypeOK, InUse, Unsent, WayIn, WayOut, Inside, TableIsEnforced,
              AnswerTellsOutcome
<1> QED BY <1>1, <1>2

\* The invariant of the requests on their way: what each has passed, what TenantTx has
\* begun around it, and how what it returns fits what became of its transaction.
THEOREM RouterInductive == Spec => []RInv
BY InitInv, RouterKept, PTL DEF Spec

\* Every variable stays in its range, a request is at a handler that its method and path
\* match, and no more transactions are open than the pool has connections.
THEOREM RouterTypesHold == Spec => []TypeOK
<1>1. RInv => TypeOK
  BY DEF RInv
<1> QED BY <1>1, RouterInductive, PTL

\* What http.go registers does what README.md's table says, for any number of requests
\* of any kind at once: a handler runs for those the table lets in and for them only, and
\* they are turned away by an error of the database alone.
THEOREM TableHolds == Spec => []TableIsEnforced
<1>1. RInv => TableIsEnforced
  BY DEF RInv
<1> QED BY <1>1, RouterInductive, PTL

\* middleware_tenant_tx.go:15: a 200 from behind TenantTx says that the transaction was
\* committed, and an error that it was not, or that COMMIT was and its answer lost; with
\* panics and failing statements anywhere.
THEOREM AnswersTell == Spec => []AnswerTellsOutcome
<1>1. RInv => AnswerTellsOutcome
  BY DEF RInv
<1> QED BY <1>1, RouterInductive, PTL

-----------------------------------------------------------------------------
(* The process: Lifecycle.                                                 *)

\* Main has not come to Listen, or will never.
Early == {"config", "connect", "starting", "fatal", "killed"}

LEMMA LifecycleInitInv == LifecycleInit => LInv
<1> SUFFICES ASSUME LifecycleInit PROVE LInv
  OBVIOUS
<1>1. IsFiniteSet(holders) /\ Cardinality(holders) = 0
  BY FS_EmptySet DEF LifecycleInit
<1>2. LifecycleTypeOK
  <2>1. /\ left \in [Incoming -> 0..MaxBouts]
        /\ Cardinality(holders) <= PoolSize
    BY <1>1, PoolAssumption DEF LifecycleInit
  <2> QED BY <2>1 DEF LifecycleInit, LifecycleTypeOK
<1> QED BY <1>1, <1>2 DEF LifecycleInit, LInv, NothingIsServedBeforeNotify, EndCutsNoTransaction, Over

-----------------------------------------------------------------------------
(* Main, the signals and the goroutine that waits for them.                *)

LEMMA MainKeeps ==
  ASSUME LInv, main \notin Over, Main
  PROVE  LInv'
<1>1. UNCHANGED work
  BY DEF Main, Load, Connect, Notify, Listen, ListenReturns, Close, Exit
<1>2. LifecycleTypeOK'
  BY DEF LInv, LifecycleTypeOK, Main, Load, Connect, Notify, Listen, ListenReturns, Close, Exit, work, Over
<1>3. NothingIsServedBeforeNotify'
  BY DEF LInv, LifecycleTypeOK, NothingIsServedBeforeNotify, Main, Load, Connect, Notify, Listen,
         ListenReturns, Close, Exit, work
<1>4. EndCutsNoTransaction'
  BY DEF LInv, NothingIsServedBeforeNotify, EndCutsNoTransaction, Over, Main, Load, Connect,
         Notify, Listen, ListenReturns, Close, Exit, work
<1> QED BY <1>1, <1>2, <1>3, <1>4 DEF LInv, work

LEMMA SignalKeeps ==
  ASSUME LInv, main \notin Over, Signal
  PROVE  LInv'
<1>1. UNCHANGED <<listener, pool, stopper, pc, left, holders>>
  BY DEF Signal, work
<1>2. LifecycleTypeOK'
  BY <1>1 DEF LInv, LifecycleTypeOK, Signal, Over
<1>3. NothingIsServedBeforeNotify' /\ EndCutsNoTransaction'
  BY <1>1 DEF LInv, NothingIsServedBeforeNotify, EndCutsNoTransaction, Signal, Over
<1> QED BY <1>1, <1>2, <1>3 DEF LInv

LEMMA StopperKeeps ==
  ASSUME LInv, main \notin Over, Stopper
  PROVE  LInv'
<1>1. UNCHANGED <<main, pool, pc, left, holders>>
  BY DEF Stopper, TakeSignal, Shutdown, ShutdownReturns, work
<1>2. /\ stopper # "none" /\ stopper' \in {"stopping", "draining", "done"}
      /\ quit' \in BOOLEAN /\ listener' \in {"none", "open", "closed"}
  BY DEF LInv, LifecycleTypeOK, Stopper, TakeSignal, Shutdown, ShutdownReturns
<1>3. LifecycleTypeOK'
  BY <1>1, <1>2 DEF LInv, LifecycleTypeOK
<1>4. NothingIsServedBeforeNotify' /\ EndCutsNoTransaction'
  BY <1>1, <1>2 DEF LInv, NothingIsServedBeforeNotify, EndCutsNoTransaction
<1> QED BY <1>1, <1>3, <1>4 DEF LInv

-----------------------------------------------------------------------------
(* The requests and the ticker.                                            *)

\* While main is running and past Notify, the invariant is LifecycleTypeOK and a finite pool.
LEMMA WorkKeeps ==
  ASSUME LInv, main \notin Over, main \notin Early, UNCHANGED process,
         pc' \in [Incoming -> {"idle", "open", "answered", "panicked", "hung"}],
         left' \in [Incoming -> 0..MaxBouts],
         holders' \subseteq Incoming \cup {Pruner},
         IsFiniteSet(holders'), Cardinality(holders') <= PoolSize
  PROVE  LInv'
BY DEF LInv, LifecycleTypeOK, NothingIsServedBeforeNotify, EndCutsNoTransaction, process, Early

LEMMA AcceptKeeps ==
  ASSUME LInv, main \notin Over, NEW r \in Incoming, Accept(r)
  PROVE  LInv'
<1>1. main \notin Early
  BY DEF LInv, NothingIsServedBeforeNotify, Accept, Early
<1>2. /\ pc' \in [Incoming -> {"idle", "open", "answered", "panicked", "hung"}]
      /\ left' \in [Incoming -> 0..MaxBouts]
      /\ UNCHANGED <<process, holders>>
  BY PoolAssumption DEF LInv, LifecycleTypeOK, Accept
<1> QED BY <1>1, <1>2, WorkKeeps DEF LInv, LifecycleTypeOK

LEMMA AcquireKeeps ==
  ASSUME LInv, main \notin Over, NEW w \in Incoming \cup {Pruner}, Acquire(w)
  PROVE  LInv'
<1>1. main \notin Early
  BY DEF LInv, NothingIsServedBeforeNotify, Acquire, Wants, Early
<1>2. /\ IsFiniteSet(holders)
      /\ w \notin holders
      /\ w # Pruner => left[w] > 0
      /\ Cardinality(holders) < PoolSize
      /\ holders' = holders \cup {w}
      /\ left' = [r \in Incoming |-> IF r = w THEN left[r] - 1 ELSE left[r]]
      /\ UNCHANGED <<process, pc>>
  BY DEF LInv, Acquire, Wants
<1>3. /\ IsFiniteSet(holders') /\ Cardinality(holders') = Cardinality(holders) + 1
      /\ Cardinality(holders) \in Nat
  BY <1>2, FS_AddElement, FS_CardinalityType
<1>4. Cardinality(holders') <= PoolSize
  BY <1>2, <1>3, PoolAssumption
<1>5. left' \in [Incoming -> 0..MaxBouts]
  BY <1>2, PoolAssumption, PrunerAssumption DEF LInv, LifecycleTypeOK
<1> QED BY <1>1, <1>2, <1>3, <1>4, <1>5, WorkKeeps DEF LInv, LifecycleTypeOK

LEMMA ReleaseKeeps ==
  ASSUME LInv, main \notin Over, NEW w \in Incoming \cup {Pruner}, Release(w)
  PROVE  LInv'
<1>1. main \notin Early
  BY DEF LInv, NothingIsServedBeforeNotify, Release, Working, Early
<1>2. /\ IsFiniteSet(holders) /\ w \in holders /\ holders' = holders \ {w}
      /\ left' \in [Incoming -> 0..MaxBouts]
      /\ UNCHANGED <<process, pc>>
  BY PoolAssumption DEF LInv, LifecycleTypeOK, Release, Working
<1>3. /\ IsFiniteSet(holders') /\ Cardinality(holders') = Cardinality(holders) - 1
      /\ Cardinality(holders) \in Nat
  BY <1>2, FS_RemoveElement, FS_CardinalityType
<1>4. Cardinality(holders') <= PoolSize
  BY <1>3, PoolAssumption DEF LInv, LifecycleTypeOK
<1> QED BY <1>1, <1>2, <1>3, <1>4, WorkKeeps DEF LInv, LifecycleTypeOK

\* A panic and a mail that hangs leave the pool as it is.
LEMMA StayKeeps ==
  ASSUME LInv, main \notin Over, NEW r \in Incoming, Panics(r) \/ MailHangs(r)
  PROVE  LInv'
<1>1. main \notin Early
  BY DEF LInv, NothingIsServedBeforeNotify, Panics, MailHangs, Working, Early
<1>2. /\ pc' \in [Incoming -> {"idle", "open", "answered", "panicked", "hung"}]
      /\ UNCHANGED <<process, left, holders>>
  BY DEF LInv, LifecycleTypeOK, Panics, MailHangs
<1> QED BY <1>1, <1>2, WorkKeeps DEF LInv, LifecycleTypeOK

LEMMA RequestKeeps ==
  ASSUME LInv, main \notin Over, NEW r \in Incoming, Request(r)
  PROVE  LInv'
<1>1. CASE Release(r)
  BY <1>1, ReleaseKeeps
<1>2. CASE AcquireFails(r) \/ Answer(r)
  <2>1. main \notin Early
    BY <1>2 DEF LInv, NothingIsServedBeforeNotify, AcquireFails, Answer, Wants, Early,
                PrunerAssumption
  <2>2. /\ pc' \in [Incoming -> {"idle", "open", "answered", "panicked", "hung"}]
        /\ left' \in [Incoming -> 0..MaxBouts]
        /\ UNCHANGED <<process, holders>>
    BY <1>2, PoolAssumption DEF LInv, LifecycleTypeOK, AcquireFails, Answer
  <2> QED BY <2>1, <2>2, WorkKeeps DEF LInv, LifecycleTypeOK
<1> QED BY <1>1, <1>2 DEF Request

-----------------------------------------------------------------------------

LEMMA LifecycleKept == LInv /\ [LifecycleNext]_lifecycleVars => LInv'
<1>1. ASSUME LInv, LifecycleNext PROVE LInv'
  BY <1>1, MainKeeps, SignalKeeps, StopperKeeps, AcceptKeeps, AcquireKeeps, ReleaseKeeps,
     RequestKeeps, StayKeeps DEF LifecycleNext
<1>2. ASSUME LInv, UNCHANGED lifecycleVars PROVE LInv'
  BY <1>2 DEF lifecycleVars, LInv, LifecycleTypeOK, NothingIsServedBeforeNotify, EndCutsNoTransaction
<1> QED BY <1>1, <1>2

LEMMA LifecycleInductive == LifecycleSpec => []LInv
BY LifecycleInitInv, LifecycleKept, PTL DEF LifecycleSpec

\* Every variable stays in its range, and the pool within cfg.PoolSize, whatever the
\* number of requests.
THEOREM LifecycleTypesHold == LifecycleSpec => []LifecycleTypeOK
<1>1. LInv => LifecycleTypeOK
  BY DEF LInv
<1> QED BY <1>1, LifecycleInductive, PTL

\* However the process ends, by log.Fatalf, a signal before signal.Notify or the end of
\* main, nobody holds a connection then: no statement or transaction is cut in two.
THEOREM NothingCut == LifecycleSpec => []EndCutsNoTransaction
<1>1. LInv => EndCutsNoTransaction
  BY DEF LInv
<1> QED BY <1>1, LifecycleInductive, PTL

===============================================================================
