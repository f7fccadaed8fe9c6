---------------------------- MODULE AccountsProofs ----------------------------
(***************************************************************************)
(* Theorems about Accounts for every set of names, addresses, passwords    *)
(* and requests.                                                           *)
(***************************************************************************)
EXTENDS Accounts, FiniteSetTheorems, TLAPS

\* The messages, field by field.
LEMMA MessageFields ==
  ASSUME NEW m \in Message
  PROVE  /\ m.kind \in {"register", "login", "password", "email"}
         /\ m.kind = "register" => m.name \in Names /\ m.email \in Emails /\ m.password \in Passwords
         /\ m.kind = "password" => m.user \in Requests /\ m.new \in Passwords
         /\ m.kind = "email" => m.user \in Requests /\ m.email \in Emails
BY DEF Message

\* Whoever asks for something has sent it.
LEMMA AskFields ==
  ASSUME TypeOK, NEW r \in Requests, msg[r].kind \in {"register", "login", "password", "email"}
  PROVE  msg[r] \in Message
BY DEF TypeOK, NoMessage, None

LEMMA UserIds ==
  ASSUME NEW T, NEW u \in T
  PROVE  u.id \in Ids(T)
BY DEF Ids

\* Who is not past COMMIT has no user yet.
LEMMA NotYet ==
  ASSUME AInv, NEW r \in Requests, pc[r] \notin {"created", "201", "500"}
  PROVE  r \notin Ids(users) /\ \A u \in users : u.id # r
BY DEF AInv, UsersAreRegistered, Ids

-----------------------------------------------------------------------------
(* Steps that leave the users as they are.                                 *)

\* What makes the invariant survive a step of r to another place, by which tables other
\* than users and tenants may grow.
LEMMA PlaceKeeps ==
  ASSUME AInv, NEW r \in Requests, NEW to \in Pc, GoTo(r, to),
         UNCHANGED <<users, tenants, msg, overtook>>,
         sessions \subseteq sessions', sessions' \subseteq [user : Requests, by : Requests],
         members' \subseteq Requests, log' \subseteq Requests,
         found' \in [Requests -> Requests \cup {None}],
         \A q \in Requests : q # r => found'[q] = found[q],
         to \in {"known", "placed"} => found'[r] \in Ids(users),
         to = "created" /\ msg[r].kind = "register" => r \in Ids(users),
         to = "201" /\ msg[r].kind = "register" =>
           r \in Ids(users) /\ [user |-> r, by |-> r] \in sessions',
         r \in Ids(users) => to \in {"created", "201", "500"},
         to = "verified" /\ msg[r].kind = "password" =>
           \A u \in users : u.id = msg[r].user => Known(r, u),
         to # "idle"
  PROVE  AInv'
<1>1. pc' \in [Requests -> Pc] /\ \A q \in Requests : pc'[q] = IF q = r THEN to ELSE pc[q]
  BY DEF AInv, TypeOK, GoTo
<1>2. Ids(users)' = Ids(users) /\ Ids(tenants)' = Ids(tenants)
  BY DEF Ids
<1>3. TypeOK'
  BY <1>1, <1>2 DEF AInv, TypeOK
<1>4. RegisterIsAtomic'
  BY <1>1, <1>2 DEF AInv, RegisterIsAtomic, At
<1>5. UsersAreRegistered'
  <2>1. \A u \in users : u.id \in Requests /\ u.id \in Ids(users)
    BY UserIds DEF AInv, TypeOK
  <2> QED BY <1>1, <2>1 DEF AInv, UsersAreRegistered
<1>6. CreatedIsThere'
  BY <1>1, <1>2 DEF AInv, CreatedIsThere, At
<1>8. \A q \in Requests, u \in users : Known(q, u) => Known(q, u)'
  BY DEF Known
<1>9. VerifiedIsKnown'
  BY <1>1, <1>8 DEF AInv, VerifiedIsKnown, At
<1>10. AskersAreUsers' /\ OvertakersHaveSent'
  BY <1>1, <1>2 DEF AInv, AskersAreUsers, OvertakersHaveSent
<1> QED BY <1>3, <1>4, <1>5, <1>6, <1>9, <1>10 DEF AInv

\* A step that changes no table and comes before any COMMIT.
LEMMA TurnKeeps ==
  ASSUME AInv, NEW r \in Requests, NEW to \in Pc, Turn(r, to),
         pc[r] \notin {"created", "201", "500"},
         to \notin {"created", "201", "known", "verified", "idle"},
         to = "placed" => pc[r] = "known"
  PROVE  AInv'
<1>1. r \notin Ids(users)
  BY NotYet
<1> QED BY <1>1, PlaceKeeps DEF Turn, tables, AInv, TypeOK

LEMMA FailsKeeps ==
  ASSUME AInv, NEW r \in Requests, Fails(r)
  PROVE  AInv'
<1>1. {"401", "500"} \subseteq Pc
  BY DEF Pc, Reply
<1>2. CASE At(r, "sent", "login")
  BY <1>1, <1>2, TurnKeeps DEF Fails, At
<1>3. CASE ~At(r, "sent", "login")
  BY <1>1, <1>3, PlaceKeeps DEF Fails, Turn, tables, AInv, TypeOK
<1> QED BY <1>2, <1>3

LEMMA StoreKeeps ==
  ASSUME AInv, NEW r \in Requests, Store(r)
  PROVE  AInv'
<1>1. SessionUser(r) \in Requests /\ (msg[r].kind = "register" => SessionUser(r) = r)
  <2>1. CASE At(r, "placed", "login")
    BY <2>1, UserIds DEF At, AInv, TypeOK, Ids, SessionUser
  <2>2. CASE At(r, "created", "register")
    BY <2>2 DEF At, SessionUser
  <2> QED BY <2>1, <2>2 DEF Store
<1>2. /\ sessions' = sessions \cup {[user |-> SessionUser(r), by |-> r]}
      /\ UNCHANGED <<users, tenants, members, log, msg, found, overtook>>
  BY DEF Store
<1>3. PICK to \in {IF msg[r].kind = "login" THEN "200" ELSE "201", "500"} : GoTo(r, to)
  BY DEF Store
<1>4. to \in Pc /\ to \notin {"created", "known", "placed", "verified", "idle"}
  BY <1>3 DEF Pc, Reply
<1>5. msg[r].kind = "register" => r \in Ids(users)
  BY DEF Store, At, AInv, CreatedIsThere
<1>6. r \in Ids(users) => to \in {"created", "201", "500"}
  <2>1. CASE At(r, "placed", "login")
    BY <2>1, NotYet DEF At
  <2>2. CASE At(r, "created", "register")
    BY <2>2, <1>3 DEF At
  <2> QED BY <2>1, <2>2 DEF Store
<1>7. to = "201" /\ msg[r].kind = "register" => [user |-> r, by |-> r] \in sessions'
  BY <1>1, <1>2
<1> QED BY <1>1, <1>2, <1>3, <1>4, <1>5, <1>6, <1>7, PlaceKeeps DEF AInv, TypeOK

LEMMA FindUserKeeps ==
  ASSUME AInv, NEW r \in Requests, FindUser(r)
  PROVE  AInv'
<1>1. {"401", "known"} \subseteq Pc
  BY DEF Pc, Reply
<1>2. CASE Turn(r, "401")
  BY <1>1, <1>2, TurnKeeps DEF FindUser, At
<1>3. ASSUME NEW u \in users, GoTo(r, "known"), found' = [found EXCEPT ![r] = u.id],
             UNCHANGED <<tables, msg, overtook>>
      PROVE  AInv'
  <2>1. u.id \in Requests /\ u.id \in Ids(users)
    BY UserIds DEF AInv, TypeOK
  <2>2. r \notin Ids(users)
    BY NotYet DEF FindUser, At
  <2>3. /\ found' \in [Requests -> Requests \cup {None}] /\ found'[r] = u.id
        /\ \A q \in Requests : q # r => found'[q] = found[q]
    BY <1>3, <2>1 DEF AInv, TypeOK
  <2> QED BY <1>1, <1>3, <2>1, <2>2, <2>3, PlaceKeeps DEF tables, AInv, TypeOK
<1> QED BY <1>2, <1>3 DEF FindUser

LEMMA VerifyKeeps ==
  ASSUME AInv, NEW r \in Requests, VerifyCurrent(r)
  PROVE  AInv'
<1>1. PICK u \in users :
        /\ u.id = msg[r].user
        /\ Turn(r, IF u.password = msg[r].current THEN "verified" ELSE "401")
  BY DEF VerifyCurrent
<1>2. At(r, "sent", "password") /\ r \notin Ids(users)
  BY NotYet DEF VerifyCurrent, At
<1>3. {"401", "verified"} \subseteq Pc
  BY DEF Pc, Reply
<1>4. CASE u.password = msg[r].current
  <2>1. \A v \in users : v.id = msg[r].user => Known(r, v)
    BY <1>1, <1>4 DEF AInv, UsersAreRegistered, Known
  <2> QED BY <1>1, <1>2, <1>3, <1>4, <2>1, PlaceKeeps DEF Turn, tables, AInv, TypeOK
<1>5. CASE u.password # msg[r].current
  BY <1>1, <1>2, <1>3, <1>5, TurnKeeps DEF At
<1> QED BY <1>4, <1>5

LEMMA WriteAuditKeeps ==
  ASSUME AInv, NEW r \in Requests, WriteAuditDirect(r)
  PROVE  AInv'
<1>1. "204" \in Pc
  BY DEF Pc, Reply
<1>2. At(r, "changed", "password") /\ r \notin Ids(users)
  BY NotYet DEF WriteAuditDirect, At
<1> QED BY <1>1, <1>2, PlaceKeeps DEF WriteAuditDirect, AInv, TypeOK

-----------------------------------------------------------------------------
(* Steps that change the users.                                            *)

LEMMA CommitKeeps ==
  ASSUME AInv, NEW r \in Requests, Commit(r)
  PROVE  AInv'
<1> DEFINE new == [id |-> r, email |-> msg[r].email, password |-> msg[r].password]
           first == [id |-> r, name |-> msg[r].name, slug |-> slugify(msg[r].name)]
<1>1. /\ At(r, "membered", "register")
      /\ users' = users \cup {new} /\ tenants' = tenants \cup {first}
      /\ members' = members \cup {r}
      /\ UNCHANGED <<sessions, log, msg, found, overtook>>
  BY DEF Commit
<1>2. PICK to \in {"created", "500"} : GoTo(r, to)
  BY DEF Commit
<1>3. /\ msg[r].name \in Names /\ msg[r].email \in Emails /\ msg[r].password \in Passwords
  BY <1>1, AskFields, MessageFields DEF At, AInv
<1>4. /\ pc' \in [Requests -> Pc]
      /\ \A q \in Requests : pc'[q] = IF q = r THEN to ELSE pc[q]
  BY <1>2 DEF AInv, TypeOK, GoTo, Pc, Reply
<1>5. Ids(users)' = Ids(users) \cup {r} /\ Ids(tenants)' = Ids(tenants) \cup {r}
  <2>1. new.id = r /\ first.id = r
    OBVIOUS
  <2> HIDE DEF new, first
  <2>2. Ids(users)' = Ids(users) \cup {r}
    BY <1>1, <2>1 DEF Ids
  <2>3. Ids(tenants)' = Ids(tenants) \cup {r}
    BY <1>1, <2>1 DEF Ids
  <2> QED BY <2>2, <2>3
<1>6. \A u \in users : u.id # r /\ u.id \in Requests
  BY <1>1, NotYet DEF At, AInv, TypeOK
<1>7. TypeOK'
  <2>1. new \in [id : Requests, email : Emails, password : Passwords]
    BY <1>3
  <2>2. first \in [id : Requests, name : Names, slug : Slugs]
    BY <1>3 DEF Slugs
  <2> QED BY <1>1, <1>2, <1>4, <1>5, <2>1, <2>2 DEF AInv, TypeOK
<1>8. RegisterIsAtomic'
  BY <1>1, <1>2, <1>4, <1>5 DEF AInv, RegisterIsAtomic, At
<1>9. UsersAreRegistered'
  <2>1. \A u \in users : msg[u.id].kind = "register" /\ pc'[u.id] \in {"created", "201", "500"}
    BY <1>4, <1>6 DEF AInv, UsersAreRegistered
  <2>2. msg[r].kind = "register" /\ pc'[r] \in {"created", "201", "500"}
    BY <1>1, <1>2, <1>4 DEF At
  <2> QED BY <1>1, <1>6, <2>1, <2>2 DEF AInv, UsersAreRegistered
<1>10. CreatedIsThere'
  BY <1>1, <1>4, <1>5 DEF AInv, CreatedIsThere, At
<1>11. VerifiedIsKnown'
  <2> SUFFICES ASSUME NEW q \in Requests, NEW u \in users',
                      At(q, "verified", "password"), u.id = msg[q].user
               PROVE  Known(q, u)'
    BY <1>1, <1>2, <1>4 DEF VerifiedIsKnown, At
  <2>2. u \in users
    <3>1. msg[q].user \in Ids(users)
      BY DEF AInv, AskersAreUsers, At
    <3>2. msg[q].user # r
      BY <1>6, <3>1 DEF Ids
    <3> QED BY <1>1, <3>2
  <2>3. Known(q, u)
    BY <2>2 DEF AInv, VerifiedIsKnown
  <2> QED BY <1>1, <2>3 DEF Known
<1>12. AskersAreUsers' /\ OvertakersHaveSent'
  BY <1>1, <1>2, <1>4, <1>5 DEF AInv, AskersAreUsers, OvertakersHaveSent
<1> QED BY <1>7, <1>8, <1>9, <1>10, <1>11, <1>12 DEF AInv

\* An UPDATE of one user's row, which keeps the id.
LEMMA UpdateKeeps ==
  ASSUME AInv, NEW r \in Requests, NEW to \in Pc, GoTo(r, to),
         UNCHANGED <<tenants, sessions, members, log, msg, found>>,
         overtook' \in SUBSET (Requests \X Requests),
         \A q, p \in Requests : <<q, p>> \in overtook' => <<q, p>> \in overtook \/ q = r,
         to \notin {"created", "201", "known", "placed", "verified", "idle"},
         r \notin Ids(users),
         NEW F \in [users -> [id : Requests, email : Emails, password : Passwords]],
         \A u \in users : F[u].id = u.id,
         users' = {F[u] : u \in users},
         \A q \in Requests, u \in users :
           q # r /\ At(q, "verified", "password") /\ u.id = msg[q].user /\ Known(q, u)
             => Known(q, F[u])'
  PROVE  AInv'
<1>1. /\ pc' \in [Requests -> Pc]
      /\ \A q \in Requests : pc'[q] = IF q = r THEN to ELSE pc[q]
  BY DEF AInv, TypeOK, GoTo
<1>2. Ids(users)' = Ids(users) /\ Ids(tenants)' = Ids(tenants)
  BY DEF Ids
<1>3. TypeOK'
  <2>1. users' \subseteq [id : Requests, email : Emails, password : Passwords]
    OBVIOUS
  <2> QED BY <1>1, <1>2, <2>1 DEF AInv, TypeOK
<1>4. RegisterIsAtomic'
  BY <1>1, <1>2 DEF AInv, RegisterIsAtomic, At
<1>5. UsersAreRegistered'
  <2>1. \A u \in users : u.id \in Requests /\ u.id # r
    BY UserIds DEF AInv, TypeOK
  <2> QED BY <1>1, <2>1 DEF AInv, UsersAreRegistered
<1>6. CreatedIsThere' /\ AskersAreUsers' /\ OvertakersHaveSent'
  BY <1>1, <1>2 DEF AInv, CreatedIsThere, AskersAreUsers, OvertakersHaveSent, At
<1>7. VerifiedIsKnown'
  <2> SUFFICES ASSUME NEW q \in Requests, NEW u \in users,
                      At(q, "verified", "password")', F[u].id = msg[q].user
               PROVE  Known(q, F[u])'
    BY DEF VerifiedIsKnown
  <2>1. q # r /\ At(q, "verified", "password") /\ u.id = msg[q].user
    BY <1>1 DEF At
  <2>2. Known(q, u)
    BY <2>1 DEF AInv, VerifiedIsKnown
  <2> QED BY <2>1, <2>2
<1> QED BY <1>3, <1>4, <1>5, <1>6, <1>7 DEF AInv

LEMMA UpdatePasswordKeeps ==
  ASSUME AInv, NEW r \in Requests, UpdatePassword(r)
  PROVE  AInv'
<1> PICK F : F = [u \in users |-> IF u.id = msg[r].user THEN [u EXCEPT !.password = msg[r].new] ELSE u]
  OBVIOUS
<1>1. At(r, "verified", "password") /\ UNCHANGED <<tenants, sessions, members, log, msg, found>>
  BY DEF UpdatePassword
<1>2. PICK to \in {"changed", "500"} : GoTo(r, to)
  BY DEF UpdatePassword
<1>3. to \in Pc /\ to \notin {"created", "201", "known", "placed", "verified", "idle"}
  BY <1>2 DEF Pc, Reply
<1>4. r \notin Ids(users)
  BY <1>1, NotYet DEF At
<1>5. msg[r].new \in Passwords
  BY <1>1, AskFields, MessageFields DEF At, AInv
<1>6. /\ F \in [users -> [id : Requests, email : Emails, password : Passwords]]
      /\ \A u \in users : F[u].id = u.id
      /\ \A u \in users : u.id = msg[r].user => F[u].password = msg[r].new
      /\ \A u \in users : u.id # msg[r].user => F[u].password = u.password
  BY <1>5 DEF AInv, TypeOK
<1>7. users' = {F[u] : u \in users}
  BY DEF UpdatePassword
<1>8. /\ overtook \subseteq overtook' /\ overtook' \in SUBSET (Requests \X Requests)
      /\ \A q, p \in Requests : <<q, p>> \in overtook' => <<q, p>> \in overtook \/ q = r
      /\ \A q \in Requests : q # r /\ At(q, "verified", "password") /\ msg[q].user = msg[r].user
           => <<r, q>> \in overtook'
  BY DEF UpdatePassword, Overtaken, AInv, TypeOK
<1>9. ASSUME NEW q \in Requests, NEW u \in users,
             q # r, At(q, "verified", "password"), u.id = msg[q].user, Known(q, u)
      PROVE  Known(q, F[u])'
  <2>1. CASE u.id = msg[r].user
    BY <1>1, <1>6, <1>8, <1>9, <2>1 DEF Known
  <2>2. CASE u.id # msg[r].user
    BY <1>1, <1>6, <1>8, <1>9, <2>2 DEF Known
  <2> QED BY <2>1, <2>2
<1>10. \A q \in Requests, u \in users :
         q # r /\ At(q, "verified", "password") /\ u.id = msg[q].user /\ Known(q, u)
           => Known(q, F[u])'
  BY <1>9
<1> QED BY <1>1, <1>2, <1>3, <1>4, <1>6, <1>7, <1>8, <1>10, UpdateKeeps, ZenonT(60)

LEMMA UpdateMeKeeps ==
  ASSUME AInv, NEW r \in Requests, UpdateMe(r)
  PROVE  AInv'
<1>1. At(r, "marked", "email") /\ r \notin Ids(users)
  BY NotYet DEF UpdateMe, At
<1>2. {"204", "409 email", "500"} \subseteq Pc
  BY DEF Pc, Reply
<1>3. CASE Turn(r, "409 email")
  BY <1>1, <1>2, <1>3, TurnKeeps DEF At
<1>4. ASSUME users' = {IF u.id = msg[r].user THEN [u EXCEPT !.email = msg[r].email] ELSE u : u \in users},
             NEW to \in {"204", "500"}, GoTo(r, to),
             UNCHANGED <<tenants, sessions, members, log, msg, found, overtook>>
      PROVE  AInv'
  <2> PICK F : F = [u \in users |-> IF u.id = msg[r].user THEN [u EXCEPT !.email = msg[r].email] ELSE u]
    OBVIOUS
  <2>1. msg[r].email \in Emails
    BY <1>1, AskFields, MessageFields DEF At, AInv
  <2>2. /\ F \in [users -> [id : Requests, email : Emails, password : Passwords]]
        /\ \A u \in users : F[u].id = u.id /\ F[u].password = u.password
    BY <2>1 DEF AInv, TypeOK
  <2>3. users' = {F[u] : u \in users}
    BY <1>4
  <2>4. \A q \in Requests, u \in users : Known(q, u) => Known(q, F[u])'
    BY <1>4, <2>2 DEF Known
  <2>5. overtook' \in SUBSET (Requests \X Requests) /\ overtook' = overtook
    BY <1>4 DEF AInv, TypeOK
  <2> QED BY <1>1, <1>2, <1>4, <2>2, <2>3, <2>4, <2>5, UpdateKeeps
<1> QED BY <1>3, <1>4 DEF UpdateMe

-----------------------------------------------------------------------------
(* The invariant.                                                          *)

LEMMA SendKeeps ==
  ASSUME AInv, NEW r \in Requests, NEW m \in Message, Send(r, m)
  PROVE  AInv'
<1>1. /\ pc[r] = "idle" /\ UNCHANGED <<tables, found, overtook>>
      /\ m.kind \in {"password", "email"} => m.user \in Ids(users)
      /\ pc' \in [Requests -> Pc] /\ msg' \in [Requests -> Message \cup {NoMessage}]
      /\ \A q \in Requests : pc'[q] = IF q = r THEN "sent" ELSE pc[q]
      /\ \A q \in Requests : msg'[q] = IF q = r THEN m ELSE msg[q]
  BY DEF Send, GoTo, AInv, TypeOK, Pc
<1>2. Ids(users)' = Ids(users) /\ Ids(tenants)' = Ids(tenants)
  BY <1>1 DEF Ids, tables
<1>3. \A u \in users : u.id # r /\ u.id \in Requests
  BY <1>1, NotYet DEF AInv, TypeOK
<1>4. TypeOK'
  BY <1>1, <1>2 DEF AInv, TypeOK, tables
<1>5. RegisterIsAtomic' /\ CreatedIsThere' /\ AskersAreUsers' /\ OvertakersHaveSent'
  BY <1>1, <1>2
     DEF AInv, RegisterIsAtomic, CreatedIsThere, AskersAreUsers, OvertakersHaveSent, At, tables
<1>6. UsersAreRegistered'
  BY <1>1, <1>3 DEF AInv, UsersAreRegistered, tables
<1>7. VerifiedIsKnown'
  <2>1. \A q \in Requests, u \in users : q # r /\ Known(q, u) => Known(q, u)'
    BY <1>1 DEF Known, AInv, TypeOK, OvertakersHaveSent
  <2> QED BY <1>1, <2>1 DEF AInv, VerifiedIsKnown, At, tables
<1> QED BY <1>4, <1>5, <1>6, <1>7 DEF AInv

LEMMA LeaveKeeps ==
  ASSUME AInv, NEW u \in Requests, Leave(u)
  PROVE  AInv'
<1>1. members' \subseteq members /\ UNCHANGED <<users, tenants, sessions, log, pc, msg, found, overtook>>
  BY DEF Leave
<1>2. Ids(users)' = Ids(users) /\ Ids(tenants)' = Ids(tenants)
  BY <1>1 DEF Ids
<1>3. /\ TypeOK' /\ RegisterIsAtomic' /\ UsersAreRegistered'
      /\ CreatedIsThere' /\ AskersAreUsers' /\ OvertakersHaveSent'
  BY <1>1, <1>2 DEF AInv, TypeOK, RegisterIsAtomic, UsersAreRegistered, CreatedIsThere,
                    AskersAreUsers, OvertakersHaveSent, At
<1>4. VerifiedIsKnown'
  BY <1>1 DEF AInv, VerifiedIsKnown, Known, At
<1> QED BY <1>3, <1>4 DEF AInv

\* The steps that read, or end with a refusal.
LEMMA ReadKeeps ==
  ASSUME AInv, NEW r \in Requests,
         BadRequest(r) \/ InsertTenant(r) \/ InsertUser(r) \/ InsertMember(r) \/ FindTenant(r)
           \/ MarkUser(r)
  PROVE  AInv'
<1> DEFINE To == {"400", "409 name", "409 email", "tenanted", "usered", "membered", "placed", "marked"}
<1>1. /\ pc[r] \notin {"created", "201", "500"}
      /\ \E to \in To : Turn(r, to) /\ (to = "placed" => pc[r] = "known")
  BY DEF BadRequest, InsertTenant, InsertUser, InsertMember, FindTenant, MarkUser, At
<1>2. To \subseteq Pc
  BY DEF Pc, Reply
<1> QED BY <1>1, <1>2, TurnKeeps

LEMMA InvariantKept == AInv /\ [Next]_vars => AInv'
<1> SUFFICES ASSUME AInv, [Next]_vars PROVE AInv'
  OBVIOUS
<1>1. ASSUME NEW r \in Requests, Step(r) PROVE AInv'
  BY <1>1, ReadKeeps, CommitKeeps, StoreKeeps, FindUserKeeps, VerifyKeeps, UpdatePasswordKeeps,
     WriteAuditKeeps, UpdateMeKeeps DEF Step
<1>2. CASE UNCHANGED vars
  <2>1. UNCHANGED <<users, tenants, sessions, members, log, pc, msg, found, overtook>>
    BY <1>2 DEF vars, tables
  <2>2. Ids(users)' = Ids(users) /\ Ids(tenants)' = Ids(tenants)
    BY <2>1 DEF Ids
  <2>3. TypeOK' /\ RegisterIsAtomic' /\ UsersAreRegistered'
    BY <2>1, <2>2 DEF AInv, TypeOK, RegisterIsAtomic, UsersAreRegistered, At
  <2>4. CreatedIsThere' /\ AskersAreUsers' /\ VerifiedIsKnown' /\ OvertakersHaveSent'
    BY <2>1, <2>2
       DEF AInv, CreatedIsThere, AskersAreUsers, VerifiedIsKnown, OvertakersHaveSent, Known, At
  <2> QED BY <2>3, <2>4 DEF AInv
<1> QED BY <1>1, <1>2, SendKeeps, FailsKeeps, LeaveKeeps DEF Next

LEMMA InvariantAtFirst == Init => AInv
BY NoneAssumption
   DEF Init, AInv, TypeOK, RegisterIsAtomic, UsersAreRegistered, CreatedIsThere, AskersAreUsers,
       VerifiedIsKnown, OvertakersHaveSent, Ids, At, NoMessage, None, Pc, Reply

\* The invariant holds at first and every step keeps it.
THEOREM Inductive == Spec => []AInv
BY InvariantAtFirst, InvariantKept, PTL DEF Spec

\* Logins that go on have found a user who exists, and rows keep their ranges.
THEOREM TypesHold == Spec => []TypeOK
BY Inductive, PTL DEF AInv

\* All of a registration is there or nothing, whatever fails and whoever competes.
THEOREM Registrations == Spec => []RegisterIsAtomic
BY Inductive, PTL DEF AInv

-----------------------------------------------------------------------------
(* Passwords and conflicts.                                                *)

\* Who replaces a password knew it, or knew the one it verified, which another change has
\* replaced since.
THEOREM PasswordsAreGuarded == Spec => ReplacedWasKnown
<1>1. AInv => \A r \in Requests, u \in users : Replaces(r, u) => Known(r, u)
  BY DEF AInv, VerifiedIsKnown, Replaces
<1> QED BY <1>1, Inductive, PTL DEF ReplacedWasKnown

LEMMA ConflictStep ==
  AInv /\ [Next]_vars =>
    [\A r \in Requests : pc'[r] # pc[r] =>
       /\ pc'[r] = "409 email" => \E u \in users : u.email = msg[r].email
       /\ pc'[r] = "409 name" => \E t \in tenants : t.slug = slugify(msg[r].name)]_vars
<1> DEFINE Cause(r) ==
      /\ pc'[r] = "409 email" => \E u \in users : u.email = msg[r].email
      /\ pc'[r] = "409 name" => \E t \in tenants : t.slug = slugify(msg[r].name)
<1> SUFFICES ASSUME AInv, Next, NEW r \in Requests, pc'[r] # pc[r] PROVE Cause(r)
  OBVIOUS
<1>0. pc \in [Requests -> Pc]
  BY DEF AInv, TypeOK
<1>1. ASSUME NEW q \in Requests, NEW to, GoTo(q, to) PROVE q = r /\ pc'[r] = to
  BY <1>1 DEF GoTo, AInv, TypeOK
<1>2. CASE InsertTenant(r) \/ InsertUser(r) \/ UpdateMe(r)
  <2>1. CASE InsertTenant(r)
    <3>1. CASE \E t \in tenants : t.slug = slugify(msg[r].name)
      <4>1. pc'[r] = "409 name"
        BY <1>0, <2>1, <3>1 DEF InsertTenant, Turn, GoTo
      <4> QED BY <3>1, <4>1
    <3>2. CASE ~\E t \in tenants : t.slug = slugify(msg[r].name)
      <4>1. pc'[r] = "tenanted"
        BY <1>0, <2>1, <3>2 DEF InsertTenant, Turn, GoTo
      <4> QED BY <4>1
    <3> QED BY <3>1, <3>2
  <2>2. CASE InsertUser(r)
    <3>1. CASE \E u \in users : u.email = msg[r].email
      <4>1. pc'[r] = "409 email"
        BY <1>0, <2>2, <3>1 DEF InsertUser, Turn, GoTo
      <4> QED BY <3>1, <4>1
    <3>2. CASE ~\E u \in users : u.email = msg[r].email
      <4>1. pc'[r] = "usered"
        BY <1>0, <2>2, <3>2 DEF InsertUser, Turn, GoTo
      <4> QED BY <4>1
    <3> QED BY <3>1, <3>2
  <2>3. CASE UpdateMe(r)
    <3>1. CASE \E u \in users : u.id # msg[r].user /\ u.email = msg[r].email
      <4>1. pc'[r] = "409 email"
        BY <1>0, <2>3, <3>1 DEF UpdateMe, Turn, GoTo
      <4> QED BY <3>1, <4>1
    <3>2. CASE ~\E u \in users : u.id # msg[r].user /\ u.email = msg[r].email
      <4>1. pc'[r] \in {"204", "500"}
        BY <1>0, <2>3, <3>2 DEF UpdateMe, GoTo
      <4> QED BY <4>1
    <3> QED BY <3>1, <3>2
  <2> QED BY <1>2, <2>1, <2>2, <2>3
<1>3. ASSUME NEW q \in Requests, NEW to, GoTo(q, to), to \notin {"409 email", "409 name"}
      PROVE  Cause(r)
  BY <1>1, <1>3
<1>4. ASSUME NEW q \in Requests, Step(q) \/ Fails(q) PROVE Cause(r)
  <2>1. CASE InsertTenant(q) \/ InsertUser(q) \/ UpdateMe(q)
    BY <1>1, <1>2, <2>1 DEF InsertTenant, InsertUser, UpdateMe, Turn
  <2>2. CASE ~(InsertTenant(q) \/ InsertUser(q) \/ UpdateMe(q))
    BY <1>3, <1>4, <2>2
       DEF Step, Fails, BadRequest, InsertMember, Commit, Store, FindUser, FindTenant,
           VerifyCurrent, UpdatePassword, WriteAuditDirect, MarkUser, Turn
  <2> QED BY <2>1, <2>2
<1>5. CASE \E q \in Requests, m \in Message : Send(q, m)
  BY <1>3, <1>5 DEF Send
<1>6. CASE \E u \in Requests : Leave(u)
  BY <1>6 DEF Leave
<1> QED BY <1>4, <1>5, <1>6 DEF Next

\* An address or slug that is refused is in a row that is committed.
THEOREM ConflictsAreReal == Spec => ConflictIsReal
BY Inductive, ConflictStep, PTL DEF Spec, ConflictIsReal

-----------------------------------------------------------------------------
(* Waiting.                                                                *)

\* Whoever is waited for is in a transaction; who has inserted its user waits for nobody,
\* and who has inserted its tenant only is waited for by those alone who hold nothing.
LEMMA WaitedFor ==
  ASSUME NEW r \in Requests, NEW q \in Requests, WaitsFor(r, q)
  PROVE  /\ pc[q] \in {"tenanted", "usered", "membered", "marked"}
         /\ pc[q] = "tenanted" => pc[r] = "sent"
         /\ pc[r] \notin {"usered", "membered"}
         /\ pc[r] = "marked" =>
              At(r, "marked", "email")
                /\ (pc[q] = "marked" => \E u \in users : u.id = msg[q].user /\ u.email = msg[r].email)
<1>1. pc[q] \in {"tenanted", "usered", "membered", "marked"} /\ (pc[q] = "tenanted" => pc[r] = "sent")
  BY DEF WaitsFor, HoldsSlug, HoldsEmail, HoldsUser, At
<1>2. pc[r] \notin {"usered", "membered"}
  BY DEF WaitsFor, At
<1>3. ASSUME pc[r] = "marked"
      PROVE  At(r, "marked", "email") /\ HoldsEmail(q, msg[r].email)
  BY <1>3 DEF WaitsFor, At
<1> QED BY <1>1, <1>2, <1>3 DEF HoldsEmail

\* Only users who exchange their addresses wait for one another in a circle.
THEOREM CirclesAreSwaps == Spec => []OnlySwapsWaitInCircles
<1>1. ASSUME NEW r \in Requests, NEW q \in Requests, WaitsFor(r, q) PROVE pc[q] \notin Reply
  BY <1>1, WaitedFor DEF Reply
<1>2. ASSUME AInv, NEW S \in SUBSET Requests, Circle(S)
      PROVE  /\ \A r \in S : At(r, "marked", "email")
             /\ {msg[r].email : r \in S} =
                  {u.email : u \in {v \in users : \E r \in S : v.id = msg[r].user}}
  <2>1. \A r \in S : (\E q \in S : WaitsFor(r, q)) /\ (\E q \in S : WaitsFor(q, r))
    BY <1>2 DEF Circle
  <2>2. ASSUME NEW r \in S PROVE pc[r] = "marked" /\ At(r, "marked", "email")
    <3>1. PICK q \in S : WaitsFor(q, r)
      BY <2>1
    <3>2. PICK p \in S : WaitsFor(p, q)
      BY <2>1
    <3>3. PICK o \in S : WaitsFor(r, o)
      BY <2>1
    <3> QED BY <3>1, <3>2, <3>3, WaitedFor
  <2>3. ASSUME NEW r \in S
        PROVE  \E u \in users : u.email = msg[r].email /\ \E q \in S : u.id = msg[q].user
    BY <2>1, <2>2, WaitedFor
  <2>4. ASSUME NEW u \in users, NEW r \in S, u.id = msg[r].user
        PROVE  \E q \in S : u.email = msg[q].email
    <3>1. PICK q \in S : WaitsFor(q, r)
      BY <2>1
    <3>2. PICK v \in users : v.id = msg[r].user /\ v.email = msg[q].email
      BY <2>2, <3>1, WaitedFor
    <3>3. u = v
      BY <1>2, <2>4, <3>2 DEF AInv, UsersAreRegistered
    <3> QED BY <3>2, <3>3
  <2>5. \A r \in S : At(r, "marked", "email")
    BY <2>2
  <2>6. {msg[r].email : r \in S} =
          {u.email : u \in {v \in users : \E r \in S : v.id = msg[r].user}}
    BY <2>3, <2>4
  <2> QED BY <2>5, <2>6
<1>3. AInv => OnlySwapsWaitInCircles
  BY <1>1, <1>2 DEF OnlySwapsWaitInCircles
<1> QED BY <1>3, Inductive, PTL

-----------------------------------------------------------------------------
(* slugify, for names of any length.                                       *)

\* Of some natural numbers one is the least.  Induction over the length of a name goes
\* by the least length that were an exception.
LEMMA LeastNumber ==
  ASSUME NEW T \in SUBSET Nat, NEW n \in T
  PROVE  \E m \in T : \A k \in T : m <= k
<1> DEFINE C == {0..m : m \in T}
<1>1. C \subseteq FiniteSubsetsOf(Nat)
  <2> SUFFICES ASSUME NEW m \in T PROVE 0..m \in FiniteSubsetsOf(Nat)
    OBVIOUS
  <2>1. IsFiniteSet(0..m) /\ 0..m \subseteq Nat
    BY FS_Interval
  <2> QED BY <2>1 DEF FiniteSubsetsOf
<1>2. 0..n \in C
  OBVIOUS
<1>3. IsWellFoundedOn(StrictSubsetOrdering(Nat), FiniteSubsetsOf(Nat))
  BY FS_StrictSubsetOrderingWellFounded
<1>4. PICK X \in C : \A Y \in C : <<Y, X>> \notin StrictSubsetOrdering(Nat)
  <2> HIDE DEF C
  <2> QED BY <1>1, <1>2, <1>3, WFMin
<1>5. PICK m \in T : X = 0..m
  BY <1>4
<1>6. ASSUME NEW k \in T PROVE m <= k
  <2> SUFFICES ASSUME k < m PROVE FALSE
    OBVIOUS
  <2>1. 0..k \subseteq 0..m /\ m \in 0..m /\ m \notin 0..k
    OBVIOUS
  <2>2. 0..k \in C /\ 0..k \in SUBSET Nat /\ 0..m \in SUBSET Nat
    OBVIOUS
  <2> QED BY <1>4, <1>5, <2>1, <2>2 DEF StrictSubsetOrdering
<1> QED BY <1>6

\* What slugs are made of.
Lower == {"a", "b"}
Dashed == Lower \cup {"-"}

LEMMA LowerIs ==
  /\ \A c \in Letters : ToLower[c] \in Lower
  /\ \A c \in Lower : c \in Letters /\ ToLower[c] = c /\ c # "-"
  /\ "-" \notin Letters
BY DEF Letters, ToLower, Lower

LEMMA WriteIs ==
  ASSUME NEW b \in Seq(Dashed), NEW c
  PROVE  /\ Write(b, c) \in Seq(Dashed)
         /\ c \in Letters => Write(b, c) = Append(b, ToLower[c])
         /\ c \notin Letters => Write(b, c) = IF b # <<>> /\ Last(b) = "-" THEN b ELSE Append(b, "-")
<1>1. CASE c \in Letters
  <2>1. Write(b, c) = Append(b, ToLower[c]) /\ ToLower[c] \in Dashed
    BY <1>1, LowerIs DEF Write, Dashed
  <2> QED BY <1>1, <2>1
<1>2. CASE c \notin Letters
  <2>1. Write(b, c) = IF b # <<>> /\ Last(b) = "-" THEN b ELSE Append(b, "-")
    BY <1>2 DEF Write
  <2>2. "-" \in Dashed
    BY DEF Dashed
  <2> QED BY <1>2, <2>1, <2>2
<1> QED BY <1>1, <1>2

\* The loop over a name ends, after as many rounds as the name has characters.
LEMMA BuiltIs ==
  ASSUME NEW S, NEW s \in Seq(S)
  PROVE  /\ Built(s)[0] = <<>>
         /\ \A k \in 1..Len(s) : Built(s)[k] = Write(Built(s)[k - 1], s[k])
<1> DEFINE Upto(n) == {g \in [0..n -> Seq(Dashed)] :
                         g[0] = <<>> /\ \A k \in 1..n : g[k] = Write(g[k - 1], s[k])}
           T == {n \in 0..Len(s) : Upto(n) = {}}
           F(g) == [k \in 0..Len(s) |-> IF k = 0 THEN <<>> ELSE Write(g[k - 1], s[k])]
<1> HIDE DEF Upto
<1>1. Upto(0) # {}
  <2> DEFINE g == [k \in 0..0 |-> <<>>]
  <2>1. g \in [0..0 -> Seq(Dashed)] /\ g[0] = <<>> /\ 1..0 = {}
    OBVIOUS
  <2>2. g \in Upto(0)
    BY <2>1 DEF Upto
  <2> QED BY <2>2
<1>2. ASSUME NEW n \in 1..Len(s), NEW g \in Upto(n - 1)
      PROVE  Upto(n) # {}
  <2>1. g \in [0..(n - 1) -> Seq(Dashed)] /\ g[0] = <<>> /\ \A k \in 1..(n - 1) : g[k] = Write(g[k - 1], s[k])
    BY <1>2 DEF Upto
  <2> DEFINE w == Write(g[n - 1], s[n])
             h == [k \in 0..n |-> IF k = n THEN w ELSE g[k]]
  <2>2. w \in Seq(Dashed)
    BY <2>1, WriteIs
  <2>3. \A k \in 1..n : k = n => h[k] = Write(h[k - 1], s[k])
    BY <2>1
  <2> HIDE DEF w
  <2>4. h \in [0..n -> Seq(Dashed)] /\ h[0] = <<>>
    BY <2>1, <2>2
  <2>5. ASSUME NEW k \in 1..n, k # n PROVE h[k] = Write(h[k - 1], s[k])
    <3>1. k \in 1..(n - 1) /\ k - 1 \in 0..n /\ k - 1 # n /\ k \in 0..n
      BY <2>5
    <3> QED BY <2>1, <2>5, <3>1
  <2>6. h \in Upto(n)
    BY <2>3, <2>4, <2>5 DEF Upto
  <2> QED BY <2>6
<1>3. Upto(Len(s)) # {}
  <2> SUFFICES ASSUME Upto(Len(s)) = {} PROVE FALSE
    OBVIOUS
  <2>1. Len(s) \in T /\ T \in SUBSET Nat
    OBVIOUS
  <2>2. PICK n \in T : \A k \in T : n <= k
    <3> HIDE DEF T
    <3> QED BY <2>1, LeastNumber
  <2>3. n \in 1..Len(s) /\ n - 1 \in 0..Len(s) /\ n - 1 \notin T
    BY <1>1, <2>2
  <2> QED BY <1>2, <2>2, <2>3
<1>4. PICK g : g \in Upto(Len(s))
  BY <1>3
<1>5. /\ g \in [0..Len(s) -> Seq(Dashed)] /\ g[0] = <<>>
      /\ \A k \in 1..Len(s) : g[k] = Write(g[k - 1], s[k])
  BY <1>4 DEF Upto
<1>6. g = F(g)
  <2>1. g = [k \in 0..Len(s) |-> g[k]]
    BY <1>5
  <2>2. \A k \in 0..Len(s) : g[k] = IF k = 0 THEN <<>> ELSE Write(g[k - 1], s[k])
    BY <1>5
  <2> QED BY <2>1, <2>2
<1>7. Built(s) = CHOOSE f : f = F(f)
  BY DEF Built
<1>8. Built(s) = F(Built(s))
  <2> HIDE DEF F
  <2> QED BY <1>6, <1>7
<1> QED BY <1>8

\* No two dashes in a row.
Tidy(b) == b \in Seq(Dashed) /\ \A i \in 1..(Len(b) - 1) : b[i] = "-" => b[i + 1] # "-"

LEMMA WriteKeepsTidy ==
  ASSUME NEW b, Tidy(b), NEW c
  PROVE  Tidy(Write(b, c))
<1>1. b \in Seq(Dashed) /\ Write(b, c) \in Seq(Dashed)
  BY WriteIs DEF Tidy
<1>2. CASE c \in Letters
  <2>1. Write(b, c) = Append(b, ToLower[c]) /\ ToLower[c] # "-"
    BY <1>1, <1>2, WriteIs, LowerIs
  <2> DEFINE w == Append(b, ToLower[c])
  <2>2. /\ Len(w) = Len(b) + 1 /\ w[Len(b) + 1] = ToLower[c]
        /\ \A i \in 1..Len(b) : w[i] = b[i]
    BY <1>1
  <2> HIDE DEF w
  <2> QED BY <1>1, <2>1, <2>2 DEF Tidy, w
<1>3. CASE c \notin Letters /\ b # <<>> /\ Last(b) = "-"
  BY <1>1, <1>3, WriteIs
<1>4. CASE c \notin Letters /\ ~(b # <<>> /\ Last(b) = "-")
  <2>1. Write(b, c) = Append(b, "-")
    BY <1>1, <1>4, WriteIs
  <2> DEFINE w == Append(b, "-")
  <2>2. /\ Len(w) = Len(b) + 1 /\ w[Len(b) + 1] = "-"
        /\ \A i \in 1..Len(b) : w[i] = b[i]
    BY <1>1
  <2>3. \A i \in 1..Len(b) : i = Len(b) => b[i] # "-"
    BY <1>1, <1>4 DEF Last
  <2>4. \A i \in 1..(Len(w) - 1) : w[i] = "-" => w[i + 1] # "-"
    <3> HIDE DEF w
    <3> QED BY <1>1, <2>2, <2>3 DEF Tidy
  <2> QED BY <1>1, <2>1, <2>4 DEF Tidy
<1> QED BY <1>2, <1>3, <1>4

LEMMA BuiltIsTidy ==
  ASSUME NEW S, NEW s \in Seq(S)
  PROVE  \A k \in 0..Len(s) : Tidy(Built(s)[k])
<1> DEFINE T == {k \in 0..Len(s) : ~Tidy(Built(s)[k])}
<1> SUFFICES ASSUME NEW k \in T PROVE FALSE
  OBVIOUS
<1>1. PICK n \in T : \A j \in T : n <= j
  <2>1. T \in SUBSET Nat
    OBVIOUS
  <2> HIDE DEF T
  <2> QED BY <2>1, LeastNumber
<1>2. Tidy(Built(s)[0])
  <2>1. <<>> \in Seq(Dashed) /\ Len(<<>>) = 0 /\ 1..(0 - 1) = {}
    OBVIOUS
  <2> QED BY <2>1, BuiltIs DEF Tidy
<1>3. n \in 1..Len(s) /\ n - 1 \in 0..Len(s) /\ n - 1 \notin T
  BY <1>1, <1>2
<1>4. Tidy(Built(s)[n - 1])
  BY <1>3
<1>5. Built(s)[n] = Write(Built(s)[n - 1], s[n])
  BY <1>3, BuiltIs
<1> QED BY <1>1, <1>4, <1>5, WriteKeepsTidy

\* A slug: no dash at either end either.
Canonical(t) ==
  /\ t \in Seq(Dashed)
  /\ \A k \in DOMAIN t : t[k] = "-" => k > 1 /\ k < Len(t) /\ t[k + 1] # "-"

LEMMA SlugIsCanonical ==
  ASSUME NEW S, NEW s \in Seq(S)
  PROVE  Canonical(slugify(s))
<1> DEFINE b == Built(s)[Len(s)]
           first == IF b # <<>> /\ Head(b) = "-" THEN 2 ELSE 1
           last == IF b # <<>> /\ Last(b) = "-" THEN Len(b) - 1 ELSE Len(b)
           t == SubSeq(b, first, last)
<1>1. Tidy(b) /\ slugify(s) = t
  <2>1. Len(s) \in 0..Len(s)
    OBVIOUS
  <2> QED BY <2>1, BuiltIsTidy DEF slugify
<1> HIDE DEF b
<1>2. b \in Seq(Dashed) /\ \A i \in 1..(Len(b) - 1) : b[i] = "-" => b[i + 1] # "-"
  BY <1>1 DEF Tidy
<1>3. /\ first \in 1..2 /\ last \in Int /\ last <= Len(b)
      /\ last < Len(b) => last = Len(b) - 1
  BY <1>2
<1>4. last >= first => b[first] # "-" /\ b[last] # "-"
  BY <1>2, <1>3 DEF Last
<1> HIDE DEF first, last
<1>5. t \in Seq(Dashed)
  BY <1>2, <1>3
<1>6. /\ Len(t) = IF last >= first THEN last - first + 1 ELSE 0
      /\ \A k \in 1..Len(t) : t[k] = b[first + k - 1]
  BY <1>2, <1>3
<1>7. DOMAIN t = 1..Len(t)
  BY <1>5
<1> HIDE DEF t
<1>8. ASSUME NEW k \in 1..Len(t), t[k] = "-"
      PROVE  k > 1 /\ k < Len(t) /\ t[k + 1] # "-"
  <2>1. last >= first /\ b[first + k - 1] = "-" /\ first + k - 1 \in first..last
    BY <1>3, <1>6, <1>8
  <2>2. first + k - 1 # first /\ first + k - 1 # last
    BY <1>4, <2>1
  <2>3. k > 1 /\ k < Len(t)
    BY <1>3, <1>6, <2>1, <2>2
  <2>4. t[k + 1] = b[first + k]
    BY <1>3, <1>6, <2>3
  <2>5. b[first + k - 1 + 1] # "-"
    BY <1>2, <1>3, <2>1, <2>2
  <2>6. first + k - 1 + 1 = first + k
    BY <1>3
  <2> QED BY <2>3, <2>4, <2>5, <2>6
<1> QED BY <1>1, <1>5, <1>7, <1>8 DEF Canonical

\* The loop writes a slug as it is.
LEMMA SlugIsItsOwn ==
  ASSUME NEW t, Canonical(t)
  PROVE  slugify(t) = t
<1> DEFINE T == {k \in 0..Len(t) : Built(t)[k] # SubSeq(t, 1, k)}
<1>1. /\ t \in Seq(Dashed) /\ Len(t) \in Nat /\ DOMAIN t = 1..Len(t)
      /\ \A k \in 1..Len(t) : t[k] = "-" => k > 1 /\ k < Len(t) /\ t[k + 1] # "-"
  BY DEF Canonical
<1>2. ASSUME NEW n \in 1..Len(t), Built(t)[n - 1] = SubSeq(t, 1, n - 1)
      PROVE  Built(t)[n] = SubSeq(t, 1, n)
  <2> DEFINE b == SubSeq(t, 1, n - 1)
  <2>1. b \in Seq(Dashed) /\ Len(b) = n - 1 /\ \A i \in 1..(n - 1) : b[i] = t[i]
    BY <1>1
  <2>2. SubSeq(t, 1, n) = Append(b, t[n])
    BY <1>1
  <2>3. Built(t)[n] = Write(b, t[n])
    BY <1>1, <1>2, BuiltIs
  <2> HIDE DEF b
  <2>4. CASE t[n] = "-"
    <3>1. n > 1 /\ t[n - 1] # "-"
      <4>1. n > 1
        BY <1>1, <2>4
      <4>2. n - 1 \in 1..Len(t) /\ (n - 1) + 1 = n
        BY <1>1, <4>1
      <4> QED BY <1>1, <2>4, <4>1, <4>2
    <3>2. Last(b) # "-"
      BY <2>1, <3>1 DEF Last
    <3>3. t[n] \notin Letters
      BY <2>4, LowerIs
    <3>4. Write(b, t[n]) = Append(b, "-")
      BY <2>1, <3>2, <3>3, WriteIs
    <3> QED BY <2>2, <2>3, <2>4, <3>4
  <2>5. CASE t[n] # "-"
    <3>1. t[n] \in Lower
      BY <1>1, <2>5 DEF Dashed
    <3>2. t[n] \in Letters /\ ToLower[t[n]] = t[n]
      BY <3>1, LowerIs
    <3>3. Write(b, t[n]) = Append(b, t[n])
      BY <2>1, <3>2, WriteIs
    <3> QED BY <2>2, <2>3, <3>3
  <2> QED BY <2>4, <2>5
<1>3. Built(t)[0] = SubSeq(t, 1, 0)
  <2>1. SubSeq(t, 1, 0) = <<>>
    BY <1>1
  <2> QED BY <1>1, <2>1, BuiltIs
<1>4. T = {}
  <2> SUFFICES ASSUME NEW k \in T PROVE FALSE
    OBVIOUS
  <2>1. PICK n \in T : \A j \in T : n <= j
    <3>1. T \in SUBSET Nat
      BY <1>1
    <3> HIDE DEF T
    <3> QED BY <3>1, LeastNumber
  <2>2. n \in 0..Len(t) /\ n # 0
    BY <1>3, <2>1
  <2>3. n \in 1..Len(t) /\ n - 1 \in 0..Len(t)
    BY <1>1, <2>2
  <2>4. n - 1 \notin T
    BY <1>1, <2>1, <2>3
  <2> QED BY <1>2, <2>1, <2>3, <2>4
<1>5. Built(t)[Len(t)] = t
  <2>1. Len(t) \in 0..Len(t) /\ SubSeq(t, 1, Len(t)) = t
    BY <1>1
  <2> QED BY <1>4, <2>1
<1>6. t # <<>> => Head(t) # "-" /\ Last(t) # "-"
  <2> SUFFICES ASSUME t # <<>> PROVE Head(t) # "-" /\ Last(t) # "-"
    OBVIOUS
  <2>1. Len(t) \in 1..Len(t) /\ 1 \in 1..Len(t) /\ Head(t) = t[1]
    BY <1>1
  <2> QED BY <1>1, <2>1 DEF Last
<1>7. slugify(t) = SubSeq(t, 1, Len(t))
  BY <1>5, <1>6 DEF slugify
<1> QED BY <1>1, <1>7

\* slugify (handlers_auth.go:348), for names of any length: the slug of a tenant has no dash
\* at either end and no two in a row, and slugify leaves it as it is.
THEOREM SlugsStayCanonical == Spec => []SlugsAreCanonical
<1>1. TypeOK => SlugsAreCanonical
  <2> SUFFICES ASSUME TypeOK, NEW t \in tenants
               PROVE  Canonical(t.slug) /\ slugify(t.slug) = t.slug
    BY DEF SlugsAreCanonical, Canonical
  <2>1. PICK n \in Names : t.slug = slugify(n)
    BY DEF TypeOK, Slugs
  <2>2. n \in Seq(STRING)
    BY NamesAssumption
  <2>3. Canonical(t.slug)
    BY <2>1, <2>2, SlugIsCanonical
  <2> QED BY <2>3, SlugIsItsOwn
<1> QED BY <1>1, TypesHold, PTL

===============================================================================
