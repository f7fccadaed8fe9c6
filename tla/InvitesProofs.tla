---------------------------- MODULE InvitesProofs -----------------------------
(***************************************************************************)
(* Theorems about Invites for every set of users, addresses, invites and   *)
(* requests.                                                               *)
(***************************************************************************)
EXTENDS Invites, TLAPS

\* The messages, field by field.
LEMMA MessageFields ==
  ASSUME NEW m \in Message
  PROVE  /\ m.kind \in {"create", "accept", "revoke"}
         /\ m.kind = "create" => m.email \in Emails /\ m.invite \in Invites \cup {None}
         /\ m.kind = "accept" => m.invite \in Invites /\ m.user \in Users
         /\ m.kind = "revoke" => m.invite \in Invites
BY DEF Message

LEMMA Apart == /\ None \notin Users /\ None \notin Emails /\ None \notin Invites
               /\ None \notin {"create", "accept", "revoke"}
BY NoneAssumption DEF None

\* Who has found an invite has named one.
LEMMA FoundFields ==
  ASSUME TypeOK, NEW r \in Requests, Found(r)
  PROVE  msg[r] \in Message /\ msg[r].invite \in Invites
<1>1. pc[r] # "idle"
  BY DEF Found
<1>2. msg[r] \in Message
  BY <1>1 DEF TypeOK
<1> QED BY <1>2, MessageFields DEF Found

LEMMA CreatingFields ==
  ASSUME TypeOK, NEW r \in Requests, Creating(r)
  PROVE  msg[r] \in Message /\ msg[r].email \in Emails
<1>1. pc[r] # "idle"
  BY DEF Creating, InTx
<1>2. msg[r] \in Message
  BY <1>1 DEF TypeOK
<1> QED BY <1>2, MessageFields DEF Creating

-----------------------------------------------------------------------------
(* Steps of a request that only go on to another place.                    *)

Late == {"spent", "deleted", "logged", "aborted"}

LEMMA TurnType ==
  ASSUME TypeOK, NEW r \in Requests, NEW to \in Pc, pc[r] # "idle", Turn(r, to)
  PROVE  /\ TypeOK'
         /\ \A q \in Requests : pc'[q] = IF q = r THEN to ELSE pc[q]
BY DEF TypeOK, Turn, GoTo, tables

LEMMA TurnKeeps ==
  ASSUME IInv, NEW r \in Requests, NEW to \in Pc, pc[r] # "idle", to # "201", Turn(r, to),
         Creating(r)' => Creating(r),
         Found(r)' => Found(r) \/ row[msg[r].invite] # "absent",
         to \in Late /\ Found(r)' => pc[r] \in Late /\ Found(r),
         hit[r] => to \in Late \cup Reply,
         msg[r].kind = "accept" /\ to \in {"cleared", "joined", "spent"}
           => addr[msg[r].invite] \in had[msg[r].user]
  PROVE  IInv'
<1>1. TypeOK' /\ \A q \in Requests : pc'[q] = IF q = r THEN to ELSE pc[q]
  BY TurnType DEF IInv
<1>2. UNCHANGED <<email, members, row, addr, used, revoked, had, mailed, msg, hit>>
  BY DEF Turn, tables
<1>3. \A q \in Requests : Creating(q)' => Creating(q)
  BY <1>1, <1>2 DEF Creating, InTx
<1>4. \A q \in Requests : Found(q)' => Found(q) \/ row[msg[q].invite] # "absent"
  BY <1>1, <1>2 DEF Found
<1>5. \A i \in Invites : Closed(i)' = Closed(i)
  BY <1>2 DEF Closed
<1>6. \A q \in Requests : Found(q)' => msg[q].invite \in Invites
  BY <1>1, <1>2, FoundFields, MessageFields DEF Found, IInv, TypeOK
<1>7. SpentInvitesAreGone' /\ InviteesOnly' /\ OneInvitePerAddress' /\ AddressesAreHad'
  BY <1>2 DEF IInv, SpentInvitesAreGone, InviteesOnly, OneInvitePerAddress, AddressesAreHad
<1>8. CreatedInvitesStay'
  BY <1>1, <1>2 DEF IInv, CreatedInvitesStay, At
<1>9. UnusedIsNew'
  BY <1>2, <1>4, <1>5 DEF IInv, UnusedIsNew
<1>10. UncommittedIsNew'
  BY <1>2, <1>3, <1>4, <1>5, <1>6 DEF IInv, UncommittedIsNew
<1>11. CreatesAlone'
  BY <1>2, <1>3 DEF IInv, CreatesAlone
<1>12. FoundWasThere'
  BY <1>2, <1>4, <1>5, <1>6 DEF IInv, FoundWasThere
<1>13. DeletedOrGone'
  <2>1. \A q \in Requests : pc'[q] \in Late /\ Found(q)' => pc[q] \in Late /\ Found(q)
    BY <1>1, <1>2 DEF Found
  <2> QED BY <1>1, <1>2, <2>1 DEF IInv, DeletedOrGone, Late
<1>14. GuestsAreInvited'
  BY <1>1, <1>2 DEF IInv, GuestsAreInvited
<1> QED BY <1>1, <1>7, <1>8, <1>9, <1>10, <1>11, <1>12, <1>13, <1>14 DEF IInv

\* A request that ends with a refusal or an error.
LEMMA EndKeeps ==
  ASSUME IInv, NEW r \in Requests, NEW reply \in Reply, pc[r] # "idle", reply # "201", Turn(r, reply)
  PROVE  IInv'
<1>1. reply \in Pc
  BY DEF Pc
<1>2. pc'[r] = reply /\ msg' = msg
  BY <1>1, TurnType DEF IInv, Turn
<1>3. ~Creating(r)' /\ ~Found(r)' /\ reply \notin Late /\ reply \notin {"cleared", "joined", "spent"}
  BY <1>2 DEF Creating, Found, InTx, Late, Reply
<1> QED BY <1>1, <1>3, TurnKeeps

-----------------------------------------------------------------------------
(* The rest of the system, and new requests.                               *)

LEMMA ChangeEmailKeeps ==
  ASSUME IInv, NEW u \in Users, NEW e \in Emails, ChangeEmail(u, e)
  PROVE  IInv'
<1>1. /\ UNCHANGED <<members, row, addr, mailed, pc, msg, hit, used, revoked>>
      /\ \A v \in Users : email'[v] = IF v = u THEN e ELSE email[v]
      /\ \A v \in Users : had'[v] = IF v = u THEN had[u] \cup {e} ELSE had[v]
      /\ TypeOK'
  BY DEF ChangeEmail, IInv, TypeOK
<1>2. \A v \in Users : had[v] \subseteq had'[v]
  BY <1>1
<1>3. /\ \A q \in Requests : Creating(q)' = Creating(q) /\ Found(q)' = Found(q)
      /\ \A i \in Invites : Closed(i)' = Closed(i)
  BY <1>1 DEF Creating, Found, InTx, Closed
<1>4. SpentInvitesAreGone' /\ CreatedInvitesStay' /\ OneInvitePerAddress' /\ DeletedOrGone'
  BY <1>1, <1>3 DEF IInv, SpentInvitesAreGone, CreatedInvitesStay, OneInvitePerAddress, DeletedOrGone, At
<1>5. UnusedIsNew' /\ UncommittedIsNew' /\ CreatesAlone'
  BY <1>1, <1>3 DEF IInv, UnusedIsNew, UncommittedIsNew, CreatesAlone
<1>6. FoundWasThere'
  BY <1>1, <1>3, FoundFields DEF IInv, FoundWasThere
<1>7. InviteesOnly'
  BY <1>1, <1>2 DEF IInv, InviteesOnly
<1>8. AddressesAreHad'
  BY <1>1 DEF IInv, AddressesAreHad
<1>9. GuestsAreInvited'
  <2> SUFFICES ASSUME NEW r \in Requests, msg[r].kind = "accept", pc[r] \in {"cleared", "joined", "spent"}
               PROVE  addr[msg[r].invite] \in had'[msg[r].user]
    BY <1>1 DEF GuestsAreInvited
  <2>1. msg[r].user \in Users
    BY MessageFields DEF IInv, TypeOK
  <2> QED BY <1>2, <2>1 DEF IInv, GuestsAreInvited
<1> QED BY <1>1, <1>4, <1>5, <1>6, <1>7, <1>8, <1>9 DEF IInv

\* What is said of requests and invites does not change with the members.
LEMMA RemoveMemberKeeps ==
  ASSUME IInv, NEW u \in Users, RemoveMember(u)
  PROVE  IInv'
<1>1. /\ UNCHANGED <<email, row, addr, mailed, pc, msg, hit, used, revoked, had>>
      /\ TypeOK'
  BY DEF RemoveMember, IInv, TypeOK
<1>3. /\ \A q \in Requests : Creating(q)' = Creating(q) /\ Found(q)' = Found(q)
      /\ \A i \in Invites : Closed(i)' = Closed(i)
  BY <1>1 DEF Creating, Found, InTx, Closed
<1>4. SpentInvitesAreGone' /\ CreatedInvitesStay' /\ OneInvitePerAddress' /\ DeletedOrGone'
  BY <1>1, <1>3 DEF IInv, SpentInvitesAreGone, CreatedInvitesStay, OneInvitePerAddress, DeletedOrGone, At
<1>5. UnusedIsNew' /\ UncommittedIsNew' /\ CreatesAlone'
  BY <1>1, <1>3 DEF IInv, UnusedIsNew, UncommittedIsNew, CreatesAlone
<1>6. FoundWasThere'
  BY <1>1, <1>3, FoundFields DEF IInv, FoundWasThere
<1>7. InviteesOnly' /\ AddressesAreHad' /\ GuestsAreInvited'
  BY <1>1 DEF IInv, InviteesOnly, AddressesAreHad, GuestsAreInvited
<1> QED BY <1>1, <1>4, <1>5, <1>6, <1>7 DEF IInv

\* A fresh invite is neither closed nor uncommitted nor new.
LEMMA ExpireKeeps ==
  ASSUME IInv, NEW i \in Invites, Expire(i)
  PROVE  IInv'
<1>1. /\ UNCHANGED <<email, members, addr, mailed, pc, msg, hit, used, revoked, had>>
      /\ \A j \in Invites : row'[j] = IF j = i THEN "expired" ELSE row[j]
      /\ TypeOK'
  BY DEF Expire, IInv, TypeOK
<1>2. \A j \in Invites : (row'[j] = "absent") <=> (row[j] = "absent")
  BY <1>1 DEF Expire
<1>3. /\ \A q \in Requests : Creating(q)' = Creating(q) /\ Found(q)' = Found(q)
      /\ \A j \in Invites : Closed(j)' = Closed(j)
  BY <1>1 DEF Creating, Found, InTx, Closed
<1>4. SpentInvitesAreGone' /\ OneInvitePerAddress'
  BY <1>1, <1>2 DEF IInv, SpentInvitesAreGone, OneInvitePerAddress
<1>5. CreatedInvitesStay'
  <2>1. \A q \in Requests : row[msg[q].invite] # "absent" => row'[msg[q].invite] # "absent"
    BY <1>2 DEF Expire, IInv, TypeOK
  <2> QED BY <1>1, <2>1 DEF IInv, CreatedInvitesStay, At
<1>6. DeletedOrGone'
  BY <1>1, <1>2, <1>3, FoundFields DEF IInv, DeletedOrGone
<1>7. UnusedIsNew' /\ UncommittedIsNew' /\ CreatesAlone'
  BY <1>1, <1>2, <1>3 DEF IInv, UnusedIsNew, UncommittedIsNew, CreatesAlone
<1>8. FoundWasThere'
  BY <1>1, <1>2, <1>3, FoundFields DEF IInv, FoundWasThere
<1>9. InviteesOnly' /\ AddressesAreHad' /\ GuestsAreInvited'
  BY <1>1 DEF IInv, InviteesOnly, AddressesAreHad, GuestsAreInvited
<1> QED BY <1>1, <1>4, <1>5, <1>6, <1>7, <1>8, <1>9 DEF IInv

LEMMA SendKeeps ==
  ASSUME IInv, NEW r \in Requests, NEW m \in Message, Send(r, m)
  PROVE  IInv'
<1>1. /\ UNCHANGED <<email, members, row, addr, used, revoked, had, mailed, hit>>
      /\ \A q \in Requests : pc'[q] = IF q = r THEN "sent" ELSE pc[q]
      /\ \A q \in Requests : msg'[q] = IF q = r THEN m ELSE msg[q]
      /\ pc[r] = "idle"
  BY DEF Send, GoTo, tables, IInv, TypeOK
<1>2. TypeOK'
  <2>1. pc' \in [Requests -> Pc] /\ msg' \in [Requests -> Message \cup {NoMessage}]
    BY DEF Send, GoTo, IInv, TypeOK, Pc
  <2> QED BY <1>1, <2>1 DEF IInv, TypeOK
<1>3. /\ \A q \in Requests : Creating(q)' => Creating(q) /\ q # r
      /\ \A q \in Requests : Found(q)' => Found(q) /\ q # r
      /\ \A i \in Invites : Closed(i)' = Closed(i)
  BY <1>1 DEF Creating, Found, InTx, Closed
<1>4. SpentInvitesAreGone' /\ OneInvitePerAddress' /\ InviteesOnly' /\ AddressesAreHad'
  BY <1>1 DEF IInv, SpentInvitesAreGone, OneInvitePerAddress, InviteesOnly, AddressesAreHad
<1>5. CreatedInvitesStay' /\ GuestsAreInvited'
  BY <1>1 DEF IInv, CreatedInvitesStay, At, GuestsAreInvited
<1>6. DeletedOrGone'
  <2>1. ~hit[r]
    BY <1>1 DEF IInv, DeletedOrGone, Reply
  <2> QED BY <1>1, <1>3, <2>1 DEF IInv, DeletedOrGone
<1>7. UnusedIsNew' /\ UncommittedIsNew' /\ CreatesAlone'
  BY <1>1, <1>3 DEF IInv, UnusedIsNew, UncommittedIsNew, CreatesAlone
<1>8. FoundWasThere'
  BY <1>1, <1>3, FoundFields DEF IInv, FoundWasThere
<1> QED BY <1>2, <1>4, <1>5, <1>6, <1>7, <1>8 DEF IInv

-----------------------------------------------------------------------------
(* Create.                                                                 *)

\* The invite is one that nobody has used, and the index lets nobody else have the address.
LEMMA InsertKeeps ==
  ASSUME IInv, NEW r \in Requests, Insert(r)
  PROVE  IInv'
<1>1. PICK i \in Invites :
        /\ addr[i] = None
        /\ addr' = [addr EXCEPT ![i] = msg[r].email]
        /\ msg' = [msg EXCEPT ![r].invite = i]
  BY DEF Insert
<1>2. /\ UNCHANGED <<email, members, row, mailed, hit, used, revoked, had>>
      /\ pc[r] = "vetted" /\ msg[r].kind = "create"
      /\ \A j \in Invites : addr[j] = msg[r].email => row[j] = "absent"
  BY DEF Insert, At
<1>3. msg[r] \in Message /\ msg[r].email \in Emails
  BY <1>2, MessageFields DEF IInv, TypeOK
<1>4. /\ \A q \in Requests : pc'[q] = IF q = r THEN "inserted" ELSE pc[q]
      /\ \A j \in Invites : addr'[j] = IF j = i THEN msg[r].email ELSE addr[j]
      /\ \A q \in Requests : q # r => msg'[q] = msg[q]
  BY <1>1 DEF Insert, GoTo, IInv, TypeOK
<1>5. /\ msg'[r] \in Message
      /\ msg'[r].kind = "create" /\ msg'[r].email = msg[r].email /\ msg'[r].invite = i
  <2>1. msg[r] \in [kind : {"create"}, email : Emails, user : {None}, invite : Invites \cup {None}]
    BY <1>2, <1>3 DEF Message
  <2>2. msg'[r] = [msg[r] EXCEPT !.invite = i]
    BY <1>1 DEF IInv, TypeOK
  <2> QED BY <2>1, <2>2 DEF Message
<1>6. TypeOK'
  <2>1. pc' \in [Requests -> Pc] /\ addr' \in [Invites -> Emails \cup {None}]
    BY <1>1, <1>3 DEF Insert, GoTo, IInv, TypeOK, Pc
  <2>2. msg' \in [Requests -> Message \cup {NoMessage}]
    BY <1>1, <1>4, <1>5 DEF IInv, TypeOK
  <2> QED BY <1>2, <1>4, <1>5, <2>1, <2>2 DEF IInv, TypeOK
<1>7. /\ \A q \in Requests : Creating(q)' <=> Creating(q) \/ q = r
      /\ \A q \in Requests : Found(q)' <=> Found(q)
      /\ ~Creating(r) /\ ~Found(r)
      /\ \A j \in Invites : Closed(j)' = Closed(j)
  BY <1>2, <1>4, <1>5 DEF Creating, Found, InTx, Closed
<1>8. /\ row[i] = "absent" /\ ~Closed(i)
      /\ \A q \in Requests : Found(q) => msg[q].invite # i
  BY <1>1 DEF IInv, UnusedIsNew
<1>9. \A q \in Requests : Creating(q) => msg[q].invite # i /\ msg[q].email # msg[r].email
  <2> SUFFICES ASSUME NEW q \in Requests, Creating(q)
               PROVE  msg[q].invite # i /\ msg[q].email # msg[r].email
    OBVIOUS
  <2>1. msg[q].email # None /\ addr[msg[q].invite] = msg[q].email
    BY CreatingFields, Apart DEF IInv, UncommittedIsNew
  <2>2. ~WaitsFor(r, q)
    BY DEF Insert, MayProceed
  <2>3. msg[q].email # msg[r].email
    BY <1>2, <2>2 DEF WaitsFor, HoldsEmail, At, Creating
  <2> QED BY <1>1, <2>1, <2>3
<1>10. SpentInvitesAreGone'
  BY <1>2 DEF IInv, SpentInvitesAreGone
<1>11. CreatedInvitesStay'
  <2>1. \A q \in Requests : At(q, "201", "create")' => q # r /\ At(q, "201", "create")
    BY <1>4 DEF At
  <2> QED BY <1>2, <1>4, <2>1 DEF IInv, CreatedInvitesStay
<1>12. InviteesOnly'
  <2>1. \A u \in Users : <<i, u>> \notin used
    BY <1>8 DEF Closed
  <2> QED BY <1>2, <1>4, <2>1 DEF IInv, InviteesOnly
<1>13. OneInvitePerAddress'
  BY <1>2, <1>4, <1>8 DEF IInv, OneInvitePerAddress
<1>14. UnusedIsNew'
  BY <1>2, <1>3, <1>4, <1>7, Apart DEF IInv, UnusedIsNew
<1>15. UncommittedIsNew'
  <2> SUFFICES ASSUME NEW q \in Requests, Creating(q)'
               PROVE  /\ msg'[q].invite \in Invites
                      /\ addr'[msg'[q].invite] = msg'[q].email
                      /\ row[msg'[q].invite] = "absent" /\ ~Closed(msg'[q].invite)
                      /\ \A p \in Requests \ {q} : Found(p)' \/ Creating(p)' => msg'[p].invite # msg'[q].invite
    BY <1>2 DEF UncommittedIsNew, Closed
  <2>1. CASE q = r
    BY <1>2, <1>4, <1>5, <1>7, <1>8, <1>9, <2>1
  <2>2. CASE q # r
    <3>1. Creating(q) /\ msg'[q] = msg[q] /\ msg[q].invite \in Invites /\ msg[q].invite # i
      BY <1>4, <1>7, <1>9, <2>2 DEF IInv, UncommittedIsNew
    <3> QED BY <1>2, <1>4, <1>5, <1>7, <3>1 DEF IInv, UncommittedIsNew
  <2> QED BY <2>1, <2>2
<1>16. CreatesAlone'
  <2> SUFFICES ASSUME NEW q \in Requests, Creating(q)'
               PROVE  /\ \A j \in Invites : addr'[j] = msg'[q].email => row'[j] = "absent"
                      /\ \A p \in Requests \ {q} : Creating(p)' => msg'[p].email # msg'[q].email
    BY DEF CreatesAlone
  <2>1. CASE q = r
    BY <1>2, <1>4, <1>5, <1>7, <1>8, <1>9, <2>1
  <2>2. CASE q # r
    BY <1>2, <1>4, <1>5, <1>7, <1>8, <1>9, <2>2 DEF IInv, CreatesAlone
  <2> QED BY <2>1, <2>2
<1>17. FoundWasThere'
  BY <1>2, <1>4, <1>7, FoundFields DEF IInv, FoundWasThere
<1>18. DeletedOrGone'
  <2>1. ~hit[r]
    BY <1>2 DEF IInv, DeletedOrGone, Reply
  <2>2. \A q \in Requests : Found(q) => q # r /\ msg[q].invite \in Invites
    BY <1>7, FoundFields DEF IInv
  <2> QED BY <1>2, <1>4, <1>7, <2>1, <2>2 DEF IInv, DeletedOrGone
<1>19. AddressesAreHad' /\ GuestsAreInvited'
  <2>1. AddressesAreHad'
    BY <1>2 DEF IInv, AddressesAreHad
  <2>2. \A q \in Requests : msg'[q].kind = "accept" /\ pc'[q] \in {"cleared", "joined", "spent"}
          => q # r /\ Found(q)
    BY <1>4, <1>5 DEF Found, Reply
  <2>3. GuestsAreInvited'
    BY <1>2, <1>4, <1>8, <2>2, FoundFields DEF IInv, GuestsAreInvited
  <2> QED BY <2>1, <2>3
<1> QED BY <1>6, <1>10, <1>11, <1>12, <1>13, <1>14, <1>15, <1>16, <1>17, <1>18, <1>19 DEF IInv

LEMMA SendMailKeeps ==
  ASSUME IInv, NEW r \in Requests, SendMail(r)
  PROVE  IInv'
<1>1. /\ UNCHANGED <<email, members, row, addr, used, revoked, had, msg, hit>>
      /\ \A q \in Requests : pc'[q] = IF q = r THEN "mailed" ELSE pc[q]
      /\ pc[r] = "inserted" /\ msg[r].kind = "create"
  BY DEF SendMail, At, GoTo, tables, IInv, TypeOK
<1>2. TypeOK'
  <2>1. pc' \in [Requests -> Pc]
    BY DEF SendMail, GoTo, IInv, TypeOK, Pc
  <2>2. msg[r].invite \in Invites
    BY <1>1 DEF IInv, UncommittedIsNew, Creating, InTx
  <2>3. mailed' \subseteq Invites
    BY <2>2 DEF SendMail, IInv, TypeOK
  <2> QED BY <1>1, <2>1, <2>3 DEF IInv, TypeOK
<1>3. /\ \A q \in Requests : Creating(q)' = Creating(q) /\ Found(q)' = Found(q)
      /\ \A i \in Invites : Closed(i)' = Closed(i)
  BY <1>1 DEF Creating, Found, InTx, Closed, Reply
<1>4. SpentInvitesAreGone' /\ InviteesOnly' /\ OneInvitePerAddress' /\ AddressesAreHad'
  BY <1>1 DEF IInv, SpentInvitesAreGone, InviteesOnly, OneInvitePerAddress, AddressesAreHad
<1>5. CreatedInvitesStay' /\ GuestsAreInvited'
  BY <1>1 DEF IInv, CreatedInvitesStay, At, GuestsAreInvited
<1>6. UnusedIsNew' /\ UncommittedIsNew' /\ CreatesAlone'
  BY <1>1, <1>3 DEF IInv, UnusedIsNew, UncommittedIsNew, CreatesAlone
<1>7. FoundWasThere'
  BY <1>1, <1>3, FoundFields DEF IInv, FoundWasThere
<1>8. DeletedOrGone'
  <2>1. ~hit[r]
    BY <1>1 DEF IInv, DeletedOrGone, Reply
  <2> QED BY <1>1, <1>3, <2>1 DEF IInv, DeletedOrGone
<1> QED BY <1>2, <1>4, <1>5, <1>6, <1>7, <1>8 DEF IInv

\* The invite was uncommitted: it is not closed, and the only one for its address.
LEMMA CommitCreateKeeps ==
  ASSUME IInv, NEW r \in Requests, CommitCreate(r)
  PROVE  IInv'
<1> DEFINE i == msg[r].invite
<1>1. PICK reply \in {"201", "500"} : GoTo(r, reply)
  BY DEF CommitCreate
<1>2. /\ UNCHANGED <<email, members, addr, mailed, msg, hit, used, revoked, had>>
      /\ pc[r] = "logged" /\ msg[r].kind = "create"
      /\ \A q \in Requests : pc'[q] = IF q = r THEN reply ELSE pc[q]
      /\ \A j \in Invites : row'[j] = IF j = i THEN "fresh" ELSE row[j]
  BY <1>1 DEF CommitCreate, At, GoTo, IInv, TypeOK
<1>3. TypeOK'
  <2>1. pc' \in [Requests -> Pc] /\ row' \in [Invites -> {"absent", "fresh", "expired"}]
    BY <1>1 DEF CommitCreate, GoTo, IInv, TypeOK, Pc, Reply
  <2> QED BY <1>2, <2>1 DEF IInv, TypeOK
<1>4. /\ Creating(r) /\ ~Found(r)'
      /\ \A q \in Requests : Creating(q)' => Creating(q) /\ q # r
      /\ \A q \in Requests : Found(q)' => Found(q) /\ q # r
      /\ \A j \in Invites : Closed(j)' = Closed(j)
  BY <1>2 DEF Creating, Found, InTx, Closed, Reply
<1>5. /\ i \in Invites /\ addr[i] = msg[r].email /\ row[i] = "absent" /\ ~Closed(i)
      /\ \A q \in Requests \ {r} : Found(q) \/ Creating(q) => msg[q].invite # i
  BY <1>4 DEF IInv, UncommittedIsNew
<1>6. /\ \A j \in Invites : addr[j] = msg[r].email => row[j] = "absent"
      /\ \A q \in Requests \ {r} : Creating(q) => msg[q].email # msg[r].email
  BY <1>4 DEF IInv, CreatesAlone
<1>7. SpentInvitesAreGone'
  BY <1>2, <1>5 DEF IInv, SpentInvitesAreGone, Closed
<1>8. CreatedInvitesStay'
  <2> SUFFICES ASSUME NEW q \in Requests, pc'[q] = "201", msg[q].kind = "create", q # r
               PROVE  \/ row'[msg[q].invite] # "absent" \/ msg[q].invite \in revoked
                      \/ \E u \in Users : <<msg[q].invite, u>> \in used
    BY <1>2, <1>5 DEF CreatedInvitesStay, At
  <2>1. row' = [row EXCEPT ![i] = "fresh"] /\ row \in [Invites -> {"absent", "fresh", "expired"}]
    BY DEF CommitCreate, IInv, TypeOK
  <2>2. row[msg[q].invite] # "absent" => row'[msg[q].invite] # "absent"
    BY <1>5, <2>1
  <2> QED BY <1>2, <2>2 DEF IInv, CreatedInvitesStay, At
<1>9. OneInvitePerAddress'
  BY <1>2, <1>5, <1>6 DEF IInv, OneInvitePerAddress
<1>10. UnusedIsNew'
  <2>1. addr[i] # None
    BY <1>4, <1>5, CreatingFields, Apart DEF IInv
  <2> QED BY <1>2, <1>4, <2>1 DEF IInv, UnusedIsNew
<1>11. UncommittedIsNew'
  BY <1>2, <1>4, <1>5 DEF IInv, UncommittedIsNew
<1>12. CreatesAlone'
  BY <1>2, <1>4, <1>5, <1>6 DEF IInv, CreatesAlone
<1>13. FoundWasThere'
  BY <1>2, <1>4, FoundFields DEF IInv, FoundWasThere
<1>14. DeletedOrGone'
  <2>1. \A q \in Requests : Found(q)' => msg[q].invite \in Invites /\ msg[q].invite # i
    BY <1>4, <1>5, FoundFields DEF IInv
  <2> QED BY <1>2, <1>4, <2>1 DEF IInv, DeletedOrGone, Reply
<1>15. InviteesOnly' /\ AddressesAreHad' /\ GuestsAreInvited'
  BY <1>2 DEF IInv, InviteesOnly, AddressesAreHad, GuestsAreInvited
<1> QED BY <1>3, <1>7, <1>8, <1>9, <1>10, <1>11, <1>12, <1>13, <1>14, <1>15 DEF IInv

-----------------------------------------------------------------------------
(* Accept and revoke.                                                      *)

LEMMA DeleteKeeps ==
  ASSUME IInv, NEW r \in Requests, NEW to \in {"spent", "deleted"}, DeleteInvite(r, to),
         \/ pc[r] = "joined" /\ msg[r].kind = "accept" /\ to = "spent"
         \/ pc[r] = "found" /\ msg[r].kind = "revoke" /\ to = "deleted"
  PROVE  IInv'
<1>1. /\ UNCHANGED <<email, members, row, addr, used, revoked, had, mailed, msg>>
      /\ \A q \in Requests : pc'[q] = IF q = r THEN to ELSE pc[q]
      /\ \A q \in Requests : hit'[q] = IF q = r THEN row[msg[r].invite] # "absent" ELSE hit[q]
      /\ TypeOK'
  BY DEF DeleteInvite, GoTo, tables, IInv, TypeOK, Pc
<1>2. /\ \A q \in Requests : Creating(q)' = Creating(q) /\ Found(q)' = Found(q)
      /\ \A i \in Invites : Closed(i)' = Closed(i)
  BY <1>1 DEF Creating, Found, InTx, Closed, Reply
<1>3. SpentInvitesAreGone' /\ InviteesOnly' /\ OneInvitePerAddress' /\ AddressesAreHad'
  BY <1>1 DEF IInv, SpentInvitesAreGone, InviteesOnly, OneInvitePerAddress, AddressesAreHad
<1>4. CreatedInvitesStay' /\ GuestsAreInvited'
  BY <1>1 DEF IInv, CreatedInvitesStay, At, GuestsAreInvited
<1>5. UnusedIsNew' /\ UncommittedIsNew' /\ CreatesAlone'
  BY <1>1, <1>2 DEF IInv, UnusedIsNew, UncommittedIsNew, CreatesAlone
<1>6. FoundWasThere'
  BY <1>1, <1>2, FoundFields DEF IInv, FoundWasThere
<1>7. DeletedOrGone'
  BY <1>1, <1>2 DEF IInv, DeletedOrGone
<1> QED BY <1>1, <1>3, <1>4, <1>5, <1>6, <1>7 DEF IInv

\* The COMMIT of a request that has deleted its invite, or found it gone: it is gone,
\* and closed, and nothing else has changed for the invites.
LEMMA CommitKeeps ==
  ASSUME IInv, TypeOK', NEW r \in Requests, NEW reply \in Reply, GoTo(r, reply),
         pc[r] \in Late, Found(r),
         row' = IF hit[r] THEN [row EXCEPT ![msg[r].invite] = "absent"] ELSE row,
         UNCHANGED <<email, addr, mailed, msg, hit, had>>,
         \A j \in Invites : Closed(j)' <=> Closed(j) \/ j = msg[r].invite,
         InviteesOnly'
  PROVE  IInv'
<1> DEFINE i == msg[r].invite
<1>1. i \in Invites
  BY FoundFields DEF IInv
<1>2. /\ \A q \in Requests : pc'[q] = IF q = r THEN reply ELSE pc[q]
      /\ \A j \in Invites : row'[j] = IF j = i THEN "absent" ELSE row[j]
  BY <1>1 DEF GoTo, IInv, TypeOK, DeletedOrGone, Late
<1>3. /\ \A q \in Requests : Creating(q)' => Creating(q) /\ q # r
      /\ \A q \in Requests : Found(q)' => Found(q) /\ q # r
  BY <1>2 DEF Creating, Found, InTx, Reply
<1>4. \A q \in Requests : Creating(q) => msg[q].invite # i
  BY DEF IInv, UncommittedIsNew, Found, Creating
<1>5. addr[i] # None
  BY <1>1 DEF IInv, UnusedIsNew
<1>6. SpentInvitesAreGone'
  <2>1. \A j \in Invites : Closed(j)' => row'[j] = "absent"
    BY <1>2 DEF IInv, SpentInvitesAreGone, Closed
  <2> QED BY <2>1 DEF SpentInvitesAreGone, Closed
<1>7. CreatedInvitesStay'
  <2> SUFFICES ASSUME NEW q \in Requests, pc'[q] = "201", msg[q].kind = "create",
                      NEW j, j = msg[q].invite
               PROVE  row'[j] # "absent" \/ j \in revoked' \/ \E u \in Users : <<j, u>> \in used'
    BY DEF CreatedInvitesStay, At
  <2>1. q # r
    BY DEF Found
  <2>2. j \in Invites => row[j] # "absent" \/ Closed(j)
    BY <1>2, <2>1 DEF IInv, CreatedInvitesStay, At, Closed
  <2>3. CASE j \in Invites
    <3>1. row'[j] # "absent" \/ Closed(j)'
      BY <1>2, <2>2, <2>3
    <3> QED BY <3>1 DEF Closed
  <2>4. CASE j \notin Invites
    <3>1. msg[q] \in Message /\ pc[q] = "201"
      BY <1>2, <2>1 DEF IInv, TypeOK
    <3>2. row[j] # "absent" \/ j \in revoked \/ \E u \in Users : <<j, u>> \in used
      BY <3>1 DEF IInv, CreatedInvitesStay, At
    <3>3. row[j] # "absent"
      BY <2>4, <3>2 DEF IInv, TypeOK
    <3>4. row'[j] = row[j]
      BY <1>1, <2>4 DEF IInv, TypeOK
    <3> QED BY <3>3, <3>4
  <2> QED BY <2>3, <2>4
<1>8. OneInvitePerAddress'
  BY <1>2 DEF IInv, OneInvitePerAddress
<1>9. UnusedIsNew'
  BY <1>2, <1>3, <1>5 DEF IInv, UnusedIsNew
<1>10. UncommittedIsNew'
  <2> SUFFICES ASSUME NEW q \in Requests, Creating(q)', NEW j, j = msg[q].invite
               PROVE  /\ j \in Invites /\ addr[j] = msg[q].email
                      /\ row'[j] = "absent" /\ ~(j \in revoked' \/ \E u \in Users : <<j, u>> \in used')
                      /\ \A p \in Requests \ {q} : Found(p)' \/ Creating(p)' => msg[p].invite # j
    BY DEF UncommittedIsNew, Closed
  <2>1. /\ j \in Invites /\ addr[j] = msg[q].email /\ row[j] = "absent" /\ ~Closed(j) /\ j # i
        /\ \A p \in Requests \ {q} : Found(p) \/ Creating(p) => msg[p].invite # j
    BY <1>3, <1>4 DEF IInv, UncommittedIsNew
  <2>2. ~Closed(j)'
    BY <2>1
  <2> QED BY <1>2, <1>3, <2>1, <2>2 DEF Closed
<1>11. CreatesAlone'
  BY <1>2, <1>3 DEF IInv, CreatesAlone
<1>12. FoundWasThere'
  <2> SUFFICES ASSUME NEW q \in Requests, Found(q)', NEW j \in Invites, j = msg[q].invite
               PROVE  row'[j] # "absent" \/ Closed(j)'
    BY <1>3, FoundFields DEF IInv, FoundWasThere, Closed
  <2> QED BY <1>2, <1>3 DEF IInv, FoundWasThere
<1>13. DeletedOrGone'
  <2>1. \A q \in Requests : Found(q)' => msg[q].invite \in Invites
    BY <1>3, FoundFields DEF IInv
  <2> QED BY <1>2, <1>3, <2>1 DEF IInv, DeletedOrGone, Reply
<1>14. AddressesAreHad' /\ GuestsAreInvited'
  BY <1>2 DEF IInv, AddressesAreHad, GuestsAreInvited, Reply
<1> QED BY <1>6, <1>7, <1>8, <1>9, <1>10, <1>11, <1>12, <1>13, <1>14 DEF IInv

LEMMA CommitAcceptKeeps ==
  ASSUME IInv, NEW r \in Requests, CommitAccept(r)
  PROVE  IInv'
<1>1. PICK reply \in {"200", "500"} : GoTo(r, reply)
  BY DEF CommitAccept
<1>2. /\ pc[r] = "spent" /\ msg[r].kind = "accept"
      /\ used' = used \cup {<<msg[r].invite, msg[r].user>>}
      /\ UNCHANGED <<email, addr, mailed, msg, hit, revoked, had>>
      /\ row' = IF hit[r] THEN [row EXCEPT ![msg[r].invite] = "absent"] ELSE row
  BY DEF CommitAccept, At
<1>3. Found(r) /\ pc[r] \in Late
  BY <1>2 DEF Found, Late, Reply
<1>4. msg[r].invite \in Invites /\ msg[r].user \in Users
  BY <1>2, <1>3, FoundFields, MessageFields DEF IInv
<1>5. TypeOK'
  <2>1. pc' \in [Requests -> Pc] /\ row' \in [Invites -> {"absent", "fresh", "expired"}]
    BY <1>1, <1>2 DEF GoTo, IInv, TypeOK, Pc, Reply
  <2>2. members' \subseteq Users /\ used' \subseteq Invites \X Users
    BY <1>2, <1>4 DEF CommitAccept, IInv, TypeOK
  <2>3. \A q \in Requests : pc'[q] # "idle" => msg[q] \in Message
    BY <1>1, <1>2 DEF GoTo, IInv, TypeOK
  <2> QED BY <1>2, <2>1, <2>2, <2>3 DEF IInv, TypeOK
<1>6. \A j \in Invites : Closed(j)' <=> Closed(j) \/ j = msg[r].invite
  BY <1>2, <1>4 DEF Closed
<1>7. InviteesOnly'
  <2>1. addr[msg[r].invite] \in had[msg[r].user]
    BY <1>2 DEF IInv, GuestsAreInvited
  <2> QED BY <1>2, <1>4, <2>1 DEF IInv, InviteesOnly
<1>8. reply \in Reply
  BY DEF Reply
<1> QED BY <1>1, <1>2, <1>3, <1>5, <1>6, <1>7, <1>8, CommitKeeps

LEMMA CommitRevokeKeeps ==
  ASSUME IInv, NEW r \in Requests, CommitRevoke(r)
  PROVE  IInv'
<1>1. PICK reply \in {"204", "500"} : GoTo(r, reply)
  BY DEF CommitRevoke
<1>2. /\ pc[r] = "logged" /\ msg[r].kind = "revoke"
      /\ revoked' = revoked \cup {msg[r].invite}
      /\ UNCHANGED <<email, members, addr, mailed, msg, hit, used, had>>
      /\ row' = IF hit[r] THEN [row EXCEPT ![msg[r].invite] = "absent"] ELSE row
  BY DEF CommitRevoke, At
<1>3. Found(r) /\ pc[r] \in Late
  BY <1>2 DEF Found, Late, Reply
<1>4. msg[r].invite \in Invites
  BY <1>3, FoundFields DEF IInv
<1>5. TypeOK'
  <2>1. pc' \in [Requests -> Pc] /\ row' \in [Invites -> {"absent", "fresh", "expired"}]
    BY <1>1, <1>2 DEF GoTo, IInv, TypeOK, Pc, Reply
  <2>2. \A q \in Requests : pc'[q] # "idle" => msg[q] \in Message
    BY <1>1, <1>2 DEF GoTo, IInv, TypeOK
  <2> QED BY <1>2, <1>4, <2>1, <2>2 DEF IInv, TypeOK
<1>6. \A j \in Invites : Closed(j)' <=> Closed(j) \/ j = msg[r].invite
  BY <1>2 DEF Closed
<1>7. InviteesOnly'
  BY <1>2 DEF IInv, InviteesOnly
<1>8. reply \in Reply
  BY DEF Reply
<1> QED BY <1>1, <1>2, <1>3, <1>5, <1>6, <1>7, <1>8, CommitKeeps

-----------------------------------------------------------------------------
(* Every step.                                                             *)

LEMMA StatementKeeps ==
  ASSUME IInv, NEW r \in Requests, Statement(r)
  PROVE  IInv'
<1>1. CASE BadRequest(r)
  BY <1>1, EndKeeps DEF BadRequest, At, Reply
<1>2. CASE CheckNotMember(r)
  <2>1. pc[r] = "sent" /\ msg[r].kind = "create"
    BY <1>2 DEF CheckNotMember, At
  <2>2. CASE Turn(r, "409")
    BY <2>1, <2>2, EndKeeps DEF Reply
  <2>3. CASE Turn(r, "vetted")
    <3>1. "vetted" \in Pc /\ ~hit[r]
      BY <2>1 DEF Pc, IInv, DeletedOrGone, Reply
    <3>2. pc'[r] = "vetted" /\ msg' = msg
      BY <2>1, <2>3, <3>1, TurnType DEF IInv, Turn
    <3>3. ~Creating(r)' /\ ~Found(r)' /\ "vetted" \notin Late
      BY <2>1, <3>2 DEF Creating, Found, InTx, Late
    <3> QED BY <2>1, <2>3, <3>1, <3>3, TurnKeeps
  <2> QED BY <1>2, <2>2, <2>3 DEF CheckNotMember
<1>3. CASE Duplicate(r)
  BY <1>3, EndKeeps DEF Duplicate, At, Reply
<1>4. CASE Insert(r)
  BY <1>4, InsertKeeps
<1>5. CASE CommitCreate(r)
  BY <1>5, CommitCreateKeeps
<1>6. CASE FindInvite(r)
  <2>1. pc[r] = "sent" /\ msg[r].kind = "accept" /\ msg[r].invite \in Invites
    BY <1>6, MessageFields DEF FindInvite, At, IInv, TypeOK
  <2>2. \/ Turn(r, "404") \/ Turn(r, "410")
        \/ Turn(r, "known") /\ row[msg[r].invite] = "fresh"
    BY <1>6, <2>1 DEF FindInvite, IInv, TypeOK
  <2>3. CASE Turn(r, "404") \/ Turn(r, "410")
    BY <2>1, <2>3, EndKeeps DEF Reply
  <2>4. CASE Turn(r, "known") /\ row[msg[r].invite] = "fresh"
    <3>1. "known" \in Pc /\ ~hit[r]
      BY <2>1 DEF Pc, IInv, DeletedOrGone, Reply
    <3>2. pc'[r] = "known" /\ msg' = msg
      BY <2>1, <2>4, <3>1, TurnType DEF IInv, Turn
    <3>3. ~Creating(r)' /\ "known" \notin Late
      BY <2>1, <3>2 DEF Creating, InTx, Late
    <3> QED BY <2>1, <2>4, <3>1, <3>3, TurnKeeps
  <2> QED BY <2>2, <2>3, <2>4
<1>7. CASE CheckEmail(r)
  <2>1. pc[r] = "known" /\ msg[r].kind = "accept" /\ msg[r].user \in Users
    BY <1>7, MessageFields DEF CheckEmail, At, IInv, TypeOK
  <2>2. \/ Turn(r, "403")
        \/ Turn(r, "cleared") /\ email[msg[r].user] = addr[msg[r].invite]
    BY <1>7 DEF CheckEmail
  <2>3. CASE Turn(r, "403")
    BY <2>1, <2>3, EndKeeps DEF Reply
  <2>4. CASE Turn(r, "cleared") /\ email[msg[r].user] = addr[msg[r].invite]
    <3>1. "cleared" \in Pc /\ ~hit[r] /\ Found(r)
      BY <2>1 DEF Pc, IInv, DeletedOrGone, Reply, Found
    <3>2. pc'[r] = "cleared" /\ msg' = msg
      BY <2>1, <2>4, <3>1, TurnType DEF IInv, Turn
    <3>3. ~Creating(r)' /\ "cleared" \notin Late
      BY <2>1, <3>2 DEF Creating, InTx, Late
    <3>4. addr[msg[r].invite] \in had[msg[r].user]
      BY <2>1, <2>4 DEF IInv, AddressesAreHad
    <3> QED BY <2>1, <2>4, <3>1, <3>3, <3>4, TurnKeeps
  <2> QED BY <2>2, <2>3, <2>4
<1>8. CASE InsertMember(r)
  <2>1. pc[r] = "cleared" /\ msg[r].kind = "accept"
    BY <1>8 DEF InsertMember, At
  <2>2. CASE Turn(r, "409")
    BY <2>1, <2>2, EndKeeps DEF Reply
  <2>3. CASE Turn(r, "joined")
    <3>1. "joined" \in Pc /\ ~hit[r] /\ Found(r)
      BY <2>1 DEF Pc, IInv, DeletedOrGone, Reply, Found
    <3>2. pc'[r] = "joined" /\ msg' = msg
      BY <2>1, <2>3, <3>1, TurnType DEF IInv, Turn
    <3>3. ~Creating(r)' /\ "joined" \notin Late
      BY <2>1, <3>2 DEF Creating, InTx, Late
    <3>4. addr[msg[r].invite] \in had[msg[r].user]
      BY <2>1 DEF IInv, GuestsAreInvited
    <3> QED BY <2>1, <2>3, <3>1, <3>3, <3>4, TurnKeeps
  <2> QED BY <1>8, <2>2, <2>3 DEF InsertMember
<1>9. CASE Spend(r)
  BY <1>9, DeleteKeeps DEF Spend, At
<1>10. CASE CommitAccept(r)
  BY <1>10, CommitAcceptKeeps
<1>11. CASE FindToRevoke(r)
  <2>1. pc[r] = "sent" /\ msg[r].kind = "revoke"
    BY <1>11 DEF FindToRevoke, At
  <2>2. \/ Turn(r, "404")
        \/ Turn(r, "found") /\ row[msg[r].invite] # "absent"
    BY <1>11 DEF FindToRevoke
  <2>3. CASE Turn(r, "404")
    BY <2>1, <2>3, EndKeeps DEF Reply
  <2>4. CASE Turn(r, "found") /\ row[msg[r].invite] # "absent"
    <3>1. "found" \in Pc /\ ~hit[r]
      BY <2>1 DEF Pc, IInv, DeletedOrGone, Reply
    <3>2. pc'[r] = "found" /\ msg' = msg
      BY <2>1, <2>4, <3>1, TurnType DEF IInv, Turn
    <3>3. ~Creating(r)' /\ "found" \notin Late
      BY <2>1, <3>2 DEF Creating, InTx, Late
    <3> QED BY <2>1, <2>4, <3>1, <3>3, TurnKeeps
  <2> QED BY <2>2, <2>3, <2>4
<1>12. CASE Revoke(r)
  BY <1>12, DeleteKeeps DEF Revoke, At
<1>13. CASE CommitRevoke(r)
  BY <1>13, CommitRevokeKeeps
<1>14. CASE WriteAudit(r)
  <2>1. \/ pc[r] = "mailed" /\ msg[r].kind = "create"
        \/ pc[r] = "deleted" /\ msg[r].kind = "revoke"
    BY <1>14 DEF WriteAudit, At
  <2>2. PICK to \in {"logged", "aborted"} : Turn(r, to)
    BY <1>14 DEF WriteAudit
  <2>3. to \in Pc /\ to \in Late /\ to # "201"
    BY DEF Pc, Late
  <2>4. pc'[r] = to /\ msg' = msg
    BY <2>1, <2>2, <2>3, TurnType DEF IInv, Turn
  <2>5. Creating(r)' => Creating(r)
    BY <2>1, <2>4 DEF Creating, InTx
  <2>6. Found(r)' => Found(r) /\ pc[r] \in Late
    BY <2>1, <2>4 DEF Found, Late, Reply
  <2> QED BY <2>1, <2>2, <2>3, <2>5, <2>6, TurnKeeps
<1>15. CASE CommitAborted(r)
  BY <1>15, EndKeeps DEF CommitAborted, Reply
<1> QED BY <1>1, <1>2, <1>3, <1>4, <1>5, <1>6, <1>7, <1>8, <1>9, <1>10, <1>11, <1>12, <1>13,
           <1>14, <1>15 DEF Statement

LEMMA InvariantKept == IInv /\ [Next]_vars => IInv'
<1> SUFFICES ASSUME IInv, [Next]_vars PROVE IInv'
  OBVIOUS
<1>1. CASE UNCHANGED vars
  <2>1. UNCHANGED <<email, members, row, addr, mailed, pc, msg, hit, used, revoked, had>>
    BY <1>1 DEF vars
  <2>2. /\ \A q \in Requests : Creating(q)' = Creating(q) /\ Found(q)' = Found(q)
        /\ \A i \in Invites : Closed(i)' = Closed(i)
    BY <2>1 DEF Creating, Found, InTx, Closed
  <2>3. TypeOK' /\ SpentInvitesAreGone' /\ CreatedInvitesStay' /\ InviteesOnly' /\ OneInvitePerAddress'
    BY <2>1 DEF IInv, TypeOK, SpentInvitesAreGone, CreatedInvitesStay, InviteesOnly,
                OneInvitePerAddress, At
  <2>4. UnusedIsNew' /\ UncommittedIsNew' /\ CreatesAlone'
    BY <2>1, <2>2 DEF IInv, UnusedIsNew, UncommittedIsNew, CreatesAlone
  <2>5. FoundWasThere' /\ DeletedOrGone' /\ AddressesAreHad' /\ GuestsAreInvited'
    BY <2>1, <2>2, FoundFields DEF IInv, FoundWasThere, DeletedOrGone, AddressesAreHad, GuestsAreInvited
  <2> QED BY <2>3, <2>4, <2>5 DEF IInv
<1>2. ASSUME NEW u \in Users, NEW e \in Emails, ChangeEmail(u, e) PROVE IInv'
  BY <1>2, ChangeEmailKeeps
<1>3. ASSUME NEW u \in Users, RemoveMember(u) PROVE IInv'
  BY <1>3, RemoveMemberKeeps
<1>4. ASSUME NEW i \in Invites, Expire(i) PROVE IInv'
  BY <1>4, ExpireKeeps
<1>5. ASSUME NEW r \in Requests, NEW m \in Message, Send(r, m) PROVE IInv'
  BY <1>5, SendKeeps
<1>6. ASSUME NEW r \in Requests, Step(r) PROVE IInv'
  BY <1>6, StatementKeeps, SendMailKeeps DEF Step
<1>7. ASSUME NEW r \in Requests, Fails(r) PROVE IInv'
  BY <1>7, EndKeeps DEF Fails, Reply
<1> QED BY <1>1, <1>2, <1>3, <1>4, <1>5, <1>6, <1>7 DEF Next

LEMMA InvariantAtFirst == Init => IInv
<1> SUFFICES ASSUME Init PROVE IInv
  OBVIOUS
<1>1. TypeOK
  BY DEF Init, TypeOK, Pc
<1>2. \A r \in Requests : pc[r] = "idle" /\ ~hit[r]
  BY DEF Init
<1>3. \A r \in Requests : ~Creating(r) /\ ~Found(r)
  BY <1>2 DEF Creating, Found, InTx
<1>4. \A i \in Invites : row[i] = "absent" /\ ~Closed(i)
  BY DEF Init, Closed
<1>5. SpentInvitesAreGone /\ CreatedInvitesStay /\ InviteesOnly /\ OneInvitePerAddress
  BY <1>2 DEF Init, SpentInvitesAreGone, CreatedInvitesStay, InviteesOnly, OneInvitePerAddress, At
<1>6. AddressesAreHad /\ GuestsAreInvited
  BY <1>2 DEF Init, AddressesAreHad, GuestsAreInvited
<1> QED BY <1>1, <1>2, <1>3, <1>4, <1>5, <1>6
        DEF IInv, UnusedIsNew, UncommittedIsNew, CreatesAlone, FoundWasThere, DeletedOrGone

\* The invariant of Invites is inductive: whatever statements interleave and fail, an
\* invite is new, uncommitted, in the table or closed, and requests know which.
THEOREM Inductive == Spec => []IInv
BY InvariantAtFirst, InvariantKept, PTL DEF Spec

\* Every variable of Invites keeps its range.
THEOREM TypesHold == Spec => []TypeOK
BY Inductive, PTL DEF IInv

\* A used or revoked invite is gone for good.
THEOREM SpentAreGone == Spec => []SpentInvitesAreGone
BY Inductive, PTL DEF IInv

\* A 201 holds until the invite is used or revoked.
THEOREM CreatedStay == Spec => []CreatedInvitesStay
BY Inductive, PTL DEF IInv

\* A membership from an invite goes to somebody whose address it was sent to.
THEOREM OnlyInvitees == Spec => []InviteesOnly
BY Inductive, PTL DEF IInv

\* The table never has two invites for one address.
THEOREM OnePerAddress == Spec => []OneInvitePerAddress
BY Inductive, PTL DEF IInv

-----------------------------------------------------------------------------
(* Waiting.                                                                *)

\* Who has deleted an invite waits for nobody.
LEMMA HoldersDoNotWait ==
  ASSUME IInv, NEW q \in Requests, NEW i, HoldsInvite(q, i), NEW p \in Requests
  PROVE  ~WaitsFor(q, p)
<1>1. pc[q] \in Late
  BY DEF HoldsInvite, InTx, IInv, DeletedOrGone, Late, Reply
<1> QED BY <1>1 DEF WaitsFor, At, Late

\* Whoever is waited for is in a transaction, and if it waits itself, then for such a one.
LEMMA WaitedFor ==
  ASSUME NEW r \in Requests, NEW q \in Requests, WaitsFor(r, q)
  PROVE  /\ InTx(q)
         /\ InTx(r) => HoldsInvite(q, msg[r].invite)
BY DEF WaitsFor, HoldsEmail, HoldsMember, HoldsInvite, At, InTx

LEMMA NoCircle == IInv => NobodyWaitsForEver
<1> SUFFICES ASSUME IInv PROVE NobodyWaitsForEver
  OBVIOUS
<1>1. ASSUME NEW r \in Requests, NEW q \in Requests, WaitsFor(r, q)
      PROVE  pc[q] \notin Reply
  BY <1>1, WaitedFor DEF InTx, Reply
<1>2. ASSUME NEW T \in (SUBSET Requests) \ {{}}
      PROVE  \E r \in T : \A q \in T : ~WaitsFor(r, q)
  <2> SUFFICES ASSUME \A r \in T : \E q \in T : WaitsFor(r, q)
               PROVE  FALSE
    OBVIOUS
  <2>1. PICK r \in T : TRUE
    BY <1>2
  <2>2. PICK q \in T : WaitsFor(r, q)
    OBVIOUS
  <2>3. PICK p \in T : WaitsFor(q, p)
    OBVIOUS
  <2>4. HoldsInvite(p, msg[q].invite)
    BY <2>2, <2>3, WaitedFor
  <2> QED BY <2>4, HoldersDoNotWait
<1> QED BY <1>1, <1>2 DEF NobodyWaitsForEver

\* Statements that wait for one another's rows never do so in a circle, for any number
\* of requests.
THEOREM NoDeadlock == Spec => []NobodyWaitsForEver
BY Inductive, NoCircle, PTL

-----------------------------------------------------------------------------
(* The refinement.                                                         *)

\* Where rows and histories stay, so does the life of invites.
LEMMA LifeStays ==
  ASSUME \A i \in Invites : (row'[i] = "absent") <=> (row[i] = "absent"),
         UNCHANGED <<used, revoked>>
  PROVE  UNCHANGED I!vars
<1>1. \A i \in Invites : Closed(i)' = Closed(i)
  BY DEF Closed
<1>2. Life' = Life
  BY <1>1 DEF Life
<1> QED BY <1>2 DEF I!vars

LEMMA OpenStep ==
  ASSUME IInv, NEW r \in Requests, CommitCreate(r)
  PROVE  I!Next
<1> DEFINE i == msg[r].invite
<1>1. Creating(r) /\ UNCHANGED <<used, revoked>> /\ row' = [row EXCEPT ![i] = "fresh"]
  BY DEF CommitCreate, Creating, InTx, At
<1>2. i \in Invites /\ row[i] = "absent" /\ ~Closed(i)
  BY <1>1 DEF IInv, UncommittedIsNew
<1>3. \A j \in Invites : Closed(j)' = Closed(j)
  BY <1>1 DEF Closed
<1>4. \A j \in Invites : row'[j] = IF j = i THEN "fresh" ELSE row[j]
  BY <1>1 DEF IInv, TypeOK
<1>5. Life[i] = "new" /\ Life' = [Life EXCEPT ![i] = "open"]
  BY <1>2, <1>3, <1>4 DEF Life
<1>6. I!Open(i)
  BY <1>1, <1>5 DEF I!Open
<1> QED BY <1>2, <1>6 DEF I!Next

\* The invite of a COMMIT that closes it.
LEMMA ClosingStep ==
  ASSUME IInv, NEW r \in Requests, pc[r] \in Late, Found(r),
         row' = IF hit[r] THEN [row EXCEPT ![msg[r].invite] = "absent"] ELSE row,
         \A j \in Invites : Closed(j)' <=> Closed(j) \/ j = msg[r].invite
  PROVE  /\ msg[r].invite \in Invites
         /\ Life[msg[r].invite] \in {"open", "closed"}
         /\ Life' = [Life EXCEPT ![msg[r].invite] = "closed"]
<1> DEFINE i == msg[r].invite
<1>1. i \in Invites
  BY FoundFields DEF IInv
<1>2. Life[i] \in {"open", "closed"}
  BY <1>1 DEF IInv, FoundWasThere, Life
<1>3. \A j \in Invites : row'[j] = IF j = i THEN "absent" ELSE row[j]
  BY <1>1 DEF IInv, TypeOK, DeletedOrGone, Late
<1>4. \A j \in Invites : Life'[j] = IF j = i THEN "closed" ELSE Life[j]
  BY <1>3 DEF Life, Closed
<1>5. Life' = [Life EXCEPT ![i] = "closed"]
  <2>1. Life = [j \in Invites |-> Life[j]] /\ Life' = [j \in Invites |-> Life'[j]]
    BY DEF Life
  <2>2. Life' = [j \in Invites |-> IF j = i THEN "closed" ELSE Life[j]]
    BY <1>4, <2>1
  <2> QED BY <1>1, <2>1, <2>2
<1> QED BY <1>1, <1>2, <1>5

LEMMA JoinStep ==
  ASSUME IInv, NEW r \in Requests, CommitAccept(r)
  PROVE  I!Next
<1> DEFINE i == msg[r].invite
           u == msg[r].user
<1>1. /\ pc[r] = "spent" /\ msg[r].kind = "accept" /\ revoked' = revoked
      /\ used' = used \cup {<<i, u>>}
      /\ row' = IF hit[r] THEN [row EXCEPT ![i] = "absent"] ELSE row
  BY DEF CommitAccept, At
<1>2. Found(r) /\ pc[r] \in Late
  BY <1>1 DEF Found, Late, Reply
<1>3. u \in Users
  BY <1>1, <1>2, FoundFields, MessageFields DEF IInv
<1>4. \A j \in Invites : Closed(j)' <=> Closed(j) \/ j = i
  BY <1>1, <1>3 DEF Closed
<1>5. i \in Invites /\ Life[i] # "new" /\ Life' = [Life EXCEPT ![i] = "closed"]
  BY <1>1, <1>2, <1>4, ClosingStep
<1>6. I!Join(i, u)
  BY <1>1, <1>5 DEF I!Join
<1> QED BY <1>3, <1>5, <1>6 DEF I!Next

\* The second of two that revoke an invite, or use and revoke it, changes nothing.
LEMMA RevokeStep ==
  ASSUME IInv, NEW r \in Requests, CommitRevoke(r)
  PROVE  [I!Next]_(I!vars)
<1> DEFINE i == msg[r].invite
<1>1. /\ pc[r] = "logged" /\ msg[r].kind = "revoke" /\ used' = used
      /\ revoked' = revoked \cup {i}
      /\ row' = IF hit[r] THEN [row EXCEPT ![i] = "absent"] ELSE row
  BY DEF CommitRevoke, At
<1>2. Found(r) /\ pc[r] \in Late
  BY <1>1 DEF Found, Late, Reply
<1>3. \A j \in Invites : Closed(j)' <=> Closed(j) \/ j = i
  BY <1>1 DEF Closed
<1>4. i \in Invites /\ Life[i] \in {"open", "closed"} /\ Life' = [Life EXCEPT ![i] = "closed"]
  BY <1>1, <1>2, <1>3, ClosingStep
<1>5. CASE Life[i] = "open"
  <2>1. I!Revoke(i)
    BY <1>1, <1>4, <1>5 DEF I!Revoke
  <2> QED BY <1>4, <2>1 DEF I!Next
<1>6. CASE Life[i] = "closed"
  <2>1. Life' = Life
    BY <1>4, <1>6 DEF Life
  <2> QED BY <1>1, <2>1 DEF I!vars
<1> QED BY <1>4, <1>5, <1>6

LEMMA InvitationsStep == IInv /\ [Next]_vars => [I!Next]_(I!vars)
<1> SUFFICES ASSUME IInv, [Next]_vars PROVE [I!Next]_(I!vars)
  OBVIOUS
<1>1. CASE UNCHANGED <<row, used, revoked>>
  BY <1>1, LifeStays
<1>2. ASSUME NEW i \in Invites, Expire(i) PROVE [I!Next]_(I!vars)
  <2>1. \A j \in Invites : (row'[j] = "absent") <=> (row[j] = "absent")
    BY <1>2 DEF Expire, IInv, TypeOK
  <2> QED BY <1>2, <2>1, LifeStays DEF Expire
<1>3. ASSUME NEW r \in Requests, Statement(r) PROVE [I!Next]_(I!vars)
  <2>1. CASE CommitCreate(r) \/ CommitAccept(r) \/ CommitRevoke(r)
    BY <2>1, OpenStep, JoinStep, RevokeStep
  <2>2. CASE UNCHANGED <<row, used, revoked>>
    BY <2>2, <1>1
  <2> QED BY <1>3, <2>1, <2>2
          DEF Statement, BadRequest, CheckNotMember, Duplicate, Insert, FindInvite, CheckEmail,
              InsertMember, Spend, FindToRevoke, Revoke, DeleteInvite, WriteAudit, CommitAborted,
              Turn, tables
<1>4. CASE \/ \E u \in Users, e \in Emails : ChangeEmail(u, e)
           \/ \E u \in Users : RemoveMember(u)
           \/ \E r \in Requests, m \in Message : Send(r, m)
           \/ \E r \in Requests : SendMail(r) \/ Fails(r)
           \/ UNCHANGED vars
  BY <1>1, <1>4 DEF ChangeEmail, RemoveMember, Send, SendMail, Fails, Turn, tables, vars
<1> QED BY <1>2, <1>3, <1>4 DEF Next, Step

LEMMA InvitationsInit == Init => I!Init
BY DEF Init, I!Init, Life, Closed

\* Every behaviour of Invites is one of Invitations: invites open once, close for good,
\* and admit nobody who did not come while they were open.
THEOREM InvitationsImplemented == Spec => ImplementsInvitations
BY InvitationsInit, InvitationsStep, Inductive, PTL DEF Spec, ImplementsInvitations, I!Spec

-----------------------------------------------------------------------------
(* Nobody joins twice.                                                     *)

\* A membership that is inserted and not committed: its user is no member, and nobody
\* else has inserted one for them.
Joining(r) == msg[r].kind = "accept" /\ pc[r] \in {"joined", "spent"}

JoinsAlone ==
  \A r \in Requests : Joining(r) =>
    /\ msg[r].user \notin members
    /\ \A q \in Requests \ {r} : Joining(q) => msg[q].user # msg[r].user

\* Steps that insert no membership and commit none.
LEMMA JoiningStays ==
  ASSUME JoinsAlone, members' \subseteq members,
         \A q \in Requests : Joining(q)' => Joining(q) /\ msg'[q] = msg[q]
  PROVE  JoinsAlone'
BY DEF JoinsAlone

LEMMA InsertMemberJoinsAlone ==
  ASSUME TypeOK, JoinsAlone, NEW r \in Requests, InsertMember(r)
  PROVE  JoinsAlone'
<1>1. /\ At(r, "cleared", "accept") /\ UNCHANGED <<members, msg>>
      /\ \A q \in Requests : q # r => pc'[q] = pc[q]
  BY DEF InsertMember, Turn, GoTo, tables, TypeOK
<1>2. \A q \in Requests : Joining(q) => msg[q].user # msg[r].user
  BY DEF InsertMember, MayProceed, WaitsFor, HoldsMember, InTx, Joining, At
<1>3. Joining(r)' => msg[r].user \notin members
  BY DEF InsertMember, Turn, GoTo, TypeOK, Joining
<1>4. \A q \in Requests : q # r /\ Joining(q)' => Joining(q)
  BY <1>1 DEF Joining
<1> QED BY <1>1, <1>2, <1>3, <1>4 DEF JoinsAlone

LEMMA CommitJoinsAlone ==
  ASSUME TypeOK, JoinsAlone, NEW r \in Requests, CommitAccept(r)
  PROVE  JoinsAlone' /\ msg[r].user \notin members
<1>1. /\ Joining(r) /\ members' = members \cup {msg[r].user} /\ msg' = msg
      /\ pc'[r] \in {"200", "500"} /\ \A q \in Requests : q # r => pc'[q] = pc[q]
  BY DEF CommitAccept, GoTo, At, Joining, TypeOK
<1>2. \A q \in Requests : Joining(q)' => q # r /\ Joining(q)
  BY <1>1 DEF Joining
<1> QED BY <1>1, <1>2 DEF JoinsAlone

\* Any other step of a request leaves "joined" and "spent", or is Spend.
LEMMA StatementJoinsAlone ==
  ASSUME TypeOK, JoinsAlone, NEW r \in Requests, Step(r) \/ Fails(r)
  PROVE  JoinsAlone'
<1>1. CASE InsertMember(r) \/ CommitAccept(r)
  BY <1>1, InsertMemberJoinsAlone, CommitJoinsAlone
<1>2. CASE Insert(r)
  <2>1. /\ msg[r].kind = "create" /\ members' = members
        /\ msg'[r].kind = "create" /\ \A q \in Requests : q # r => msg'[q] = msg[q] /\ pc'[q] = pc[q]
    <3>1. PICK i \in Invites : msg' = [msg EXCEPT ![r].invite = i]
      BY <1>2 DEF Insert
    <3>2. At(r, "vetted", "create") /\ msg[r] \in Message
      BY <1>2 DEF Insert, At, TypeOK
    <3>3. msg'[r] = [msg[r] EXCEPT !.invite = i] /\ \A q \in Requests : q # r => msg'[q] = msg[q]
      BY <3>1 DEF TypeOK
    <3>4. msg'[r].kind = "create"
      BY <3>2, <3>3 DEF Message, At
    <3> QED BY <1>2, <3>2, <3>3, <3>4 DEF Insert, GoTo, At, TypeOK
  <2> QED BY <2>1, JoiningStays DEF Joining
<1>3. CASE /\ ~InsertMember(r) /\ ~CommitAccept(r) /\ ~Insert(r)
  <2>1. members' = members /\ msg' = msg
    BY <1>3 DEF Step, Statement, BadRequest, CheckNotMember, Duplicate, CommitCreate, FindInvite,
                CheckEmail, Spend, FindToRevoke, Revoke, CommitRevoke, DeleteInvite, WriteAudit,
                CommitAborted, SendMail, Fails, Turn, tables
  <2>2. \A q \in Requests : q # r => pc'[q] = pc[q]
    BY <1>3 DEF Step, Statement, BadRequest, CheckNotMember, Duplicate, CommitCreate, FindInvite,
                CheckEmail, Spend, FindToRevoke, Revoke, CommitRevoke, DeleteInvite, WriteAudit,
                CommitAborted, SendMail, Fails, Turn, GoTo, TypeOK
  <2>3. CASE Spend(r)
    <3>1. Joining(r)
      BY <2>3 DEF Spend, At, Joining
    <3> QED BY <2>1, <2>2, <3>1, JoiningStays DEF Joining
  <2>4. CASE FindInvite(r) \/ CheckEmail(r) \/ FindToRevoke(r) \/ CheckNotMember(r) \/ WriteAudit(r)
    <3>1. ASSUME FindInvite(r) PROVE pc'[r] \notin {"joined", "spent"}
      <4>1. row[msg[r].invite] \in {"absent", "fresh", "expired"}
        BY <3>1, MessageFields DEF FindInvite, At, TypeOK
      <4>2. \E to \in {"404", "410", "known"} : GoTo(r, to)
        BY <3>1, <4>1 DEF FindInvite, Turn
      <4> QED BY <4>2 DEF GoTo, TypeOK
    <3>2. ASSUME CheckEmail(r) \/ FindToRevoke(r) \/ CheckNotMember(r) \/ WriteAudit(r)
          PROVE  pc'[r] \notin {"joined", "spent"}
      <4>1. \E to \in {"cleared", "403", "404", "found", "409", "vetted", "logged", "aborted"} : GoTo(r, to)
        BY <3>2 DEF CheckEmail, FindToRevoke, CheckNotMember, WriteAudit, Turn
      <4> QED BY <4>1 DEF GoTo, TypeOK
    <3>3. pc'[r] \notin {"joined", "spent"}
      BY <2>4, <3>1, <3>2
    <3> QED BY <2>1, <2>2, <3>3, JoiningStays DEF Joining
  <2>5. CASE ~Spend(r) /\ ~(FindInvite(r) \/ CheckEmail(r) \/ FindToRevoke(r) \/ CheckNotMember(r) \/ WriteAudit(r))
    <3>1. \E to \in {"inserted", "mailed", "deleted"} \cup Reply : GoTo(r, to)
      BY <1>3, <2>5 DEF Step, Statement, BadRequest, Duplicate, CommitCreate, Revoke, CommitRevoke,
                        DeleteInvite, CommitAborted, SendMail, Fails, Turn, Reply
    <3>2. pc'[r] \notin {"joined", "spent"}
      BY <3>1 DEF GoTo, TypeOK, Reply
    <3> QED BY <2>1, <2>2, <3>2, JoiningStays DEF Joining
  <2> QED BY <2>3, <2>4, <2>5
<1> QED BY <1>1, <1>2, <1>3

LEMMA JoinsAloneKept == TypeOK /\ JoinsAlone /\ [Next]_vars => JoinsAlone'
<1> SUFFICES ASSUME TypeOK, JoinsAlone, [Next]_vars PROVE JoinsAlone'
  OBVIOUS
<1>1. CASE \E r \in Requests : Step(r) \/ Fails(r)
  BY <1>1, StatementJoinsAlone
<1>2. ASSUME NEW r \in Requests, NEW m \in Message, Send(r, m) PROVE JoinsAlone'
  <2>1. /\ members' = members /\ pc'[r] = "sent"
        /\ \A q \in Requests : q # r => msg'[q] = msg[q] /\ pc'[q] = pc[q]
    BY <1>2 DEF Send, GoTo, tables, TypeOK
  <2> QED BY <2>1, JoiningStays DEF Joining
<1>3. CASE \/ \E u \in Users, e \in Emails : ChangeEmail(u, e)
           \/ \E u \in Users : RemoveMember(u)
           \/ \E i \in Invites : Expire(i)
           \/ UNCHANGED vars
  <2>1. members' \subseteq members /\ pc' = pc /\ msg' = msg
    BY <1>3 DEF ChangeEmail, RemoveMember, Expire, vars
  <2> QED BY <2>1, JoiningStays DEF Joining
<1> QED BY <1>1, <1>2, <1>3 DEF Next

LEMMA JoinsAloneAtFirst == Init => JoinsAlone
BY DEF Init, JoinsAlone, Joining

\* Only the COMMIT of an accept uses an invite.
LEMMA UseStep ==
  TypeOK /\ JoinsAlone /\ [Next]_vars => [\A p \in used' \ used : p[2] \notin members]_vars
<1> SUFFICES ASSUME TypeOK, JoinsAlone, Next PROVE \A p \in used' \ used : p[2] \notin members
  BY DEF vars
<1>1. ASSUME NEW r \in Requests, CommitAccept(r)
      PROVE  \A p \in used' \ used : p[2] \notin members
  BY <1>1, CommitJoinsAlone DEF CommitAccept
<1>2. CASE used' = used
  BY <1>2
<1> QED BY <1>1, <1>2
        DEF Next, Step, Statement, BadRequest, CheckNotMember, Duplicate, Insert, CommitCreate,
            FindInvite, CheckEmail, InsertMember, Spend, FindToRevoke, Revoke, CommitRevoke,
            DeleteInvite, WriteAudit, CommitAborted, SendMail, Fails, Turn, Send, ChangeEmail,
            RemoveMember, Expire, tables

\* A COMMIT that is answered 200 had its membership inserted before.
LEMMA NoSecond200 ==
  JoinsAlone => [\A r \in Requests :
                   At(r, "spent", "accept") /\ pc'[r] = "200" => msg[r].user \notin members]_vars
BY DEF JoinsAlone, Joining, At

\* Of two accepts of one user the second is refused, whatever invites they are of.
THEOREM JoinsOnce == Spec => NobodyJoinsTwice
<1>1. TypeOK /\ JoinsAlone /\ [Next]_vars
        => [/\ \A p \in used' \ used : p[2] \notin members
            /\ \A r \in Requests :
                 At(r, "spent", "accept") /\ pc'[r] = "200" => msg[r].user \notin members]_vars
  BY UseStep, NoSecond200
<1> QED BY <1>1, Inductive, JoinsAloneAtFirst, JoinsAloneKept, PTL DEF Spec, IInv, NobodyJoinsTwice

=============================================================================
