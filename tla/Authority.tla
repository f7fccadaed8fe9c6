------------------------------ MODULE Authority ------------------------------
(***************************************************************************)
(* How long a role outlives its membership.  Roles are read when an access *)
(* token is signed (login, refresh, switch) and believed until the token   *)
(* runs out: AuthRequired takes them from the claims, and RequireRole and  *)
(* the members handlers look nowhere else for the role of the actor.       *)
(*                                                                         *)
(* One tenant; time in ticks.  An actor has one browser, which keeps an    *)
(* access token past its end: the cookie's age counts from its arrival.    *)
(* A handler, or a signing, takes at most Delay from its first statement   *)
(* to its last, which is the pace of the database and nothing the code     *)
(* sees to.                                                                *)
(***************************************************************************)
EXTENDS Naturals

CONSTANTS Users,
          Actors,    \* those of them who sign in
          Role,      \* the roles in use, ordered by roleWeight
          TTL,       \* ticks an access token is good for (15 minutes)
          Delay      \* ticks a handler may take

NoRole == "none"
roleWeight == [viewer |-> 1, member |-> 2, admin |-> 3, owner |-> 4]
RoleAtLeast(have, need) == roleWeight[have] >= roleWeight[need]

ASSUME AuthorityAssumption ==
  /\ Actors \subseteq Users
  /\ Role \subseteq {"viewer", "member", "admin", "owner"}
  /\ TTL \in Nat /\ Delay \in Nat

\* A role last held longer ago than this is of no more use.
Window == TTL + 2 * Delay

VARIABLES
  memb,      \* the role of each user in the tenant, or NoRole
  since,     \* history: ticks since a user last held a role, at most Window + 1
  signing,   \* a login, refresh or switch of each actor: the role read, and how long ago
  token,     \* the access token in each browser: its role, and the ticks it has left
  req,       \* a request of each actor to the members API: the role in its claims, its age
  fetched    \* what that request has read: the target, its role, and if it is the only owner

authorityVars == <<memb, since, signing, token, req, fetched>>

Wait == [role : Role \cup {NoRole}, age : 0..Delay]
Nothing == [role |-> NoRole, age |-> 0]
NoToken == [role |-> NoRole, left |-> 0]
NotFetched == [user |-> NoRole, role |-> NoRole, only |-> FALSE]

AuthorityTypeOK ==
  /\ memb \in [Users -> Role \cup {NoRole}]
  /\ since \in [Users -> [Role -> 0..(Window + 1)]]
  /\ signing \in [Actors -> Wait]
  /\ token \in [Actors -> [role : Role \cup {NoRole}, left : 0..TTL]]
  /\ req \in [Actors -> Wait]
  /\ fetched \in [Actors -> [user : Users, role : Role, only : BOOLEAN] \cup {NotFetched}]

Owners == {u \in Users : memb[u] = "owner"}

\* The tenant has an owner, and nobody has signed in.  Who has no role never had one.
AuthorityInit ==
  /\ memb \in [Users -> Role \cup {NoRole}] /\ Owners # {}
  /\ since = [u \in Users |-> [role \in Role |-> IF memb[u] = role THEN 0 ELSE Window + 1]]
  /\ signing = [u \in Actors |-> Nothing]
  /\ token = [u \in Actors |-> NoToken]
  /\ req = [u \in Actors |-> Nothing]
  /\ fetched = [u \in Actors |-> NotFetched]

-----------------------------------------------------------------------------
(* Login, refresh, switch.                                                 *)

\* Deviation: the new token takes over the claims of the old one.
ReadClaims(u) ==
  /\ signing[u] = Nothing
  /\ memb[u] # NoRole \/ token[u].role # NoRole
  /\ signing' = [signing EXCEPT ![u].role = IF token[u].role = NoRole THEN memb[u] ELSE token[u].role]
  /\ UNCHANGED <<memb, since, token, req, fetched>>

\* The SELECT finds a membership.  Without one there is no token.
ReadRole(u) ==
  /\ signing[u] = Nothing
  /\ memb[u] # NoRole
  /\ signing' = [signing EXCEPT ![u] = [role |-> memb[u], age |-> 0]]
  /\ UNCHANGED <<memb, since, token, req, fetched>>

\* Deviation: the lifetime of the refresh token.
SignForDays(u) ==
  /\ signing[u].role # NoRole
  /\ token' = [token EXCEPT ![u] = [role |-> signing[u].role, left |-> TTL + Window]]
  /\ signing' = [signing EXCEPT ![u] = Nothing]
  /\ UNCHANGED <<memb, since, req, fetched>>

SignAccessToken(u) ==
  /\ signing[u].role # NoRole
  /\ token' = [token EXCEPT ![u] = [role |-> signing[u].role, left |-> TTL]]
  /\ signing' = [signing EXCEPT ![u] = Nothing]
  /\ UNCHANGED <<memb, since, req, fetched>>

\* Store, Rotate or Switch fails, or the answer is lost.
SigningFails(u) ==
  /\ signing[u].role # NoRole
  /\ signing' = [signing EXCEPT ![u] = Nothing]
  /\ UNCHANGED <<memb, since, token, req, fetched>>

\* Logout, or the end of the cookie.
Forget(u) ==
  /\ token[u] # NoToken
  /\ token' = [token EXCEPT ![u] = NoToken]
  /\ UNCHANGED <<memb, since, signing, req, fetched>>

-----------------------------------------------------------------------------
(* A request to the members API.                                           *)

\* ParseAccessToken refuses an expired token, and then AuthRequired deletes it.
AuthRequired(u) ==
  /\ req[u] = Nothing /\ token[u] # NoToken
  /\ IF token[u].left > 0
     THEN /\ req' = [req EXCEPT ![u] = [role |-> token[u].role, age |-> 0]]
          /\ UNCHANGED token
     ELSE /\ token' = [token EXCEPT ![u] = NoToken]
          /\ UNCHANGED req
  /\ UNCHANGED <<memb, since, signing, fetched>>

Answer(a) == req' = [req EXCEPT ![a] = Nothing] /\ fetched' = [fetched EXCEPT ![a] = NotFetched]

\* A status of the 400s or a failing statement; nothing has been written.
Refuse(a) ==
  /\ req[a].role # NoRole
  /\ Answer(a)
  /\ UNCHANGED <<memb, since, signing, token>>

SetMembership(u, role) ==
  /\ memb' = [memb EXCEPT ![u] = role]
  /\ since' = IF role = NoRole THEN since ELSE [since EXCEPT ![u][role] = 0]
  /\ UNCHANGED <<signing, token>>

\* What claims with the role have let through: old and new are the target's roles.
MayUpdate(role, new) == RoleAtLeast(role, "admin") /\ (new = "owner" => role = "owner")
MayRemove(role, old) ==
  RoleAtLeast(role, "admin") /\ (role = "admin" => ~RoleAtLeast(old, "admin"))

\* The role of the target, and for an owner the number of owners, which are not looked
\* at again.  (Both are read here at one moment; Members has them apart.)
FetchTarget(a, u) ==
  /\ req[a].role # NoRole /\ fetched[a] = NotFetched
  /\ memb[u] # NoRole
  /\ a # u => RoleAtLeast(req[a].role, "admin")
  /\ fetched' = [fetched EXCEPT ![a] = [user |-> u, role |-> memb[u], only |-> Owners = {u}]]
  /\ UNCHANGED <<memb, since, signing, token, req>>

\* Deviation: the role of the target is not looked at.
handleRemoveAnybody(a, u) ==
  /\ fetched[a] # NotFetched /\ fetched[a].user = u
  /\ ~fetched[a].only
  /\ SetMembership(u, NoRole)
  /\ Answer(a)

\* By what was read; a row that is gone meanwhile stays away.
handleUpdateMember(a, u, new) ==
  /\ fetched[a] # NotFetched /\ fetched[a].user = u /\ a # u
  /\ MayUpdate(req[a].role, new)
  /\ fetched[a].only => new = "owner"
  /\ SetMembership(u, IF memb[u] = NoRole THEN NoRole ELSE new)
  /\ Answer(a)

handleRemoveMember(a, u) ==
  /\ fetched[a] # NotFetched /\ fetched[a].user = u
  /\ a # u => MayRemove(req[a].role, fetched[a].role)
  /\ ~fetched[a].only
  /\ SetMembership(u, NoRole)
  /\ Answer(a)

\* An invite is accepted.
Join(u, role) ==
  /\ memb[u] = NoRole /\ role # "owner"
  /\ SetMembership(u, role)
  /\ UNCHANGED <<req, fetched>>

-----------------------------------------------------------------------------

Older(w) == IF w.role = NoRole THEN w ELSE [w EXCEPT !.age = @ + 1]

Tick ==
  /\ \A u \in Actors :
       /\ signing[u].role # NoRole => signing[u].age < Delay
       /\ req[u].role # NoRole => req[u].age < Delay
  /\ since' = [u \in Users |-> [role \in Role |->
                 IF memb[u] = role THEN 0
                 ELSE IF since[u][role] <= Window THEN since[u][role] + 1 ELSE since[u][role]]]
  /\ signing' = [u \in Actors |-> Older(signing[u])]
  /\ token' = [u \in Actors |-> IF token[u].left = 0 THEN token[u] ELSE [token[u] EXCEPT !.left = @ - 1]]
  /\ req' = [u \in Actors |-> Older(req[u])]
  /\ UNCHANGED <<memb, fetched>>

Serve(a) ==
  \/ Refuse(a)
  \/ \E u \in Users :
       FetchTarget(a, u) \/ handleRemoveMember(a, u) \/ \E new \in Role : handleUpdateMember(a, u, new)

AuthorityNext ==
  \/ \E u \in Actors : ReadRole(u) \/ SignAccessToken(u) \/ SigningFails(u) \/ Forget(u) \/ AuthRequired(u)
  \/ \E a \in Actors : Serve(a)
  \/ \E u \in Users, role \in Role : Join(u, role)
  \/ Tick

AuthoritySpec == AuthorityInit /\ [][AuthorityNext]_authorityVars

-----------------------------------------------------------------------------
(* Properties.                                                             *)

Recently(u, role, ago) == since[u][role] <= ago

\* An access token that is still good has a role its user held when it was signed or
\* Delay before (handlers_auth.go:205 and 153, jwt.go:18): no chain of refreshes
\* carries a role on.
TokensAreRecent ==
  \A u \in Actors : token[u].left > 0 =>
    token[u].role # NoRole /\ Recently(u, token[u].role, TTL - token[u].left + Delay)

\* handlers_members.go:71 and :144 judge by the role in the claims and, to remove, by the
\* role that was read of the target: whoever changes the membership of another has held,
\* within Window, a role that allows it, be it for a role the target has no more, but had
\* within Delay.
ChangesAreBacked ==
  [][\A u \in Users : memb'[u] # memb[u] /\ memb[u] # NoRole =>
       \/ u \in Actors /\ memb'[u] = NoRole /\ req[u].role # NoRole
       \/ \E a \in Actors \ {u}, role \in Role :
            /\ req[a] # req'[a]
            /\ Recently(a, role, Window)
            /\ IF memb'[u] # NoRole THEN MayUpdate(role, memb'[u])
               ELSE \E old \in Role : Recently(u, old, Delay) /\ MayRemove(role, old)]_authorityVars

\* Removal takes effect: when Window has passed since a user had any role, no token is
\* good any more, nothing is being signed, and no request of theirs is still under way.
RemovalTakesEffect ==
  \A u \in Actors :
    (\A role \in Role : ~Recently(u, role, Window)) =>
      token[u].left = 0 /\ signing[u].role = NoRole /\ req[u].role = NoRole

-----------------------------------------------------------------------------
(* The inductive invariant behind them.                                    *)

NowIsRecent == \A u \in Users : memb[u] # NoRole => since[u][memb[u]] = 0
SigningIsRecent ==
  \A u \in Actors : signing[u].role # NoRole => Recently(u, signing[u].role, signing[u].age)
RequestsAreRecent ==
  \A u \in Actors : req[u].role # NoRole => Recently(u, req[u].role, TTL + Delay + req[u].age)

FetchedIsRecent ==
  \A u \in Actors : fetched[u] # NotFetched =>
    /\ req[u].role # NoRole /\ Recently(fetched[u].user, fetched[u].role, req[u].age)
    /\ fetched[u].user # u => RoleAtLeast(req[u].role, "admin")

AInv ==
  /\ AuthorityTypeOK /\ NowIsRecent /\ SigningIsRecent /\ TokensAreRecent
  /\ RequestsAreRecent /\ FetchedIsRecent

===============================================================================
