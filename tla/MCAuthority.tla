----------------------------- MODULE MCAuthority -----------------------------
(***************************************************************************)
(* Instances of Authority for TLC.  Two actors sign in and work on each    *)
(* other's membership or their own; the third user stays an owner.  Nobody *)
(* is made a plain member while the run lasts: who is one has been it from *)
(* the start.  A browser does one thing at a time: it does not sign in     *)
(* while its request is out, as the API client does not.                   *)
(***************************************************************************)
EXTENDS Authority, TLC

Symmetry == Permutations(Actors) \cup Permutations(Users \ Actors)

\* The roles that are granted, by an update or by an invite.
Granted == {"admin", "owner"}

MCInit == AuthorityInit /\ \A u \in Users \ Actors : memb[u] = "owner"

MCServe(a) ==
  \/ Refuse(a)
  \/ \E u \in Actors :
       FetchTarget(a, u) \/ handleRemoveMember(a, u) \/ \E new \in Granted : handleUpdateMember(a, u, new)

MCNext ==
  \/ \E u \in Actors :
       \/ req[u] = Nothing /\ ReadRole(u)
       \/ signing[u] = Nothing /\ AuthRequired(u)
       \/ SignAccessToken(u) \/ SigningFails(u) \/ Forget(u)
  \/ \E a \in Actors : MCServe(a)
  \/ \E u \in Actors, role \in Granted : Join(u, role)
  \/ Tick

MCSpec == MCInit /\ [][MCNext]_authorityVars
===============================================================================
