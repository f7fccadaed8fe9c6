----------------------------- MODULE Invitations ------------------------------
(***************************************************************************)
(* What invites promise, without requests, transactions and failures: an   *)
(* invite opens once, and once it is closed, because it was used or        *)
(* revoked, it is closed for good.  Nobody becomes a member by an invite   *)
(* that never was open.                                                    *)
(*                                                                         *)
(* Who found an invite open may still join when it has closed meanwhile:   *)
(* handleAcceptInvite looks at it before its transaction                   *)
(* (MCInvitesAccept.cfg).                                                  *)
(***************************************************************************)
CONSTANTS Users, Invites

VARIABLES
  life,      \* each invite: "new", "open" or "closed"
  guests     \* <<invite, user>> for every membership that came from an invite

vars == <<life, guests>>

Init ==
  /\ life = [i \in Invites |-> "new"]
  /\ guests = {}

Open(i) ==
  /\ life[i] = "new"
  /\ life' = [life EXCEPT ![i] = "open"]
  /\ UNCHANGED guests

Revoke(i) ==
  /\ life[i] = "open"
  /\ life' = [life EXCEPT ![i] = "closed"]
  /\ UNCHANGED guests

Join(i, u) ==
  /\ life[i] # "new"
  /\ life' = [life EXCEPT ![i] = "closed"]
  /\ guests' = guests \cup {<<i, u>>}

Next == \E i \in Invites : Open(i) \/ Revoke(i) \/ \E u \in Users : Join(i, u)

Spec == Init /\ [][Next]_vars

===============================================================================
