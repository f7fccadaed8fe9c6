------------------------------ MODULE MCInvites ------------------------------
(* Instances of Invites for TLC. *)
EXTENDS Invites, TLC

CONSTANT Latecomer  \* a request that comes when the others are answered
Others == Requests \ {Latecomer}

Symmetry == Permutations(Users) \cup Permutations(Emails)
              \cup Permutations(Invites) \cup Permutations(Others)
\* Bound: addresses that are new to a user.
FewMoves == Cardinality(UNION {{<<u, e>> : e \in had'[u]} : u \in Users}) <= Cardinality(Users) + 2

\* Bound: the latecomer is somebody who has joined, is still a member, and has the
\* link of an invite that still is there.
IsLate(m) ==
  /\ \A r \in Others : pc[r] \in Reply
  /\ m.kind = "accept" /\ m.user \in members /\ row[m.invite] = "fresh"
  /\ \E i \in Invites : <<i, m.user>> \in used

FewNext ==
  \/ \E u \in Users, e \in Emails : ChangeEmail(u, e) /\ FewMoves
  \/ \E u \in Users : RemoveMember(u)
  \/ \E i \in Invites : Expire(i)
  \/ \E r \in Requests, m \in Message : (r = Latecomer => IsLate(m)) /\ Send(r, m)
  \/ \E r \in Requests : Step(r) \/ Fails(r)
FewSpec == Init /\ [][FewNext]_vars
=============================================================================
