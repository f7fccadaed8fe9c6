------------------------------ MODULE MCSessions ------------------------------
(* Instances of Sessions for TLC. *)
EXTENDS Sessions, Naturals, TLC
Ext == INSTANCE SequencesExt

Symmetry == Permutations(Tokens) \cup Permutations(Requests)
              \cup Permutations(Users) \cup Permutations(Tenants)

Send1 == \E r \in Requests, order \in Order : Send(r, order)

\* Nothing fails and no answer is lost.
CalmNext == Environment \/ Send1 \/ \E r \in Requests : Step(r)
CalmSpec == Init /\ [][CalmNext]_vars

\* The requests are alike: whichever tab sends first may be called the first.
Line == Ext!SetToSeq(Requests)
SendInLine ==
  \E k \in DOMAIN Line, order \in Order :
    (\A j \in 1..(k - 1) : pc[Line[j]] # "idle") /\ Send(Line[k], order)

\* Memberships stay as they are and access cookies last.
SteadyNext ==
  \/ \E t \in Tokens : ExpireToken(t)
  \/ Prune
  \/ SendInLine
  \/ \E r \in Requests : Step(r) \/ Fault(r)
SteadySpec == Init /\ [][SteadyNext]_vars /\ Fairness
===============================================================================
