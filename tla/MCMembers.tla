------------------------------ MODULE MCMembers ------------------------------
(* Instances of Members for TLC. *)
EXTENDS Members, TLC
Ext == INSTANCE SequencesExt

Symmetry == Permutations(Users) \cup Permutations(Requests)

\* The requests are alike: whichever is sent first may be called the first.  The
\* last one is somebody who leaves, and comes when one of the others waits for the
\* other's row: both keep their connections, and there is none for it.
Line == Ext!SetToSeq(Requests)
RowIsAwaited == \E r, s \in Open : r # s /\ pc[r] = "write" /\ Holds(s, msg[r].target)
SendInLine ==
  \E k \in DOMAIN Line, m \in Message :
    /\ \A j \in 1..(k - 1) : pc[Line[j]] # "idle"
    /\ k = 3 => RowIsAwaited /\ m.op = "remove" /\ m.actor = m.target
    /\ Send(Line[k], m)

\* So are the users: an owner comes first, and those without a membership last.
\* None is a viewer: the handlers do not tell it from a member.
LineInit ==
  /\ Init
  /\ \A u \in Users : memb[u] # "viewer"
  /\ LET first == Ext!SetToSeq(Users)
         weight(u) == IF memb[u] = NoRole THEN 0 ELSE roleWeight[memb[u]]
     IN  \A j, k \in DOMAIN first : j < k => weight(first[j]) >= weight(first[k])

\* A new token matters to the second request, if at all, and a token that is
\* replaced at once need not expire.
Renew(u) ==
  /\ pc[Line[2]] = "idle" \/ \A r \in Requests : pc[r] \in {"idle", "done"}
  /\ Sign(u) \/ (memb[u] = NoRole /\ Expire(u))

LineNext ==
  \/ \E u \in Users : Renew(u) \/ Join(u, "admin")
  \/ SendInLine
  \/ \E r \in Requests : Serve(r)
LineSpec == LineInit /\ [][LineNext]_vars /\ Fairness
=============================================================================
