------------------------------- MODULE Roster -------------------------------
(***************************************************************************)
(* What the members API promises about one tenant, without requests,       *)
(* transactions or failures: roles change one at a time, each change is in *)
(* the log together with the role it replaced, and an owner always stays.  *)
(* The promise is for callers who take turns.  Once two of them have been  *)
(* at it together (contended), a change may be made without looking: all   *)
(* that is left is that the log names it.                                  *)
(***************************************************************************)
CONSTANTS Users, Entries

Role == {"viewer", "member", "admin", "owner"}
NoRole == "none"

VARIABLES memb, log, contended

vars == <<memb, log, contended>>

OwnedBy(m) == {u \in Users : m[u] = "owner"}

Init ==
  /\ memb \in [Users -> Role \cup {NoRole}]
  /\ OwnedBy(memb) # {}
  /\ log = {}
  /\ contended = FALSE

\* One entry per request, and one change per entry.
Append(e) ==
  /\ e \in Entries
  /\ \A f \in log : f.req # e.req
  /\ log' = log \cup {e}
  /\ UNCHANGED contended

Change(e) ==
  /\ Append(e)
  /\ e.old = memb[e.target]
  /\ memb' = [memb EXCEPT ![e.target] = e.new]
  /\ OwnedBy(memb') # {}

BlindChange(e) ==
  /\ contended
  /\ Append(e)
  /\ memb' \in {memb, [memb EXCEPT ![e.target] = e.new]}

Join(u) ==
  /\ memb[u] = NoRole
  /\ \E role \in Role \ {"owner"} : memb' = [memb EXCEPT ![u] = role]
  /\ UNCHANGED <<log, contended>>

Contend ==
  /\ contended' = TRUE
  /\ UNCHANGED <<memb, log>>

Next ==
  \/ \E e \in log' \ log : Change(e) \/ BlindChange(e)
  \/ \E u \in Users : Join(u)
  \/ Contend

Spec == Init /\ [][Next]_vars
=============================================================================
