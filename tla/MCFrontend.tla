------------------------------ MODULE MCFrontend ------------------------------
(***************************************************************************)
(* Instances of Frontend for TLC.  One tab at a time leaves its dashboard. *)
(***************************************************************************)
EXTENDS Frontend, TLC

Symmetry == Permutations(Tabs) \cup Permutations(Tenants) \cup Permutations(Calls)

AtHome(w) == {page[w].route, todo[w].route} \subseteq {"login", "dashboard"}

MCUser(w) ==
  \/ Visit(w) \/ OtherForm(w)
  \/ \E route \in Links : (\A v \in Tabs \ {w} : AtHome(v)) /\ Navigate(w, route)
  \/ \E c \in Calls :
       \/ handleLogout(c, w) \/ loadBilling(c, w)
       \/ \E kind \in {"login", "register"} : handleSubmit(c, w, kind)
       \/ \E t \in Tenants : switchTenant(c, w, t)
       \/ \E u \in Users : removeMember(c, w, u)

MCNext ==
  \/ \E w \in Tabs : MCUser(w) \/ Router(w)
  \/ \E c \in Calls : Serve(c) \/ Arrive(c) \/ Lose(c)
  \/ Expire

MCSpec == Init /\ [][MCNext]_vars
===============================================================================
