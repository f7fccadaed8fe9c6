------------------------------ MODULE MCBilling ------------------------------
(* Instances of Billing for TLC. *)
EXTENDS Billing, TLC

MCItems ==
  {<<>>, <<[nickname |-> "", lookupKey |-> ""]>>,
   <<[nickname |-> "", lookupKey |-> "team"], [nickname |-> "pro", lookupKey |-> ""]>>,
   <<[nickname |-> "pro", lookupKey |-> "team"]>>}

\* Every UPDATE is saved.
SavedNext == Register \/ AtStripe \/ \E i \in 1..MaxEvents : Handle(i)
SavedSpec == Init /\ [][SavedNext]_vars

Symmetry == Permutations(Tenants) \cup Permutations(Subs)
=============================================================================
