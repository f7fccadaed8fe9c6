------------------------------ MODULE MCTenancy ------------------------------
(* Instances of Tenancy for TLC. *)
EXTENDS Tenancy, TLC

AllKinds == Reads \cup Writes

Symmetry == Permutations(Tenants) \cup Permutations(Projects)
              \cup Permutations(Requests) \cup Permutations(Conns)
=============================================================================
