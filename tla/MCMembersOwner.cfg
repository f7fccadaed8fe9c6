SPECIFICATION Spec
CONSTANTS
  Users = {u1, u2}
  Requests = {r1, r2}
  MaxConns = 2
  NewRoles = {"member"}
SYMMETRY Symmetry
INVARIANT OwnerRemains
