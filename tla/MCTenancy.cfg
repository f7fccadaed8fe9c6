SPECIFICATION Spec
CONSTANTS
  Tenants = {a, b}
  Projects = {p1, p2}
  Requests = {r1, r2, r3}
  Kinds <- AllKinds
  Conns = {c1, c2}
SYMMETRY Symmetry
CHECK_DEADLOCK FALSE
INVARIANTS
  ReadsOwnRows
  IdleConnectionsAreClean
PROPERTIES
  WritesOwnRows
  ImplementsStores
