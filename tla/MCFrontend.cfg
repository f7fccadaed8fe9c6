SPECIFICATION MCSpec
CONSTANTS
  Tabs = {w1, w2}
  Tenants = {a, b}
  Me = me
  Others = {bob}
  Links = {"members", "billing"}
  Calls = {c1, c2}
SYMMETRY Symmetry
CHECK_DEADLOCK FALSE
INVARIANTS
  TypeOK
  MoverSeesItsWorkspace
